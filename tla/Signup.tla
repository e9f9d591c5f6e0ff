------------------------------- MODULE Signup -------------------------------
(***************************************************************************)
(* How one business gets its WhatsApp connection: attempts of Meta's       *)
(* Embedded Signup, the connection they lead to, the exclusive ("api_only")*)
(* connection, the way back from it, and the events of the browser.        *)
(*                                                                         *)
(*   whatsapp/onboarding_attempts.py, administration.py, onboarding.py     *)
(*   whatsapp/embedded_signup.py, api/public_pwa.py                        *)
(*   repositories/whatsapp_connections.py, api/internal_tasks.py           *)
(*                                                                         *)
(* A request that calls Meta keeps its transaction and its row locks while *)
(* it waits: it is several steps, and what it writes is seen at its end.   *)
(* Every other handler is one action, taken when the rows it locks are     *)
(* free.  The connection is the row get_connection finds: the newest.      *)
(* Of the fields of a row the model keeps who wrote them: the completion   *)
(* (the request), the browser, or nobody.                                  *)
(***************************************************************************)
EXTENDS Naturals, Sequences

CONSTANTS
  Requests,      \* requests that call Meta
  Nobody, Browser,
  MaxAttempts,   \* bound on the attempts
  MaxRows,       \* bound on the rows of connections
  MaxEvents,     \* bound on the events of the browser
  MaxCrashes     \* bound on the requests that die

ASSUME SignupAssumption ==
  /\ Nobody \notin Requests /\ Browser \notin Requests /\ Nobody # Browser
  /\ MaxAttempts \in Nat /\ MaxRows \in Nat /\ MaxEvents \in Nat /\ MaxCrashes \in Nat

VARIABLES
  conn,          \* id (0: none), status and mode of the connection, its identifiers and credential
  attempts,      \* the attempts, oldest first
  req,           \* a request: what it does, how far it is, for which attempt, whether it found a row
  stranded,      \* the history holds a cause that leaves a row pending (see PendingHasAttempt)
  events, crashes

vars == <<conn, attempts, req, stranded, events, crashes>>

-----------------------------------------------------------------------------
Statuses == {"none", "pending", "connected", "disconnected", "error"}
Modes == {"coexistence", "api_only"}
Active == {"created", "provider_opened", "awaiting_provider", "code_received",
           "assets_received", "completing"}
Terminal == {"connected", "authorization_incomplete", "failed", "expired", "superseded"}
Kinds == {"coexistence", "api_only", "leave"}
Places == {"unborn", "business", "row", "provider", "failed", "blamed", "done"}

Writers == Requests \cup {Nobody, Browser}
Rows == [id: 0 .. MaxRows, status: Statuses, mode: Modes, ids: Writers, cred: Writers]
Attempts == [state: Active \cup Terminal, conn: 1 .. MaxRows, due: BOOLEAN,
             code: BOOLEAN, waba: BOOLEAN]

ActiveOnes(as) == {a \in DOMAIN as : as[a].state \in Active}

\* Type invariant; there is at most one active attempt (a unique index).
TypeOK ==
  /\ conn \in Rows /\ (conn.id = 0) = (conn.status = "none")
  /\ attempts \in Seq(Attempts) /\ Len(attempts) <= MaxAttempts
  /\ \A a, b \in ActiveOnes(attempts) : a = b
  /\ \A a \in DOMAIN attempts : attempts[a].conn <= conn.id
  /\ req \in [Requests -> [kind: Kinds, at: Places, attempt: 0 .. MaxAttempts, found: BOOLEAN]]
  /\ stranded \in BOOLEAN
  /\ events \in 0 .. MaxEvents /\ crashes \in 0 .. MaxCrashes

NoRow == [id |-> 0, status |-> "none", mode |-> "coexistence", ids |-> Nobody, cred |-> Nobody]

Init ==
  /\ conn = NoRow
  /\ attempts = <<>>
  /\ req = [r \in Requests |-> [kind |-> "coexistence", at |-> "unborn", attempt |-> 0,
                                found |-> FALSE]]
  /\ stranded = FALSE /\ events = 0 /\ crashes = 0

-----------------------------------------------------------------------------
(* Row locks, which a request holds until its transaction ends.            *)

HoldsBusiness(r) == req[r].kind = "coexistence" /\ req[r].at \in {"business", "row", "provider"}
HoldsRow(r) == req[r].found /\ req[r].at \in {"row", "provider"}
HoldsAttempt(r) ==
  req[r].attempt # 0 /\ \/ req[r].kind = "coexistence" /\ req[r].at = "provider"
                        \/ req[r].at = "blamed"

BusinessFree == \A r \in Requests : ~HoldsBusiness(r)
RowFree == \A r \in Requests : ~HoldsRow(r)
AttemptFree == \A r \in Requests : ~HoldsAttempt(r)
AllFree == BusinessFree /\ RowFree /\ AttemptFree

-----------------------------------------------------------------------------
(* The connection (administration.py).                                     *)

\* mark_onboarding_error, of whatever row there is.
SparedNone(c) == c.status = "none"
SparedPending(c) == c.status \in {"none", "connected", "pending"}
Spared(c) == c.status \in {"none", "connected"}
Blamed(c) == IF Spared(c) THEN c ELSE [c EXCEPT !.status = "error"]

\* mark_disconnected
Emptied(c) == [c EXCEPT !.status = "disconnected", !.ids = Nobody, !.cred = Nobody]

NewRow(c, m) ==
  [id |-> c.id + 1, status |-> "pending", mode |-> m, ids |-> Nobody, cred |-> Nobody]
Absent(c) == c.status \in {"none", "disconnected"}

\* begin_pending_connection
MayBegin(c) ==
  /\ c.status # "connected"
  /\ c.status \in {"pending", "error"} => c.mode = "coexistence"
  /\ Absent(c) => c.id < MaxRows
Begun(c) ==
  IF Absent(c) THEN NewRow(c, "coexistence")
  ELSE IF c.status = "error" THEN [c EXCEPT !.status = "pending", !.ids = Nobody, !.cred = Nobody]
  ELSE c

\* complete_provider_onboarding refuses who is connected in the same mode.
RefusesNone(c, m) == FALSE
Refuses(c, m) == c.status = "connected" /\ c.mode = m
Completed(c, m, r) ==
  [(IF Absent(c) THEN NewRow(c, m) ELSE c)
     EXCEPT !.status = "connected", !.mode = m, !.ids = r, !.cred = r]

-----------------------------------------------------------------------------
(* The attempts (onboarding_attempts.py).                                  *)

TheActive(as, a) == a \in ActiveOnes(as)
Finished(as, a, s) == [as EXCEPT ![a].state = s, ![a].due = TRUE]
Refreshed(t) == [t EXCEPT !.due = FALSE]

\* reconcile: the active attempt whose time is over expires.
Overdue(as) == {a \in ActiveOnes(as) : as[a].due}
Reconciled(as) ==
  [a \in DOMAIN as |-> IF a \in Overdue(as) THEN [as[a] EXCEPT !.state = "expired"] ELSE as[a]]

Opened(n) == [state |-> "created", conn |-> n, due |-> FALSE, code |-> FALSE, waba |-> FALSE]

\* begin: an attempt for the row is taken up, one for another row gives way.
Continues(as, c) == \E a \in ActiveOnes(as) : as[a].conn = c.id
Superseded(as) ==
  [a \in DOMAIN as |-> IF as[a].state \in Active
                       THEN [as[a] EXCEPT !.state = "superseded", !.due = TRUE] ELSE as[a]]
StartedBeside(as, c) == IF Continues(as, c) THEN as ELSE Append(as, Opened(c.id))
Started(as, c) == IF Continues(as, c) THEN as ELSE Append(Superseded(as), Opened(c.id))

\* What a stage the browser reports makes of its attempt; any report may
\* carry the news of a code or of a business account.
Stages == {"login_opened", "passive", "intermediate_step_received", "wa_session_event_received",
           "callback", "empty_callback", "embedded_signup_ready_to_complete",
           "complete_request_started", "complete_request_succeeded", "complete_request_failed"}
Refreshing == {"login_opened", "wa_session_event_received", "intermediate_step_received",
               "embedded_signup_ready_to_complete", "callback"}

StateAfter(t, stage) ==
  CASE stage = "login_opened" -> "provider_opened"
    [] stage \in {"passive", "intermediate_step_received"} ->
         IF t.state = "created" THEN "awaiting_provider" ELSE t.state
    [] stage = "wa_session_event_received" ->
         IF t.waba THEN "assets_received" ELSE "awaiting_provider"
    [] stage = "callback" -> "code_received"
    [] stage = "empty_callback" -> IF t.code THEN t.state ELSE "awaiting_provider"
    [] stage = "embedded_signup_ready_to_complete" ->
         IF t.waba THEN "assets_received" ELSE "code_received"
    [] stage = "complete_request_started" -> "completing"
    [] stage = "complete_request_succeeded" -> "connected"
    [] OTHER -> "failed"

Recorded(t, stage, code, waba) ==
  LET u == [t EXCEPT !.code = @ \/ code \/ stage = "callback", !.waba = @ \/ waba]
      s == StateAfter(u, stage)
  IN [u EXCEPT !.state = s,
               !.due = IF s \in Terminal THEN TRUE ELSE @ /\ stage \notin Refreshing]

-----------------------------------------------------------------------------
(* Handlers of one transaction.                                            *)

\* A row without an active attempt of its own.
Orphan(c, as) == c.status = "pending" /\ ~Continues(as, c)

\* begin_meta_embedded_signup_attempt, with a new Idempotency-Key (k = 0) or
\* that of an earlier attempt.  A failure rolls back what it did.
BeginAttempt(k) ==
  LET as == Reconciled(attempts)
      c1 == IF Overdue(attempts) # {} THEN Blamed(conn) ELSE conn
      c2 == IF c1.status = "pending" /\ ActiveOnes(as) = {} THEN Blamed(c1) ELSE c1
      c3 == Begun(c2)
      as3 == IF k # 0 THEN as ELSE Started(as, c3)
  IN
  /\ AllFree
  /\ MayBegin(c2) /\ Len(as3) <= MaxAttempts
  /\ conn' = c3
  /\ attempts' = as3
  /\ stranded' = (stranded \/ Orphan(c3, as3))
  /\ UNCHANGED <<req, events, crashes>>

\* meta_embedded_signup_telemetry: an event of an attempt that is not the
\* active one is dropped.
Telemetry(a, stage) ==
  /\ AllFree /\ TheActive(attempts, a) /\ events < MaxEvents
  /\ events' = events + 1
  /\ IF attempts[a].due
     THEN /\ attempts' = Reconciled(attempts)
          /\ conn' = Blamed(conn)
          /\ UNCHANGED stranded
     ELSE /\ \E code, waba \in BOOLEAN :
               attempts' = [attempts EXCEPT ![a] = Recorded(@, stage, code, waba)]
          /\ stranded' = (stranded \/ Orphan(conn, attempts'))
          /\ UNCHANGED conn
  /\ UNCHANGED <<req, crashes>>

\* start_meta_embedded_signup_redirect
RedirectStart(a) ==
  /\ AllFree /\ TheActive(attempts, a) /\ events < MaxEvents
  /\ conn.status # "connected" /\ attempts[a].conn = conn.id /\ ~attempts[a].due
  /\ events' = events + 1
  /\ attempts' = [attempts EXCEPT ![a] = Recorded(@, "login_opened", FALSE, FALSE)]
  /\ UNCHANGED <<conn, req, stranded, crashes>>

\* record_meta_embedded_signup_assets: old browsers name no attempt (a = 0).
\* Behind a completion the identifiers are left as they are.
LateNever(c) == c.status = "none"
Late(c) == c.status = "connected"
Assets(a) ==
  /\ AllFree /\ events < MaxEvents
  /\ a # 0 => TheActive(attempts, a) /\ attempts[a].conn = conn.id
  /\ \/ Late(conn) /\ UNCHANGED conn
     \/ ~Late(conn) /\ conn.status \in {"pending", "connected"}
        /\ conn' = [conn EXCEPT !.ids = Browser]
  /\ events' = events + 1
  /\ attempts' = IF a = 0 THEN attempts
                 ELSE [attempts EXCEPT ![a] = Refreshed([@ EXCEPT !.waba = TRUE,
                                                                  !.state = "assets_received"])]
  /\ UNCHANGED <<req, stranded, crashes>>

\* The callback of the redirect without a code.
RedirectRefused(a) ==
  /\ AllFree /\ TheActive(attempts, a) /\ events < MaxEvents
  /\ conn.status # "connected" /\ attempts[a].conn = conn.id
  /\ events' = events + 1
  /\ attempts' = Finished(attempts, a, "authorization_incomplete")
  /\ conn' = Blamed(conn)
  /\ UNCHANGED <<req, stranded, crashes>>

\* GET /whatsapp/connection
Look ==
  /\ AllFree /\ Overdue(attempts) # {}
  /\ attempts' = Reconciled(attempts)
  /\ conn' = Blamed(conn)
  /\ UNCHANGED <<req, stranded, events, crashes>>

\* due_business_ids: every active attempt whose time is over.
DueInitial == {a \in Overdue(attempts) : attempts[a].state \in {"created", "awaiting_provider"}}
Due == Overdue(attempts)

\* reconcile_due_onboarding_attempts looks whether the row is the attempt's.
Sweep ==
  /\ AllFree /\ Due # {}
  /\ attempts' = Reconciled(attempts)
  /\ conn' = IF \E a \in Due : attempts[a].conn = conn.id THEN Blamed(conn) ELSE conn
  /\ UNCHANGED <<req, stranded, events, crashes>>

\* disconnect_whatsapp locks the row alone.
Disconnect ==
  /\ RowFree /\ ~Absent(conn)
  /\ conn' = Emptied(conn)
  /\ UNCHANGED <<attempts, req, stranded, events, crashes>>

\* expires_at passes.
Elapse ==
  /\ \E a \in ActiveOnes(attempts) :
       ~attempts[a].due /\ attempts' = [attempts EXCEPT ![a].due = TRUE]
  /\ UNCHANGED <<conn, req, stranded, events, crashes>>

-----------------------------------------------------------------------------
(* Requests that call Meta.                                                *)

Goes(r, p) == req' = [req EXCEPT ![r].at = p]
Ends(r) == req' = [req EXCEPT ![r] = [kind |-> @.kind, at |-> "done", attempt |-> 0, found |-> FALSE]]

\* complete_meta_embedded_signup and the callback of the redirect with a
\* code (a = 0: an old browser, which names no attempt).
BeginCompletion(r, a) ==
  /\ req[r].at = "unborn" /\ BusinessFree
  /\ req' = [req EXCEPT ![r] = [kind |-> "coexistence", at |-> "business", attempt |-> a,
                                found |-> FALSE]]
  /\ UNCHANGED <<conn, attempts, stranded, events, crashes>>

\* Who is connected already is told so.
LockRow(r) ==
  /\ req[r].kind = "coexistence" /\ req[r].at = "business" /\ RowFree
  /\ IF conn.status = "connected" THEN Ends(r)
     ELSE req' = [req EXCEPT ![r].at = "row", ![r].found = conn.id # 0]
  /\ UNCHANGED <<conn, attempts, stranded, events, crashes>>

\* mark_completing, which the others do not see.
LockAttempt(r) ==
  LET a == req[r].attempt IN
  /\ req[r].at = "row" /\ AttemptFree
  /\ IF a = 0 \/ (TheActive(attempts, a) /\ attempts[a].conn = conn.id)
     THEN Goes(r, "provider") ELSE Ends(r)
  /\ UNCHANGED <<conn, attempts, stranded, events, crashes>>

\* complete_meta_api_only_signup locks the row there is, and no business.
BeginApiOnly(r) ==
  /\ req[r].at = "unborn"
  /\ conn.id # 0 => RowFree
  /\ ~(conn.status = "connected" /\ conn.mode = "api_only")
  /\ req' = [req EXCEPT ![r] = [kind |-> "api_only", at |-> "provider", attempt |-> 0,
                                found |-> conn.id # 0]]
  /\ UNCHANGED <<conn, attempts, stranded, events, crashes>>

\* prepare_whatsapp_coexistence_switch
BeginLeave(r) ==
  /\ req[r].at = "unborn" /\ RowFree
  /\ conn.status = "connected" /\ conn.mode = "api_only"
  /\ req' = [req EXCEPT ![r] = [kind |-> "leave", at |-> "provider", attempt |-> 0, found |-> TRUE]]
  /\ UNCHANGED <<conn, attempts, stranded, events, crashes>>

\* The code was exchanged, the assets are confirmed, the app is subscribed
\* (and the number registered), the credential is stored.
Complete(r) ==
  LET m == req[r].kind
      a == req[r].attempt IN
  /\ req[r].at = "provider" /\ m \in Modes
  /\ req[r].found \/ RowFree
  /\ ~Refuses(conn, m) /\ (Absent(conn) => conn.id < MaxRows)
  /\ conn' = Completed(conn, m, r)
  /\ attempts' = IF a = 0 THEN attempts ELSE Finished(attempts, a, "connected")
  /\ Ends(r)
  /\ UNCHANGED <<stranded, events, crashes>>

\* The phone is deregistered.
Leave(r) ==
  /\ req[r].kind = "leave" /\ req[r].at = "provider"
  /\ conn' = Emptied(conn)
  /\ Ends(r)
  /\ UNCHANGED <<attempts, stranded, events, crashes>>

\* Meta refuses or cannot be reached, or somebody else connected: rollback.
\* What a completion had of the attempt is told in a second transaction.
Fail(r) ==
  /\ req[r].at = "provider"
  /\ IF req[r].kind = "coexistence" THEN Goes(r, "failed") ELSE Ends(r)
  /\ UNCHANGED <<conn, attempts, stranded, events, crashes>>

\* _persist_embedded_signup_failure: only of the attempt that is active still.
Blame(r) ==
  LET a == req[r].attempt IN
  /\ req[r].at = "failed" /\ (a # 0 => AttemptFree)
  /\ IF a = 0 \/ TheActive(attempts, a) THEN Goes(r, "blamed") ELSE Ends(r)
  /\ UNCHANGED <<conn, attempts, stranded, events, crashes>>

RecordFailure(r) ==
  LET a == req[r].attempt IN
  /\ req[r].at = "blamed" /\ RowFree
  /\ attempts' = IF a = 0 THEN attempts ELSE Finished(attempts, a, "failed")
  /\ conn' = Blamed(conn)
  /\ Ends(r)
  /\ UNCHANGED <<stranded, events, crashes>>

\* One holds the attempt and waits for the row, the other the reverse: the
\* database ends one of the two transactions.
Victim(r) ==
  /\ \E q \in Requests \ {r} :
       \/ /\ req[r].at = "row" /\ HoldsRow(r) /\ HoldsAttempt(q) /\ req[q].at = "blamed"
          /\ Goes(r, "failed")
       \/ /\ req[q].at = "row" /\ HoldsRow(q) /\ HoldsAttempt(r) /\ req[r].at = "blamed"
          /\ Ends(r)
  /\ UNCHANGED <<conn, attempts, stranded, events, crashes>>

\* The process or the connection to the database is lost.
Die(r) ==
  /\ req[r].at \notin {"unborn", "done"} /\ crashes < MaxCrashes
  /\ crashes' = crashes + 1
  /\ Ends(r)
  /\ UNCHANGED <<conn, attempts, stranded, events>>

Proceeds(r) == LockRow(r) \/ LockAttempt(r) \/ Complete(r) \/ Leave(r) \/ Fail(r)
            \/ Blame(r) \/ RecordFailure(r) \/ Victim(r)

-----------------------------------------------------------------------------
Begins(r) == \/ \E a \in 0 .. Len(attempts) : BeginCompletion(r, a)
             \/ BeginApiOnly(r)
             \/ BeginLeave(r)

Panel(a) ==
  \/ BeginAttempt(a)
  \/ Assets(a)
  \/ a # 0 /\ (RedirectStart(a) \/ RedirectRefused(a) \/ \E stage \in Stages : Telemetry(a, stage))

Next ==
  \/ \E a \in 0 .. Len(attempts) : Panel(a)
  \/ Look \/ Sweep \/ Disconnect \/ Elapse
  \/ \E r \in Requests : Begins(r) \/ Proceeds(r) \/ Die(r)

\* A request goes on (Meta answers or times out), a scheduled job sweeps.
Fairness ==
  /\ \A r \in Requests : WF_vars(Proceeds(r))
  /\ WF_vars(Elapse) /\ WF_vars(Sweep)

Spec == Init /\ [][Next]_vars /\ Fairness

-----------------------------------------------------------------------------
(* Properties.                                                             *)

\* What sends and receives is one completion's: identifiers and credential of
\* the same exchange, in the mode it was made for, and nothing the browser
\* reported (complete_provider_onboarding, record_pending_meta_assets).
ConnectedIsWhole ==
  conn.status = "connected" =>
    conn.ids \in Requests /\ conn.cred = conn.ids /\ req[conn.ids].kind = conn.mode

\* A connection that works is given up by a disconnection or for the other
\* mode only: not by a late failure, an attempt that expires, an event of the
\* browser or a second completion (mark_onboarding_error and the checks
\* behind the locks of complete_provider_onboarding).
ConnectionIsKept ==
  [][conn.status = "connected" =>
       \/ conn'.status = "disconnected"
       \/ conn'.status = "connected" /\ (conn'.ids = conn.ids \/ conn'.mode # conn.mode)]_vars

\* A connection is pending while an attempt for it is, and not for ever: an
\* attempt that ends takes the row with it (mark_onboarding_error).  Two
\* things leave it behind: the Idempotency-Key of an attempt that ended, and
\* a browser that reports the end of the completion itself.
PendingHasAttempt == Orphan(conn, attempts) => stranded

\* An attempt that was given up, by the browser, by a request that died or by
\* Meta, ends without the browser's help (reconcile_due_onboarding_attempts).
AttemptsEnd ==
  \A a \in 1 .. MaxAttempts :
    (a \in ActiveOnes(attempts)) ~> (a \in DOMAIN attempts /\ attempts[a].state \in Terminal)

\* What the code does not keep: a row is pending without an attempt only if
\* it is older than the attempts (there is none in this model).
PendingIsLegacy == ~Orphan(conn, attempts)

\* What the code does not keep: after a failure the signup can be repeated.
ErrorsAreRetryable == conn.status = "error" => conn.mode = "coexistence"
=============================================================================

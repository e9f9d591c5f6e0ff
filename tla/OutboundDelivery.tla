-------------------------- MODULE OutboundDelivery --------------------------
(***************************************************************************)
(* The outbox of the assistant: rows of the messages table with direction  *)
(* "outbound", the Cloud Tasks that drive them, the workers that send them *)
(* to the WhatsApp provider, the status webhooks that come back, and the   *)
(* operator's switches that must stop a send.                              *)
(*                                                                         *)
(*   tasks/outbound.py, tasks/cloud_tasks.py, api/internal_tasks.py        *)
(*   repositories/outbound_tasks.py, repositories/cloud_tasks.py           *)
(*   repositories/automation.py, operations/service.py, billing/usage.py   *)
(*                                                                         *)
(* A database transaction is one action, except where it waits for a lock  *)
(* or for the provider while it holds others: the worker's transaction is  *)
(* Start*, TakeBusiness, Provider*, CommitSent, the one that turns the     *)
(* assistant off is SettingsOffBegin, SettingsOffCommit, and the one that  *)
(* excludes a contact ExcludeBegin, ExcludeCommit.  A row lock is the      *)
(* program counter of the transaction that holds it.                       *)
(*                                                                         *)
(* The rows of one business.  The provider id of a message is the identity *)
(* of its last committed send: "seen" holds what was reported about that   *)
(* send.  A webhook about an older or an uncommitted send finds no row and *)
(* is not a step.                                                          *)
(***************************************************************************)
EXTENDS Naturals, FiniteSets

CONSTANTS
  Messages,       \* outbound rows
  Conversations,
  Conv,           \* the conversation of a message
  Workers,        \* handlers of the outbound queue that run at once
  NoMsg,          \* the end of a sequence, the job of an idle worker
  Follow,         \* the next message of the same sequence, or NoMsg
  Lead,           \* the first message of the sequence
  Manual,         \* written by a person ("manual:outbound:" keys)
  HandoffNotice,  \* sent on the way to a person (_alovia_transition)
  OptionalMsgs,   \* _alovia_optional: a failure does not stop the sequence
  Reactions,      \* message_type "reaction": outside the quota
  Retryable,      \* message types of RETRYABLE_OUTBOUND_MESSAGE_TYPES
  MaxAttempt,     \* MAX_OUTBOUND_RETRY_ATTEMPTS
  Quota,          \* messages of the plan per month
  Reported,       \* the statuses the provider reports
  MaxCrashes,     \* bound on the crashes of workers
  MaxOps          \* bound on the operator's actions

ASSUME OutboundAssumption ==
  /\ NoMsg \notin Messages
  /\ Conv \in [Messages -> Conversations]
  /\ Follow \in [Messages -> Messages \cup {NoMsg}]
  /\ Lead \in [Messages -> Messages]
  /\ \A m \in Messages : Conv[Lead[m]] = Conv[m] /\ Lead[Lead[m]] = Lead[m]
  /\ \A m \in Messages : Follow[m] \in Messages =>
       Lead[Follow[m]] = Lead[m] /\ Lead[Follow[m]] # Follow[m]
  /\ \A m, n \in Messages : Follow[m] = Follow[n] => m = n \/ Follow[m] = NoMsg
  /\ \A m \in Messages : m \in Manual \/ Lead[m] \in Manual => Lead[m] = m
  /\ Manual \subseteq Messages
  /\ HandoffNotice \subseteq Messages
  /\ OptionalMsgs \subseteq Messages
  /\ Reactions \subseteq Messages
  /\ Retryable \subseteq Messages
  /\ MaxAttempt \in Nat /\ Quota \in Nat
  /\ MaxCrashes \in Nat /\ MaxOps \in Nat
  /\ Reported \subseteq {"sent", "delivered", "read", "failed"}

VARIABLES
  status,      \* messages.status, "absent" before the row exists
  attempt,     \* _alovia_retry_attempt
  seen,        \* statuses applied to the current provider id
  retryDue,    \* a failed event was applied, its retry task not yet created
  sends,       \* committed sends of the message (history)
  task,        \* Cloud Tasks by message and attempt; 0 is the plain name
  pc, job, nth,        \* a worker's step, its message, its task's attempt
  enabled, handoff, suppressed, exclusion,   \* switches of a conversation
  assistantOn, entitled,                     \* switches of the business
  settings, offScope,    \* the transaction that turns the assistant off, its rows
  excluding, exScope,    \* the ones that exclude a contact (the mode), their rows
  late,        \* those open when a row became pending, too late for them (history)
  crashes, ops

rowVars     == <<status, attempt, seen, retryDue, sends>>
workerVars  == <<pc, job, nth>>
switchVars  == <<enabled, handoff, suppressed, exclusion, assistantOn, entitled>>
cancelVars  == <<settings, offScope, excluding, exScope, late>>
vars == <<rowVars, task, workerVars, switchVars, cancelVars, crashes, ops>>

Statuses     == {"sent", "delivered", "read", "failed"}
Delivered    == {"sent", "delivered", "read"}
RowStatuses  == Statuses \cup {"absent", "pending"}
Attempts     == 0 .. MaxAttempt
TaskStates   == {"none", "live", "done"}
WorkerSteps  == {"idle", "business", "calling", "accepted", "retry", "next", "ack"}
ExclusionModes == {"none", "human_only", "ignore"}
HandoffStatuses == {"none", "waiting", "human_only"}
Cancellers == {"settings", "human_only", "ignore"}

Automatic == Messages \ (Manual \cup HandoffNotice)
Firsts    == {m \in Messages : Lead[m] = m}

RowsOK ==
  /\ status \in [Messages -> RowStatuses]
  /\ attempt \in [Messages -> Attempts]
  /\ seen \in [Messages -> SUBSET Statuses]
  /\ retryDue \in [Messages -> BOOLEAN]
  /\ sends \in [Messages -> Nat]

TasksOK == task \in [Messages -> [Attempts -> TaskStates]]

WorkersOK ==
  /\ pc \in [Workers -> WorkerSteps]
  /\ job \in [Workers -> Messages \cup {NoMsg}]
  /\ nth \in [Workers -> Attempts]
  /\ \A w \in Workers : pc[w] # "idle" => job[w] \in Messages

SwitchesOK ==
  /\ enabled \in [Conversations -> BOOLEAN]
  /\ handoff \in [Conversations -> HandoffStatuses]
  /\ suppressed \in [Conversations -> BOOLEAN]
  /\ exclusion \in [Conversations -> ExclusionModes]
  /\ assistantOn \in BOOLEAN /\ entitled \in BOOLEAN

CancelsOK ==
  /\ settings \in {"idle", "open"}
  /\ excluding \in [Conversations -> ExclusionModes]
  /\ offScope \subseteq Messages /\ exScope \subseteq Messages
  /\ late \in [Messages -> SUBSET Cancellers]

BoundsOK == crashes \in 0 .. MaxCrashes /\ ops \in 0 .. MaxOps

\* Type invariant: rows, tasks, workers, switches, cancellations, bounds.
TypeOK == RowsOK /\ TasksOK /\ WorkersOK /\ SwitchesOK /\ CancelsOK /\ BoundsOK

Init ==
  /\ status = [m \in Messages |-> "absent"]
  /\ attempt = [m \in Messages |-> 0]
  /\ seen = [m \in Messages |-> {}]
  /\ retryDue = [m \in Messages |-> FALSE]
  /\ sends = [m \in Messages |-> 0]
  /\ task = [m \in Messages |-> [a \in Attempts |-> "none"]]
  /\ pc = [w \in Workers |-> "idle"]
  /\ job = [w \in Workers |-> NoMsg]
  /\ nth = [w \in Workers |-> 0]
  /\ enabled = [c \in Conversations |-> TRUE]
  /\ handoff = [c \in Conversations |-> "none"]
  /\ suppressed = [c \in Conversations |-> FALSE]
  /\ exclusion = [c \in Conversations |-> "none"]
  /\ assistantOn = TRUE /\ entitled = TRUE
  /\ settings = "idle" /\ offScope = {}
  /\ excluding = [c \in Conversations |-> "none"] /\ exScope = {}
  /\ late = [m \in Messages |-> {}]
  /\ crashes = 0 /\ ops = 0

-----------------------------------------------------------------------------
(* Locks.                                                                  *)

\* The worker's transaction holds the conversation and the message row.
Sending(w) == pc[w] \in {"business", "calling", "accepted"}

\* Mutant: lock_message without FOR UPDATE of the conversation.
ConvFreeUnlocked(c) == c \in Conversations
ConvFree(c) == \A w \in Workers : Sending(w) => Conv[job[w]] # c
\* Mutant: rows are cancelled without waiting for whoever holds them.
RowFreeUnlocked(m) == m \in Messages
RowFree(m)  == \A w \in Workers : Sending(w) => job[w] # m

\* The usage snapshot locks the business row until the send commits.
HoldsBusiness(w) == pc[w] \in {"calling", "accepted"} /\ job[w] \notin Reactions
\* Mutant: the usage is counted without the lock of the business row.
BusinessFreeUnlocked == settings = "idle"
BusinessFree == settings = "idle" /\ \A w \in Workers : ~HoldsBusiness(w)

-----------------------------------------------------------------------------
(* Creating tasks.  A name that exists or existed is AlreadyExists, which  *)
(* the enqueuer takes for success.                                         *)

CreateTask(m, a) ==
  task' = IF task[m][a] = "none" THEN [task EXCEPT ![m][a] = "live"] ELSE task

\* The retry of a message has its attempt number in the name of its task.
\* Mutant: it takes the plain name, which exists already.
EnqueueAttemptPlainName(m) ==
  IF status[m] = "pending" /\ attempt[m] > 0 THEN CreateTask(m, 0) ELSE UNCHANGED task
EnqueueAttempt(m) ==
  IF status[m] = "pending" /\ attempt[m] > 0 THEN CreateTask(m, attempt[m]) ELSE UNCHANGED task

\* Mutant: the follow-ups of a sequence are listed, too.
EnqueueFirstAny(m) ==
  /\ status[m] = "pending"
  /\ task[m][0] = "none"
  /\ CreateTask(m, 0)
  /\ UNCHANGED <<rowVars, workerVars, switchVars, cancelVars, crashes, ops>>

\* list_pending_for_event_key, run by the handler of any inbound event of
\* the conversation, and the enqueue that follows a manual message.
EnqueueFirst(m) ==
  /\ m \in Firsts
  /\ status[m] = "pending"
  /\ task[m][0] = "none"
  /\ CreateTask(m, 0)
  /\ UNCHANGED <<rowVars, workerVars, switchVars, cancelVars, crashes, ops>>

\* retry_candidate_for_event_key, after the failed event has committed.
EnqueueRetryForEvent(m) ==
  /\ retryDue[m]
  /\ retryDue' = [retryDue EXCEPT ![m] = FALSE]
  /\ EnqueueAttempt(m)
  /\ UNCHANGED <<status, attempt, seen, sends, workerVars, switchVars, cancelVars, crashes, ops>>

-----------------------------------------------------------------------------
(* The engine and the operator write rows.                                 *)

Cancel(S) == [m \in Messages |-> IF m \in S /\ status[m] = "pending"
                                 THEN "failed" ELSE status[m]]

\* The rows of S become pending.  An UPDATE that cancels has found its rows
\* when it starts; one that becomes pending while it waits, or before its
\* transaction commits, it neither finds nor waits for.
OpenFor(m) == {o \in Cancellers : \/ o = "settings" /\ settings = "open" /\ m \notin Manual
                                  \/ o = excluding[Conv[m]]}
Appear(S) ==
  /\ late' = [m \in Messages |-> IF m \in S THEN OpenFor(m) ELSE late[m]]
  /\ UNCHANGED <<settings, excluding>>
PendingOf(c) == {m \in Messages : Conv[m] = c} \ Manual

\* persist_transition: the answer to one turn, the first message and its
\* follow-ups.  The assistant and exclusion switches were read before the
\* conversation was locked and may have changed since.
Sequence(m) == {n \in Messages : Lead[n] = m}
CreateTurn(m) ==
  /\ m \in Firsts \ Manual
  /\ status[m] = "absent"
  /\ ConvFree(Conv[m])
  /\ enabled[Conv[m]] /\ handoff[Conv[m]] = "none" /\ ~suppressed[Conv[m]]
  /\ status' = [n \in Messages |-> IF n \in Sequence(m) THEN "pending" ELSE status[n]]
  /\ handoff' = IF m \in HandoffNotice
                THEN [handoff EXCEPT ![Conv[m]] = "waiting"] ELSE handoff
  /\ Appear(Sequence(m))
  /\ UNCHANGED <<attempt, seen, retryDue, sends, task, workerVars, enabled, suppressed,
                 exclusion, assistantOn, entitled, offScope, exScope, crashes, ops>>

\* send_manual_message: activate_human_control, then the row.
SendManual(m) ==
  /\ m \in Manual
  /\ status[m] = "absent"
  /\ ConvFree(Conv[m])
  /\ status' = [Cancel(PendingOf(Conv[m])) EXCEPT ![m] = "pending"]
  /\ suppressed' = [suppressed EXCEPT ![Conv[m]] = TRUE]
  /\ Appear({m})
  /\ UNCHANGED <<attempt, seen, retryDue, sends, task, workerVars, enabled, handoff,
                 exclusion, assistantOn, entitled, offScope, exScope, crashes, ops>>

\* update_conversation_automation and bulk assistant_off.
ToggleOff(c) ==
  /\ ConvFree(c)
  /\ enabled' = [enabled EXCEPT ![c] = FALSE]
  /\ handoff' = [handoff EXCEPT ![c] = "waiting"]
  /\ status' = Cancel(PendingOf(c))
  /\ UNCHANGED <<attempt, seen, retryDue, sends, task, workerVars, suppressed,
                 exclusion, assistantOn, entitled, cancelVars, crashes>>

\* update_conversation_automation and bulk assistant_on.
ToggleOn(c) ==
  /\ ConvFree(c)
  /\ enabled' = [enabled EXCEPT ![c] = TRUE]
  /\ handoff' = [handoff EXCEPT ![c] = "none"]
  /\ suppressed' = [suppressed EXCEPT ![c] = FALSE]
  /\ UNCHANGED <<rowVars, task, workerVars, exclusion, assistantOn, entitled, cancelVars, crashes>>

\* delete_conversation archives the thread and resets its control.
DeleteConversation(c) ==
  /\ ConvFree(c)
  /\ enabled' = [enabled EXCEPT ![c] = TRUE]
  /\ handoff' = [handoff EXCEPT ![c] = "none"]
  /\ suppressed' = [suppressed EXCEPT ![c] = FALSE]
  /\ status' = Cancel(PendingOf(c))
  /\ UNCHANGED <<attempt, seen, retryDue, sends, task, workerVars, exclusion,
                 assistantOn, entitled, cancelVars, crashes>>

\* add_exclusion, or update_exclusion with the row active: the row of the
\* exclusion, then one UPDATE over the messages.  The conversation is not
\* locked, the rows that were pending when the UPDATE started are.
HasMarker(c) == exclusion[c] = "human_only" /\ handoff[c] = "human_only"
OfContact(c) == {m \in Messages : Conv[m] = c}

ExcludeBegin(c, mode) ==
  /\ exclusion[c] # mode /\ excluding[c] = "none"
  /\ excluding' = [excluding EXCEPT ![c] = mode]
  /\ exScope' = exScope \cup {m \in OfContact(c) : status[m] = "pending"}
  /\ late' = [m \in Messages |-> IF Conv[m] = c THEN late[m] \ {mode} ELSE late[m]]
  /\ UNCHANGED <<rowVars, task, workerVars, switchVars, settings, offScope, crashes>>

\* It commits once no worker holds a message it has to cancel.
ExcludeCommit(c) ==
  /\ excluding[c] # "none"
  /\ HasMarker(c) => ConvFree(c)
  /\ \A m \in exScope : Conv[m] = c /\ status[m] = "pending" => RowFree(m)
  /\ exclusion' = [exclusion EXCEPT ![c] = excluding[c]]
  /\ handoff' = IF HasMarker(c) THEN [handoff EXCEPT ![c] = "none"] ELSE handoff
  /\ status' = Cancel(exScope \cap OfContact(c))
  /\ excluding' = [excluding EXCEPT ![c] = "none"]
  /\ exScope' = exScope \ OfContact(c)
  /\ UNCHANGED <<attempt, seen, retryDue, sends, task, workerVars, enabled, suppressed,
                 assistantOn, entitled, settings, offScope, late, crashes, ops>>

\* delete_exclusion, or update_exclusion with the row made inactive.
Include(c) ==
  /\ exclusion[c] # "none" /\ excluding[c] = "none"
  /\ HasMarker(c) => ConvFree(c)
  /\ exclusion' = [exclusion EXCEPT ![c] = "none"]
  /\ handoff' = IF HasMarker(c) THEN [handoff EXCEPT ![c] = "none"] ELSE handoff
  /\ UNCHANGED <<rowVars, task, workerVars, enabled, suppressed, assistantOn, entitled,
                 cancelVars, crashes>>

\* Access is granted or lost (billing, platform admin); nothing is cancelled.
EntitlementChanges ==
  /\ entitled' = ~entitled
  /\ UNCHANGED <<rowVars, task, workerVars, enabled, handoff, suppressed, exclusion,
                 assistantOn, cancelVars, crashes>>

SettingsOn ==
  /\ BusinessFree
  /\ assistantOn' = TRUE
  /\ UNCHANGED <<rowVars, task, workerVars, enabled, handoff, suppressed, exclusion,
                 entitled, cancelVars, crashes>>

\* update_settings: the business row, then one UPDATE over the messages,
\* which finds the rows that are pending now.  (Inserts go on: the row of the
\* business is updated in no key.)
SettingsOffBegin ==
  /\ BusinessFree
  /\ settings' = "open"
  /\ offScope' = {m \in Messages \ Manual : status[m] = "pending"}
  /\ late' = IF assistantOn THEN [m \in Messages |-> late[m] \ {"settings"}] ELSE late
  /\ UNCHANGED <<rowVars, task, workerVars, switchVars, excluding, exScope, crashes>>

\* MaxOps bounds all of them but those that take back an earlier one.
Operator ==
  \/ /\ ops < MaxOps
     /\ ops' = ops + 1
     /\ \/ \E c \in Conversations :
             \/ ToggleOff(c)
             \/ ToggleOn(c)
             \/ DeleteConversation(c)
             \/ \E mode \in {"human_only", "ignore"} : ExcludeBegin(c, mode)
        \/ EntitlementChanges
        \/ SettingsOffBegin
  \/ /\ ops' = ops
     /\ SettingsOn \/ \E c \in Conversations : Include(c)

SettingsOffCommit ==
  /\ settings = "open"
  /\ \A m \in offScope : status[m] = "pending" => RowFree(m)
  /\ settings' = "idle" /\ offScope' = {}
  /\ assistantOn' = FALSE
  /\ status' = Cancel(offScope)
  /\ UNCHANGED <<attempt, seen, retryDue, sends, task, workerVars, enabled, handoff,
                 suppressed, exclusion, entitled, excluding, exScope, late, crashes, ops>>

\* The worker waits for the business row, the settings for its message row:
\* the database ends one of the two.
InDeadlock(w) == settings = "open" /\ pc[w] = "business" /\ job[w] \in offScope

SettingsVictim ==
  /\ \E w \in Workers : InDeadlock(w)
  /\ settings' = "idle" /\ offScope' = {}
  /\ UNCHANGED <<rowVars, task, workerVars, switchVars, excluding, exScope, late, crashes,
                 ops>>

\* evaluate_customer_inbound for a contact excluded as human_only.
MarkHumanOnly(c) ==
  /\ exclusion[c] = "human_only"
  /\ ConvFree(c)
  /\ handoff' = IF handoff[c] = "none"
                THEN [handoff EXCEPT ![c] = "human_only"] ELSE handoff
  /\ status' = Cancel(PendingOf(c))
  /\ UNCHANGED <<attempt, seen, retryDue, sends, task, workerVars, enabled, suppressed,
                 exclusion, assistantOn, entitled, cancelVars, crashes, ops>>

\* automation_suppressed_until passes.
WindowExpires(c) ==
  /\ suppressed[c]
  /\ suppressed' = [suppressed EXCEPT ![c] = FALSE]
  /\ UNCHANGED <<rowVars, task, workerVars, enabled, handoff, exclusion, assistantOn,
                 entitled, cancelVars, crashes, ops>>

-----------------------------------------------------------------------------
(* The worker: process_outbound_message, then the enqueue that follows it. *)

ControlVars == <<switchVars, cancelVars, ops>>

Leaves(w, step) == pc' = [pc EXCEPT ![w] = step]

\* Back to idle without an acknowledgement: Cloud Tasks delivers the task again.
GivesUp(w) ==
  /\ Leaves(w, "idle")
  /\ job' = [job EXCEPT ![w] = NoMsg]
  /\ nth' = [nth EXCEPT ![w] = 0]

\* _automation_blocked_for_message, with the alias lookup of lock_message.
StandardBlock(c) ==
  \/ ~enabled[c] \/ ~assistantOn
  \/ handoff[c] = "human_only" \/ suppressed[c]
  \/ exclusion[c] # "none"
Blocked(m) ==
  \/ ~entitled
  \/ exclusion[Conv[m]] = "ignore"
  \/ m \in Automatic /\ StandardBlock(Conv[m])

\* lock_message: the task is taken, conversation and message are locked.
Takes(w, m, a) ==
  /\ pc[w] = "idle"
  /\ task[m][a] = "live"
  /\ ConvFree(Conv[m])
  /\ job' = [job EXCEPT ![w] = m]
  /\ nth' = [nth EXCEPT ![w] = a]

StartSkipped(w, m, a) ==
  /\ Takes(w, m, a)
  /\ status[m] # "pending"
  /\ Leaves(w, "next")
  /\ UNCHANGED <<rowVars, task, ControlVars, crashes>>

StartBlocked(w, m, a) ==
  /\ Takes(w, m, a)
  /\ status[m] = "pending" /\ Blocked(m)
  /\ status' = [status EXCEPT ![m] = "failed"]
  /\ Leaves(w, "next")
  /\ UNCHANGED <<attempt, seen, retryDue, sends, task, ControlVars, crashes>>

\* Mutant: lock_message does not look at the status of the row.
StartAllowedAnyStatus(w, m, a) ==
  /\ Takes(w, m, a)
  /\ ~Blocked(m)
  /\ Leaves(w, IF m \in Reactions THEN "calling" ELSE "business")
  /\ UNCHANGED <<rowVars, task, ControlVars, crashes>>

StartAllowed(w, m, a) ==
  /\ Takes(w, m, a)
  /\ status[m] = "pending" /\ ~Blocked(m)
  /\ Leaves(w, IF m \in Reactions THEN "calling" ELSE "business")
  /\ UNCHANGED <<rowVars, task, ControlVars, crashes>>

\* message_usage_snapshot: what the month has counted so far.
Counted == {m \in Messages \ Reactions : status[m] \in Delivered}
QuotaBlocked == Cardinality(Counted) >= Quota

TakeBusiness(w) ==
  /\ pc[w] = "business"
  /\ BusinessFree
  /\ IF QuotaBlocked
     THEN /\ status' = [status EXCEPT ![job[w]] = "failed"]
          /\ Leaves(w, "next")
     ELSE /\ Leaves(w, "calling")
          /\ UNCHANGED status
  /\ UNCHANGED <<attempt, seen, retryDue, sends, task, job, nth, ControlVars, crashes>>

\* The service window has closed, the recipient is not a person, or the
\* provider rejects the content (WhatsAppValidationError): mark_failed.
Refused(w) ==
  /\ pc[w] = "calling"
  /\ status' = [status EXCEPT ![job[w]] = "failed"]
  /\ Leaves(w, "next")
  /\ UNCHANGED <<attempt, seen, retryDue, sends, task, job, nth, ControlVars, crashes>>

\* WhatsAppTemporaryError, an invalid response or no sender: 503, rollback.
\* Mutant: the handler answers 200 instead of 503.
ProviderTemporaryAcknowledged(w) ==
  /\ pc[w] = "calling"
  /\ Leaves(w, "ack")
  /\ UNCHANGED <<rowVars, task, job, nth, ControlVars, crashes>>

ProviderTemporary(w) ==
  /\ pc[w] = "calling"
  /\ GivesUp(w)
  /\ UNCHANGED <<rowVars, task, ControlVars, crashes>>

\* WhatsAppPermanentError: mark_retry_pending.
ProviderPermanent(w) ==
  LET m == job[w] IN
  /\ pc[w] = "calling"
  /\ IF attempt[m] >= MaxAttempt
     THEN /\ status' = [status EXCEPT ![m] = "failed"]
          /\ Leaves(w, "next")
          /\ UNCHANGED attempt
     ELSE /\ attempt' = [attempt EXCEPT ![m] = @ + 1]
          /\ Leaves(w, "retry")
          /\ UNCHANGED status
  /\ UNCHANGED <<seen, retryDue, sends, task, job, nth, ControlVars, crashes>>

\* The provider has the message; nothing is committed yet.
ProviderAccepts(w) ==
  /\ pc[w] = "calling"
  /\ Leaves(w, "accepted")
  /\ UNCHANGED <<rowVars, task, job, nth, ControlVars, crashes>>

\* mark_sent: a new provider id, about which nothing has been reported.
CommitSent(w) ==
  LET m == job[w] IN
  /\ pc[w] = "accepted"
  /\ status' = [status EXCEPT ![m] = "sent"]
  /\ seen' = [seen EXCEPT ![m] = {}]
  /\ retryDue' = [retryDue EXCEPT ![m] = FALSE]
  /\ sends' = [sends EXCEPT ![m] = @ + 1]
  /\ Leaves(w, "next")
  /\ UNCHANGED <<attempt, task, job, nth, ControlVars, crashes>>

\* enqueue_outbound_retry_for_message.
EnqueueRetry(w) ==
  LET m == job[w] IN
  /\ pc[w] = "retry"
  /\ EnqueueAttempt(m)
  /\ Leaves(w, "ack")
  /\ UNCHANGED <<rowVars, job, nth, ControlVars, crashes>>

\* enqueue_next_sequence_outbound.
NextDue(m) ==
  /\ Follow[m] # NoMsg
  /\ status[m] \in Delivered \/ (status[m] = "failed" /\ m \in OptionalMsgs)
  /\ status[Follow[m]] = "pending"

EnqueueNext(w) ==
  /\ pc[w] = "next"
  /\ IF NextDue(job[w]) THEN CreateTask(Follow[job[w]], 0) ELSE UNCHANGED task
  /\ Leaves(w, "ack")
  /\ UNCHANGED <<rowVars, job, nth, ControlVars, crashes>>

Acknowledge(w) ==
  /\ pc[w] = "ack"
  /\ task' = [task EXCEPT ![job[w]][nth[w]] = "done"]
  /\ GivesUp(w)
  /\ UNCHANGED <<rowVars, ControlVars, crashes>>

\* The process dies or an enqueue fails (503): what was not committed is
\* rolled back, also when the provider has already accepted the message.
Crash(w) ==
  /\ pc[w] # "idle" /\ crashes < MaxCrashes
  /\ crashes' = crashes + 1
  /\ GivesUp(w)
  /\ UNCHANGED <<rowVars, task, ControlVars>>

\* The database ends the worker's transaction to break the deadlock.
WorkerVictim(w) ==
  /\ InDeadlock(w)
  /\ GivesUp(w)
  /\ UNCHANGED <<rowVars, task, ControlVars, crashes>>

-----------------------------------------------------------------------------
(* update_message_status, run for each status webhook of the current       *)
(* provider id, once per status (the event key is id and status).          *)

\* Mutant: the retries granted by webhooks are not limited.
RetryGrantedUnlimited(m) == m \in Retryable
RetryGranted(m) == m \in Retryable /\ attempt[m] < MaxAttempt

\* An UPDATE that had found the row earlier may have passed over it meanwhile.
Reappears(m) ==
  /\ Appear({m})
  /\ offScope' \in {offScope, offScope \ {m}}
  /\ exScope' \in {exScope, exScope \ {m}}

ApplyStatus(m, s) ==
  /\ s \in Reported \ seen[m]
  /\ sends[m] > 0
  /\ RowFree(m)
  /\ seen' = [seen EXCEPT ![m] = @ \cup {s}]
  /\ retryDue' = IF s = "failed" THEN [retryDue EXCEPT ![m] = TRUE] ELSE retryDue
  /\ \/ /\ s = "failed" /\ status[m] \in {"delivered", "read"}
        /\ UNCHANGED <<status, attempt, cancelVars>>
     \/ /\ s = "failed" /\ status[m] \notin {"delivered", "read"}
        /\ RetryGranted(m)
        /\ attempt' = [attempt EXCEPT ![m] = @ + 1]
        /\ status' = [status EXCEPT ![m] = "pending"]
        /\ IF status[m] = "pending" THEN UNCHANGED cancelVars ELSE Reappears(m)
     \/ /\ s = "failed" => /\ status[m] \notin {"delivered", "read"}
                           /\ ~RetryGranted(m)
        /\ status' = [status EXCEPT ![m] = s]
        /\ UNCHANGED <<attempt, cancelVars>>
  /\ UNCHANGED <<sends, task, workerVars, switchVars, ops, crashes>>

-----------------------------------------------------------------------------
Start(w, m, a) ==
  StartSkipped(w, m, a) \/ StartBlocked(w, m, a) \/ StartAllowed(w, m, a)

ProviderAnswers(w) == Refused(w) \/ ProviderPermanent(w) \/ ProviderAccepts(w)

Worker(w) ==
  \/ \E m \in Messages, a \in Attempts : Start(w, m, a)
  \/ TakeBusiness(w)
  \/ ProviderAnswers(w)
  \/ ProviderTemporary(w)
  \/ CommitSent(w)
  \/ EnqueueRetry(w)
  \/ EnqueueNext(w)
  \/ Acknowledge(w)
  \/ Crash(w)
  \/ WorkerVictim(w)

Row(m) ==
  \/ EnqueueFirst(m)
  \/ EnqueueRetryForEvent(m)
  \/ CreateTurn(m)
  \/ SendManual(m)
  \/ \E s \in Statuses : ApplyStatus(m, s)

Switches ==
  \/ Operator
  \/ SettingsOffCommit
  \/ SettingsVictim
  \/ \E c \in Conversations : ExcludeCommit(c) \/ MarkHumanOnly(c) \/ WindowExpires(c)

Next ==
  \/ \E w \in Workers : Worker(w)
  \/ \E m \in Messages : Row(m)
  \/ Switches

Spec == Init /\ [][Next]_vars

\* Cloud Tasks delivers every live task until it is acknowledged, the event
\* handlers are redelivered until they have enqueued, the database ends a
\* deadlock, and the provider does not answer "try again" for ever.  The
\* request that writes a person's message enqueues it once, without a retry.
Fairness ==
  /\ \A m \in Messages \ Manual : WF_vars(EnqueueFirst(m))
  /\ \A m \in Messages : WF_vars(EnqueueRetryForEvent(m))
  /\ \A m \in Messages, a \in Attempts : SF_vars(\E w \in Workers : Start(w, m, a))
  /\ \A m \in Messages :
       SF_vars(\E w \in Workers : job[w] = m /\ ProviderAnswers(w))
  /\ \A w \in Workers :
       /\ SF_vars(TakeBusiness(w))
       /\ WF_vars(CommitSent(w)) /\ WF_vars(EnqueueRetry(w))
       /\ WF_vars(EnqueueNext(w)) /\ WF_vars(Acknowledge(w))
       /\ WF_vars(ProviderAnswers(w) \/ ProviderTemporary(w))
  /\ WF_vars(SettingsOffCommit \/ SettingsVictim)

FairSpec == Spec /\ Fairness

-----------------------------------------------------------------------------
(* Properties.                                                             *)

\* A message is sent at most once more than the retries it was granted, and
\* a message that waits to be sent has a retry left for it: failures reported
\* by the provider while sending and failures reported by a webhook draw on
\* one budget (mark_retry_pending, update_message_status).
SendBudget == \A m \in Messages :
  /\ sends[m] <= attempt[m] + 1
  /\ status[m] = "pending" => sends[m] <= attempt[m]

\* The hard boundary of lock_message: once a switch of the conversation has
\* committed, no worker sends an automatic message past it, because the switch
\* waits for the lock of the conversation that the worker holds.  The switch
\* of the business and the exclusion of a contact wait for rows only: past
\* them goes no message but one that became pending while they were open.
HardBoundary == \A w \in Workers : Sending(w) =>
  LET m == job[w]
      c == Conv[m]
  IN  /\ m \in Automatic => enabled[c] /\ handoff[c] # "human_only" /\ ~suppressed[c]
      /\ m \in Automatic /\ ~assistantOn => "settings" \in late[m]
      /\ exclusion[c] = "ignore" => "ignore" \in late[m]
      /\ m \in Automatic /\ exclusion[c] = "human_only" => "human_only" \in late[m]

\* lock_message: the exclusion read again under the locks "prevents [...]
\* races where an automatic reply was queued immediately before the contact
\* was blocked" (and the assistant switched off).
NothingAfterOff == \A w \in Workers :
  Sending(w) /\ job[w] \in Automatic => ~StandardBlock(Conv[job[w]])

\* Two workers never have the same conversation in hand, and no message is
\* moved under a worker that is sending it (row locks of lock_message).
OneSenderPerConversation ==
  /\ \A v, w \in Workers :
       Sending(v) /\ Sending(w) /\ Conv[job[v]] = Conv[job[w]] => v = w
  /\ \A w \in Workers : Sending(w) => status[job[w]] = "pending"

\* A follow-up gets its task only after its predecessor reached the provider,
\* or was optional and failed for good (next_sequence_message_id).
Accounted(m) == sends[m] > 0 \/ (m \in OptionalMsgs /\ status[m] = "failed")
SequenceOrder == \A m \in Messages :
  LET n == Follow[m] IN n # NoMsg /\ task[n][0] # "none" => Accounted(m)

\* A message returned to "pending" for a retry always has something that will
\* pick it up: a live task, or the failed event that has yet to create one.
RetryHasDriver == \A m \in Messages :
  status[m] = "pending" /\ attempt[m] > 0 =>
    retryDue[m] \/ \E a \in Attempts : task[m][a] = "live"

\* Concurrent sends do not cross the monthly limit (message_usage_snapshot).
\* What crosses it is a message that is out after its failure was reported:
\* the failure gave its place away, and a later report took it back.
Disputed == {m \in Counted : "failed" \in seen[m]}
QuotaRespected == Cardinality(Counted \ Disputed) <= Quota

\* update_message_status: "Never turn an already delivered/read message back
\* into a retry because of a late or out-of-order failure webhook."
DeliveredIsNotRetried == \A m \in Messages :
  seen[m] \cap {"delivered", "read"} # {} => status[m] # "pending"

\* The first message of an answer, once written, is sent, refused or
\* cancelled: no crash, lost acknowledgement, retry or deadlock leaves it
\* waiting for ever.  (A person's message is enqueued by the request alone.)
FirstsSettle ==
  \A m \in Firsts \ Manual : status[m] = "pending" ~> status[m] # "pending"
=============================================================================

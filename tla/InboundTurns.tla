---------------------------- MODULE InboundTurns ----------------------------
(***************************************************************************)
(* Inbound webhooks of one conversation, from their delivery by Meta to    *)
(* the answer of the assistant: each event is stored in a transaction of   *)
(* its own, a Cloud Task with a short delay is created for it, and the     *)
(* handler of the task groups the text messages that belong together.      *)
(*                                                                         *)
(*   whatsapp/processor.py, repositories/whatsapp_webhook.py               *)
(*   api/whatsapp_webhook.py, tasks/worker.py, api/internal_tasks.py       *)
(*   repositories/cloud_tasks.py, conversations/engine.py                  *)
(*                                                                         *)
(* Time is counted in seconds.  A message carries the whole second of      *)
(* Meta's timestamp; an outbound row the start of the transaction that     *)
(* inserts it, fraction included, so that within a second the outbound row *)
(* is the later one.  The handler of a text is TakeTurn, which reads the   *)
(* rows, and Answer, which waits for the lock of the conversation.  A task *)
(* that is delivered twice at once waits for the row lock of its event, so *)
(* one handler per event is enough.  What the assistant says is left out.  *)
(***************************************************************************)
EXTENDS Naturals, FiniteSets

CONSTANTS
  Texts,          \* text messages, numbered in the order in which they are sent
  Buttons,        \* interactive replies, never grouped
  Window,         \* window_seconds, EVENT_TURN_DEBOUNCE_SECONDS
  MaxTime,        \* the last second of the clock
  MaxFaults,      \* bound on crashes and failed enqueues
  MaxDuplicates,  \* bound on webhooks delivered again after a 200
  MaxOthers,      \* bound on echoes, expiries and other outbound rows
  MaxLate         \* bound on the seconds that pass while a step is due

Events == Texts \cup Buttons

ASSUME TurnsAssumption ==
  /\ Texts \subseteq Nat /\ Buttons \subseteq Nat
  /\ Texts \cap Buttons = {}
  /\ MaxTime \in Nat /\ Window \in Nat
  /\ MaxFaults \in Nat /\ MaxDuplicates \in Nat /\ MaxOthers \in Nat
  /\ MaxLate \in Nat

VARIABLES
  now,
  at,         \* when the customer sent a message (messages.created_at)
  hook,       \* Meta's delivery: due, stored (handler running) or acked
  event,      \* processed_webhooks.status
  reason,     \* processed_webhooks.outcome_reason
  task, due,  \* the Cloud Task of an event and its schedule time
  run,        \* the handler of the task
  turn,       \* the texts it has grouped
  began,      \* when its transaction began
  answers,    \* outbound rows of the assistant
  others,     \* creation times of other outbound rows of the conversation
  human,      \* a person has taken the conversation
  faults, duplicates, steps, late

handlerVars == <<run, turn, began>>
boundVars   == <<faults, duplicates, steps, late>>
vars == <<now, at, hook, event, reason, task, due, handlerVars, answers, others, human, boundVars>>

Settled == {"processed", "ignored"}
Stored  == {m \in Events : event[m] # "unseen"}

\* Type invariant: webhooks, stored events, tasks, handlers and answers.
TypeOK ==
  /\ now \in 0 .. MaxTime
  /\ at \in [Events -> 0 .. MaxTime]
  /\ hook \in [Events -> {"unsent", "due", "stored", "acked"}]
  /\ event \in [Events -> {"unseen", "queued"} \cup Settled]
  /\ reason \in [Events -> {"none", "answered", "merged", "human"}]
  /\ task \in [Events -> {"none", "live", "done"}]
  /\ due \in [Events -> 0 .. MaxTime + Window]
  /\ run \in [Events -> {"idle", "answer", "enqueue", "ack"}]
  /\ turn \in [Events -> SUBSET Events]
  /\ began \in [Events -> 0 .. MaxTime]
  /\ answers \subseteq [by : Events, at : 0 .. MaxTime, turn : SUBSET Events, queued : BOOLEAN]
  /\ others \subseteq 0 .. MaxTime
  /\ human \in BOOLEAN
  /\ faults \in 0 .. MaxFaults /\ duplicates \in 0 .. MaxDuplicates
  /\ steps \in 0 .. MaxOthers /\ late \in 0 .. MaxLate

Init ==
  /\ now = 0
  /\ at = [m \in Events |-> 0]
  /\ hook = [m \in Events |-> "unsent"]
  /\ event = [m \in Events |-> "unseen"]
  /\ reason = [m \in Events |-> "none"]
  /\ task = [m \in Events |-> "none"]
  /\ due = [m \in Events |-> 0]
  /\ run = [m \in Events |-> "idle"]
  /\ turn = [m \in Events |-> {}]
  /\ began = [m \in Events |-> 0]
  /\ answers = {} /\ others = {}
  /\ human = FALSE
  /\ faults = 0 /\ duplicates = 0 /\ steps = 0 /\ late = 0

-----------------------------------------------------------------------------
(* The webhook.                                                            *)

\* Messages are numbered in the order in which they are sent: the provider
\* ids break a tie within a second, where any order is the same.
Send(m) ==
  /\ hook[m] = "unsent" /\ now + Window <= MaxTime
  /\ \A n \in Events : n < m => hook[n] # "unsent"
  /\ at' = [at EXCEPT ![m] = now]
  /\ hook' = [hook EXCEPT ![m] = "due"]
  /\ UNCHANGED <<now, event, reason, task, due, handlerVars, answers, others, human,
                 boundVars>>

\* A webhook that was claimed before goes to the queue again if it is not settled.
\* Mutant: every duplicate is only acknowledged.
RedeliveredDropped(m) == IF m \in Events THEN "acked" ELSE "stored"
Redelivered(m) == IF event[m] = "queued" THEN "stored" ELSE "acked"

\* persist_webhook_events_for_tasks, one event: a claimed event is stored
\* and queued, or ignored while a person has the conversation.
Ingest(m) ==
  /\ hook[m] = "due"
  /\ IF event[m] = "unseen"
     THEN /\ event' = [event EXCEPT ![m] = IF human THEN "ignored" ELSE "queued"]
          /\ reason' = [reason EXCEPT ![m] = IF human THEN "human" ELSE "none"]
          /\ hook' = [hook EXCEPT ![m] = "stored"]
     ELSE /\ hook' = [hook EXCEPT ![m] = Redelivered(m)]
          /\ UNCHANGED <<event, reason>>
  /\ UNCHANGED <<now, at, task, due, handlerVars, answers, others, human, boundVars>>

\* CloudTasksEventEnqueuer.enqueue; a name that exists is a success.
Enqueue(m) ==
  /\ hook[m] = "stored"
  /\ IF task[m] = "none"
     THEN /\ task' = [task EXCEPT ![m] = "live"]
          /\ due' = [due EXCEPT ![m] = now + Window]
     ELSE UNCHANGED <<task, due>>
  /\ hook' = [hook EXCEPT ![m] = "acked"]
  /\ UNCHANGED <<now, at, event, reason, handlerVars, answers, others, human, boundVars>>

\* The enqueue fails (503) or the process dies: Meta delivers again.
EnqueueFails(m) ==
  /\ hook[m] = "stored" /\ faults < MaxFaults
  /\ faults' = faults + 1
  /\ hook' = [hook EXCEPT ![m] = "due"]
  /\ UNCHANGED <<now, at, event, reason, task, due, handlerVars, answers, others, human,
                 duplicates, steps, late>>

\* Meta delivers a webhook again although it was acknowledged.
Duplicate(m) ==
  /\ hook[m] = "acked" /\ duplicates < MaxDuplicates
  /\ duplicates' = duplicates + 1
  /\ hook' = [hook EXCEPT ![m] = "due"]
  /\ UNCHANGED <<now, at, event, reason, task, due, handlerVars, answers, others, human,
                 faults, steps, late>>

-----------------------------------------------------------------------------
(* load_inbound_turn.                                                      *)

Before(a, b) == at[a] < at[b] \/ (at[a] = at[b] /\ a < b)
StoredTexts  == Texts \cap Stored
OutboundAt   == {a.at : a \in answers} \cup others

\* A text waits for the next one when that is stored and close enough.
\* Mutant: only for one of the same second.
SupersededAtOnce(m) ==
  m \in Texts /\ \E n \in StoredTexts : Before(m, n) /\ at[n] = at[m]
Superseded(m) ==
  m \in Texts /\ \E n \in StoredTexts : Before(m, n) /\ at[n] <= at[m] + Window

\* Texts up to m, after the last outbound row that is older than m.
Candidates(m) ==
  {n \in StoredTexts : /\ at[n] <= at[m]
                       /\ \A t \in OutboundAt : t < at[m] => at[n] > t}

\* Going back from m, up to the first gap; fewer than LIMIT 20 here.
Grouped(m) ==
  {n \in Candidates(m) :
     \A j \in Candidates(m) \ {m} :
       n = j \/ Before(n, j) =>
         \E k \in Candidates(m) \cup {m} : Before(j, k) /\ at[k] <= at[j] + Window}

Turn(m) == IF m \in Texts /\ Grouped(m) # {} THEN Grouped(m) ELSE {m}

-----------------------------------------------------------------------------
(* The handler of the task: process_cloud_task_event, then the enqueue of  *)
(* the pending outbound rows of the conversation.                          *)

\* The end of the clock stands for any later time.
Ready(m) == run[m] = "idle" /\ task[m] = "live" /\ (due[m] <= now \/ now = MaxTime)

\* Mutant: status and outcome are swapped.
SettleSwapped(m, e, r) ==
  /\ event' = [event EXCEPT ![m] = r]
  /\ reason' = [reason EXCEPT ![m] = e]
  /\ run' = [run EXCEPT ![m] = "enqueue"]
Settle(m, e, r) ==
  /\ event' = [event EXCEPT ![m] = e]
  /\ reason' = [reason EXCEPT ![m] = r]
  /\ run' = [run EXCEPT ![m] = "enqueue"]

\* The event is settled: a redelivery after a crash, or ignored at ingest.
\* Mutant: such a delivery is acknowledged, nothing is enqueued.
TakeSettledAcknowledged(m) ==
  /\ Ready(m)
  /\ event[m] \in Settled
  /\ run' = [run EXCEPT ![m] = "ack"]
  /\ UNCHANGED <<now, at, hook, event, reason, task, due, turn, began, answers, others, human,
                 boundVars>>

TakeSettled(m) ==
  /\ Ready(m)
  /\ event[m] \in Settled
  /\ run' = [run EXCEPT ![m] = "enqueue"]
  /\ UNCHANGED <<now, at, hook, event, reason, task, due, turn, began, answers, others, human,
                 boundVars>>

\* debounced_fragment_merged: a later text will answer.
Merge(m) ==
  /\ Ready(m)
  /\ event[m] = "queued" /\ Superseded(m)
  /\ Settle(m, "processed", "merged")
  /\ UNCHANGED <<now, at, hook, task, due, turn, began, answers, others, human, boundVars>>

TakeTurn(m) ==
  /\ Ready(m)
  /\ event[m] = "queued" /\ ~Superseded(m)
  /\ run' = [run EXCEPT ![m] = "answer"]
  /\ turn' = [turn EXCEPT ![m] = Turn(m)]
  /\ began' = [began EXCEPT ![m] = now]
  /\ UNCHANGED <<now, at, hook, event, reason, task, due, answers, others, human, boundVars>>

\* evaluate_customer_inbound under the lock of the conversation, then
\* ConversationEngine.process: the row has the start of the transaction.
Answer(m) ==
  /\ run[m] = "answer"
  /\ IF human
     THEN /\ Settle(m, "ignored", "human")
          /\ UNCHANGED answers
     ELSE /\ Settle(m, "processed", "answered")
          /\ answers' = IF \E a \in answers : a.by = m THEN answers
                        ELSE answers \cup
                          {[by |-> m, at |-> began[m], turn |-> turn[m], queued |-> FALSE]}
  /\ UNCHANGED <<now, at, hook, task, due, turn, began, others, human, boundVars>>

\* enqueue_pending_outbounds_for_event: every pending row of the conversation.
EnqueueOutbounds(m) ==
  /\ run[m] = "enqueue"
  /\ answers' = {[a EXCEPT !.queued = TRUE] : a \in answers}
  /\ run' = [run EXCEPT ![m] = "ack"]
  /\ UNCHANGED <<now, at, hook, event, reason, task, due, turn, began, others, human,
                 boundVars>>

Acknowledge(m) ==
  /\ run[m] = "ack"
  /\ run' = [run EXCEPT ![m] = "idle"]
  /\ task' = [task EXCEPT ![m] = "done"]
  /\ UNCHANGED <<now, at, hook, event, reason, due, turn, began, answers, others, human,
                 boundVars>>

\* An exception or a crash: rollback, 503, and the task is delivered again.
\* Mutant: the failure is answered with 200.
HandlerFailsAcknowledged(m) ==
  /\ run[m] # "idle" /\ faults < MaxFaults
  /\ faults' = faults + 1
  /\ run' = [run EXCEPT ![m] = "idle"]
  /\ task' = [task EXCEPT ![m] = "done"]
  /\ UNCHANGED <<now, at, hook, event, reason, due, turn, began, answers, others, human,
                 duplicates, steps, late>>

HandlerFails(m) ==
  /\ run[m] # "idle" /\ faults < MaxFaults
  /\ faults' = faults + 1
  /\ run' = [run EXCEPT ![m] = "idle"]
  /\ UNCHANGED <<now, at, hook, event, reason, task, due, turn, began, answers, others, human,
                 duplicates, steps, late>>

-----------------------------------------------------------------------------
(* The rest of the system.                                                 *)

\* A person answers from the phone (echo), or the window of control ends.
HumanControl ==
  /\ steps < MaxOthers
  /\ steps' = steps + 1
  /\ human' = ~human
  /\ UNCHANGED <<now, at, hook, event, reason, task, due, handlerVars, answers, others, faults,
                 duplicates, late>>

\* Another outbound row: a person's message or an outreach.
SendOther ==
  /\ steps < MaxOthers
  /\ steps' = steps + 1
  /\ others' = others \cup {now}
  /\ UNCHANGED <<now, at, hook, event, reason, task, due, handlerVars, answers, human, faults,
                 duplicates, late>>

\* Something could be done in this second.
Pending(m) == hook[m] \in {"due", "stored"} \/ run[m] # "idle" \/ Ready(m)

Tick ==
  /\ now < MaxTime
  /\ now' = now + 1
  /\ IF \E m \in Events : Pending(m)
     THEN late < MaxLate /\ late' = late + 1
     ELSE UNCHANGED late
  /\ UNCHANGED <<at, hook, event, reason, task, due, handlerVars, answers, others, human,
                 faults, duplicates, steps>>

Webhook(m) == Send(m) \/ Ingest(m) \/ Enqueue(m) \/ EnqueueFails(m) \/ Duplicate(m)
Take(m)    == TakeSettled(m) \/ Merge(m) \/ TakeTurn(m)
Handler(m) ==
  \/ Take(m) \/ Answer(m) \/ EnqueueOutbounds(m) \/ Acknowledge(m) \/ HandlerFails(m)

Next ==
  \/ \E m \in Events : Webhook(m) \/ Handler(m)
  \/ HumanControl
  \/ SendOther
  \/ Tick

Spec == Init /\ [][Next]_vars

\* Meta and Cloud Tasks deliver until they get a 200, time passes.
Fairness ==
  /\ WF_vars(Tick)
  /\ \A m \in Events :
       /\ WF_vars(Ingest(m)) /\ WF_vars(Enqueue(m))
       /\ WF_vars(Take(m)) /\ WF_vars(Answer(m))
       /\ WF_vars(EnqueueOutbounds(m)) /\ WF_vars(Acknowledge(m))

FairSpec == Spec /\ Fairness

-----------------------------------------------------------------------------
(* Properties.                                                             *)

\* An event that waits for the assistant is still owed a delivery, by Cloud
\* Tasks or by Meta: a commit followed by a failed enqueue loses nothing.
QueuedHasDriver == \A m \in Events :
  event[m] = "queued" => task[m] = "live" \/ hook[m] # "acked"

\* An answer that is committed and not yet handed to the outbound queue is
\* owed one more run of a handler, also after a crash between the two.
AnswersHaveDriver == \A a \in answers :
  ~a.queued => \E m \in Events : task[m] = "live"

\* The texts of a merged event are answered by another one, or will be.
Unsettled(n)  == hook[n] # "unsent" /\ event[n] \notin Settled
Covered(m)    == \E a \in answers : m \in a.turn
Lost(m) ==
  /\ reason[m] = "merged" /\ ~Covered(m)
  /\ \A n \in StoredTexts : Before(m, n) => ~Unsettled(n) /\ reason[n] # "human"

\* load_inbound_turn: "Agrupa mensagens de texto contíguas e deixa somente a
\* última tarefa responder" (groups adjacent texts, only the last responds).
MergedIsAnswered == \A m \in Texts : ~Lost(m)

\* While deliveries are on time and only texts are answered, grouping is
\* exact: no text is lost, none is answered twice, and two answers never split
\* texts that are closer than the window.  A text that carries the second in
\* which an answer began is left aside: its timestamp does not tell which of
\* the two came first.
Undisturbed == late = 0 /\ steps = 0 /\ Buttons = {}
NoTie == \A a \in answers, m \in Texts : hook[m] # "unsent" => at[m] # a.at

TurnsExact == Undisturbed /\ NoTie =>
  /\ MergedIsAnswered
  /\ \A a, b \in answers : a # b =>
       /\ a.turn \cap b.turn = {}
       /\ \A m \in a.turn, n \in b.turn : Before(m, n) => at[n] >= at[m] + Window

\* Each event is eventually answered, merged or ignored, and each answer is
\* eventually handed to the outbound queue.
EventsSettle ==
  /\ \A m \in Events : hook[m] = "due" ~> event[m] \in Settled
  /\ (\E a \in answers : ~a.queued) ~> (\A a \in answers : a.queued)
=============================================================================

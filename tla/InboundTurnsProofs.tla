------------------------- MODULE InboundTurnsProofs -------------------------
(* Nothing that was stored is forgotten, for every set of messages, clock  *)
(* and number of failures: QueuedHasDriver and AnswersHaveDriver.  While   *)
(* deliveries are on time the grouping is exact: TurnsExact.               *)
EXTENDS InboundTurns, WellFoundedInduction, TLAPS

-----------------------------------------------------------------------------
(* Types.                                                                  *)

AnswerType == [by : Events, at : 0 .. MaxTime, turn : SUBSET Events, queued : BOOLEAN]

ClockOK == now \in 0 .. MaxTime /\ at \in [Events -> 0 .. MaxTime]
HookOK  == hook \in [Events -> {"unsent", "due", "stored", "acked"}]
RowsOK ==
  /\ event \in [Events -> {"unseen", "queued"} \cup Settled]
  /\ reason \in [Events -> {"none", "answered", "merged", "human"}]
TasksOK ==
  /\ task \in [Events -> {"none", "live", "done"}]
  /\ due \in [Events -> 0 .. MaxTime + Window]
RunsOK ==
  /\ run \in [Events -> {"idle", "answer", "enqueue", "ack"}]
  /\ turn \in [Events -> SUBSET Events]
  /\ began \in [Events -> 0 .. MaxTime]
AnswersOK == answers \subseteq AnswerType /\ others \subseteq 0 .. MaxTime
CountsOK ==
  /\ human \in BOOLEAN
  /\ faults \in 0 .. MaxFaults /\ duplicates \in 0 .. MaxDuplicates
  /\ steps \in 0 .. MaxOthers /\ late \in 0 .. MaxLate

Typed == ClockOK /\ HookOK /\ RowsOK /\ TasksOK /\ RunsOK /\ AnswersOK /\ CountsOK

\* The parts are the type invariant.
LEMMA TypedIsTypeOK == Typed <=> TypeOK
  BY DEF Typed, TypeOK, ClockOK, HookOK, RowsOK, TasksOK, RunsOK, AnswersOK, CountsOK, AnswerType

\* The texts of a turn are events.
LEMMA TurnTyped ==
  ASSUME NEW m \in Events
  PROVE  Turn(m) \in SUBSET Events
  BY DEF Turn, Grouped, Candidates, StoredTexts, Events

LEMMA TypedInit == Init => Typed
<1> SUFFICES ASSUME Init PROVE Typed
  OBVIOUS
<1>1. ClockOK /\ HookOK /\ RowsOK
  <2>1. ClockOK
    BY TurnsAssumption DEF Init, ClockOK
  <2>2. HookOK
    BY DEF Init, HookOK
  <2>3. RowsOK
    BY DEF Init, RowsOK
  <2>4. QED
    BY <2>1, <2>2, <2>3
<1>2. TasksOK /\ RunsOK
  BY TurnsAssumption DEF Init, TasksOK, RunsOK
<1>3. AnswersOK
  BY DEF Init, AnswersOK
<1>4. CountsOK
  <2>1. human \in BOOLEAN
    BY DEF Init
  <2>2. /\ faults \in 0 .. MaxFaults /\ duplicates \in 0 .. MaxDuplicates
        /\ steps \in 0 .. MaxOthers /\ late \in 0 .. MaxLate
    BY TurnsAssumption DEF Init
  <2>3. QED
    BY <2>1, <2>2 DEF CountsOK
<1>5. QED
  BY <1>1, <1>2, <1>3, <1>4 DEF Typed

LEMMA WebhookTyped ==
  ASSUME Typed, NEW m \in Events, Webhook(m)
  PROVE  Typed'
<1>1. ClockOK'
  BY DEF Typed, ClockOK, Webhook, Send, Ingest, Enqueue, EnqueueFails, Duplicate, boundVars, handlerVars
<1>2. HookOK'
  BY DEF Typed, HookOK, Webhook, Send, Ingest, Enqueue, EnqueueFails, Duplicate, Redelivered
<1>3. RowsOK'
  BY DEF Typed, RowsOK, Settled, Webhook, Send, Ingest, Enqueue, EnqueueFails, Duplicate
<1>4. TasksOK'
  <2>1. now + Window \in 0 .. MaxTime + Window
    BY TurnsAssumption DEF Typed, ClockOK
  <2>2. QED
    BY <2>1 DEF Typed, TasksOK, Webhook, Send, Ingest, Enqueue, EnqueueFails, Duplicate
<1>5. RunsOK' /\ AnswersOK'
  BY DEF Typed, RunsOK, AnswersOK, Webhook, Send, Ingest, Enqueue, EnqueueFails, Duplicate, handlerVars
<1>6. CountsOK'
  <2>1. ASSUME NEW n \in Nat, NEW i \in 0 .. n, i < n
        PROVE  i + 1 \in 0 .. n
    BY <2>1
  <2>2. human' \in BOOLEAN
    BY DEF Typed, CountsOK, Webhook, Send, Ingest, Enqueue, EnqueueFails, Duplicate
  <2>3. faults' \in 0 .. MaxFaults /\ duplicates' \in 0 .. MaxDuplicates
    BY <2>1, TurnsAssumption DEF Typed, CountsOK, Webhook, Send, Ingest, Enqueue, EnqueueFails,
         Duplicate, boundVars
  <2>4. steps' \in 0 .. MaxOthers /\ late' \in 0 .. MaxLate
    BY DEF Typed, CountsOK, Webhook, Send, Ingest, Enqueue, EnqueueFails, Duplicate, boundVars
  <2>5. QED
    BY <2>2, <2>3, <2>4 DEF CountsOK
<1>7. QED
  BY <1>1, <1>2, <1>3, <1>4, <1>5, <1>6 DEF Typed

LEMMA HandlerTyped ==
  ASSUME Typed, NEW m \in Events, Handler(m)
  PROVE  Typed'
<1> USE DEF Handler, Take, TakeSettled, Merge, TakeTurn, Answer, EnqueueOutbounds, Acknowledge,
            HandlerFails
<1>1. ClockOK' /\ HookOK'
  BY DEF Typed, ClockOK, HookOK
<1>2. RowsOK'
  BY DEF Typed, RowsOK, Settle, Settled
<1>3. TasksOK'
  BY DEF Typed, TasksOK
<1>4. RunsOK'
  <2>1. run' \in [Events -> {"idle", "answer", "enqueue", "ack"}]
    BY DEF Typed, RunsOK, Settle
  <2>2. turn' \in [Events -> SUBSET Events]
    BY TurnTyped DEF Typed, RunsOK
  <2>3. began' \in [Events -> 0 .. MaxTime]
    BY DEF Typed, RunsOK, ClockOK
  <2>4. QED
    BY <2>1, <2>2, <2>3 DEF RunsOK
<1>5. AnswersOK'
  <2>1. ASSUME Answer(m)
        PROVE  AnswersOK'
    <3>1. [by |-> m, at |-> began[m], turn |-> turn[m], queued |-> FALSE] \in AnswerType
      BY DEF Typed, RunsOK, AnswerType
    <3>2. QED
      BY <2>1, <3>1 DEF Typed, AnswersOK
  <2>2. ASSUME EnqueueOutbounds(m)
        PROVE  AnswersOK'
    <3>1. \A a \in AnswerType : [a EXCEPT !.queued = TRUE] \in AnswerType
      BY DEF AnswerType
    <3>2. QED
      BY <2>2, <3>1 DEF Typed, AnswersOK
  <2>3. CASE UNCHANGED <<answers, others>>
    BY <2>3 DEF Typed, AnswersOK
  <2>4. QED
    BY <2>1, <2>2, <2>3
<1>6. CountsOK'
  <2>1. faults' \in 0 .. MaxFaults
    BY TurnsAssumption DEF Typed, CountsOK, boundVars
  <2>2. human' \in BOOLEAN
    BY DEF Typed, CountsOK
  <2>3. duplicates' \in 0 .. MaxDuplicates /\ steps' \in 0 .. MaxOthers /\ late' \in 0 .. MaxLate
    BY DEF Typed, CountsOK, boundVars
  <2>4. QED
    BY <2>1, <2>2, <2>3 DEF CountsOK
<1>7. QED
  BY <1>1, <1>2, <1>3, <1>4, <1>5, <1>6 DEF Typed

LEMMA OtherTyped ==
  ASSUME Typed, HumanControl \/ SendOther \/ Tick
  PROVE  Typed'
<1> USE DEF HumanControl, SendOther, Tick
<1>1. ClockOK'
  BY TurnsAssumption DEF Typed, ClockOK
<1>2. HookOK' /\ RowsOK' /\ TasksOK' /\ RunsOK'
  BY DEF Typed, HookOK, RowsOK, TasksOK, RunsOK, handlerVars
<1>3. AnswersOK'
  BY DEF Typed, AnswersOK, ClockOK
<1>4. CountsOK'
  <2>1. human' \in BOOLEAN
    BY DEF Typed, CountsOK
  <2>2. /\ faults' \in 0 .. MaxFaults /\ duplicates' \in 0 .. MaxDuplicates
        /\ steps' \in 0 .. MaxOthers /\ late' \in 0 .. MaxLate
    BY TurnsAssumption DEF Typed, CountsOK
  <2>3. QED
    BY <2>1, <2>2 DEF CountsOK
<1>5. QED
  BY <1>1, <1>2, <1>3, <1>4 DEF Typed

-----------------------------------------------------------------------------
(* Drivers.                                                                *)

\* A handler runs for a live task; a task ends, and answers are handed over,
\* when the event is settled; a row that is not written has no task.
WorkInv == \A m \in Events :
  /\ run[m] # "idle" => task[m] = "live"
  /\ run[m] \in {"enqueue", "ack"} => event[m] \in Settled
  /\ task[m] = "done" => event[m] \in Settled
  /\ event[m] = "unseen" => task[m] = "none" /\ hook[m] \in {"unsent", "due"}

\* What is not handed over yet is the work of the task it was written by,
\* and not of one that is about to be acknowledged.
OwedInv == \A a \in answers : ~a.queued => task[a.by] = "live" /\ run[a.by] # "ack"

Inv == Typed /\ WorkInv /\ OwedInv /\ QueuedHasDriver

LEMMA InvInit == Init => Inv
<1> SUFFICES ASSUME Init PROVE Inv
  OBVIOUS
<1>1. WorkInv /\ OwedInv /\ QueuedHasDriver
  BY DEF Init, WorkInv, OwedInv, QueuedHasDriver
<1>2. QED
  BY <1>1, TypedInit DEF Inv

\* A webhook: a queued event keeps its task or is delivered once more.
LEMMA WebhookDriven ==
  ASSUME Inv, NEW m \in Events, Webhook(m)
  PROVE  WorkInv' /\ OwedInv' /\ QueuedHasDriver'
<1> USE DEF Inv, Typed, HookOK, RowsOK, TasksOK, Webhook, Send, Ingest, Enqueue, EnqueueFails, Duplicate,
            handlerVars
<1>1. WorkInv'
  BY DEF WorkInv, Settled
<1>2. OwedInv'
  <2>1. UNCHANGED <<answers, run>>
    OBVIOUS
  <2>2. \A e \in Events : task[e] = "live" => task'[e] = "live"
    OBVIOUS
  <2>3. \A a \in answers : a.by \in Events
    BY DEF AnswersOK, AnswerType
  <2>4. QED
    BY <2>1, <2>2, <2>3 DEF OwedInv
<1>3. QueuedHasDriver'
  BY DEF QueuedHasDriver, WorkInv, Settled, Redelivered
<1>4. QED
  BY <1>1, <1>2, <1>3

\* A handler: what it settles it owes the enqueue, and the task ends last.
LEMMA HandlerDriven ==
  ASSUME Inv, NEW m \in Events, Handler(m)
  PROVE  WorkInv' /\ OwedInv' /\ QueuedHasDriver'
<1> USE DEF Handler, Take, TakeSettled, Merge, TakeTurn, Answer, EnqueueOutbounds, Acknowledge,
            HandlerFails, Ready
<1>r. run \in [Events -> {"idle", "answer", "enqueue", "ack"}]
  BY DEF Inv, Typed, RunsOK
<1>t. task \in [Events -> {"none", "live", "done"}]
  BY DEF Inv, Typed, TasksOK
<1>e. event \in [Events -> {"unseen", "queued"} \cup Settled]
  BY DEF Inv, Typed, RowsOK
<1>b. \A a \in answers : a.by \in Events
  BY DEF Inv, Typed, AnswersOK, AnswerType
<1>1. WorkInv'
  BY <1>r, <1>t, <1>e DEF Inv, WorkInv, Settle, Settled
<1>2. OwedInv'
  <2>1. ASSUME Answer(m)
        PROVE  OwedInv'
    <3>1. task' = task /\ run' = [run EXCEPT ![m] = "enqueue"] /\ task[m] = "live"
      BY <2>1 DEF Settle, Inv, WorkInv
    <3>2. \A a \in answers' : a \in answers \/ a.by = m
      BY <2>1
    <3>3. QED
      BY <3>1, <3>2, <1>r, <1>b DEF Inv, OwedInv
  <2>2. ASSUME EnqueueOutbounds(m)
        PROVE  OwedInv'
    <3>1. \A a \in AnswerType : [a EXCEPT !.queued = TRUE].queued = TRUE
      BY DEF AnswerType
    <3>2. \A a \in answers' : a.queued = TRUE
      BY <2>2, <3>1 DEF Inv, Typed, AnswersOK
    <3>3. QED
      BY <3>2 DEF OwedInv
  <2>3. ASSUME Acknowledge(m)
        PROVE  OwedInv'
    BY <2>3, <1>r, <1>t, <1>b DEF Inv, OwedInv
  <2>4. ASSUME Take(m) \/ HandlerFails(m)
        PROVE  OwedInv'
    <3>1. UNCHANGED <<answers, task>> /\ run'[m] # "ack" /\ \A e \in Events \ {m} : run'[e] = run[e]
      BY <2>4, <1>r DEF Settle
    <3>2. QED
      BY <3>1, <1>b DEF Inv, OwedInv
  <2>5. QED
    BY <2>1, <2>2, <2>3, <2>4
<1>3. QueuedHasDriver'
  BY <1>r, <1>t, <1>e DEF Inv, QueuedHasDriver, WorkInv, Settle, Settled
<1>4. QED
  BY <1>1, <1>2, <1>3

\* Every step keeps the invariant.
LEMMA InvStep == Inv /\ [Next]_vars => Inv'
<1> SUFFICES ASSUME Inv, [Next]_vars PROVE Inv'
  OBVIOUS
<1>1. ASSUME NEW m \in Events, Webhook(m)
      PROVE  Inv'
  BY <1>1, WebhookTyped, WebhookDriven DEF Inv
<1>2. ASSUME NEW m \in Events, Handler(m)
      PROVE  Inv'
  BY <1>2, HandlerTyped, HandlerDriven DEF Inv
<1>3. CASE HumanControl \/ SendOther \/ Tick
  <2>1. Typed'
    BY <1>3, OtherTyped DEF Inv
  <2>2. UNCHANGED <<hook, event, task, run, answers>>
    BY <1>3 DEF HumanControl, SendOther, Tick, handlerVars
  <2>3. QED
    BY <2>1, <2>2 DEF Inv, WorkInv, OwedInv, QueuedHasDriver
<1>4. CASE UNCHANGED vars
  BY <1>4 DEF vars, handlerVars, boundVars, Inv, Typed, ClockOK, HookOK, RowsOK, TasksOK, RunsOK,
       AnswersOK, CountsOK, WorkInv, OwedInv, QueuedHasDriver
<1>5. QED
  BY <1>1, <1>2, <1>3, <1>4 DEF Next

\* The invariant holds always.
LEMMA Invariance == Spec => []Inv
  BY InvInit, InvStep, PTL DEF Spec

\* Rows, tasks, handlers and answers keep their types.
THEOREM TurnsTyped == Spec => []TypeOK
<1>1. Inv => TypeOK
  BY TypedIsTypeOK DEF Inv
<1>2. QED
  BY <1>1, Invariance, PTL

\* An event that is committed and not settled is owed a delivery, by Cloud
\* Tasks or by Meta (persist_webhook_events_for_tasks and its 503).
THEOREM QueuedIsDriven == Spec => []QueuedHasDriver
<1>1. Inv => QueuedHasDriver
  BY DEF Inv
<1>2. QED
  BY <1>1, Invariance, PTL

\* An answer that is committed is owed the run of a handler until it is
\* handed to the outbound queue (enqueue_pending_outbounds_for_event).
THEOREM AnswersAreDriven == Spec => []AnswersHaveDriver
<1>1. Inv => AnswersHaveDriver
  <2>1. SUFFICES ASSUME Inv, NEW a \in answers, ~a.queued
                 PROVE  \E m \in Events : task[m] = "live"
    BY DEF AnswersHaveDriver
  <2>2. a.by \in Events /\ task[a.by] = "live"
    BY <2>1 DEF Inv, OwedInv, Typed, AnswersOK, AnswerType
  <2>3. QED
    BY <2>2
<1>2. QED
  BY <1>1, Invariance, PTL

-----------------------------------------------------------------------------
(* Exact grouping.                                                         *)

Sent(m) == hook[m] # "unsent"

\* Texts are sent in the order of their numbers, early enough to be answered.
OrderInv ==
  /\ \A m, n \in Events : m < n /\ Sent(n) => Sent(m) /\ at[m] <= at[n]
  /\ \A m \in Events : Sent(m) => at[m] <= now /\ at[m] + Window <= MaxTime
BoundInv == \E b \in Nat : \A m \in Events : Sent(m) => m <= b

\* Deliveries are on time: a row and its task are written in the second in
\* which the text is sent, and the handler runs when the window is over.
Prompt(m) ==
  /\ ~Sent(m) => event[m] = "unseen"
  /\ Sent(m) /\ task[m] = "none" => hook[m] \in {"due", "stored"} /\ at[m] = now
  /\ task[m] # "none" => due[m] = at[m] + Window
  /\ event[m] = "queued" => now <= at[m] + Window
  /\ event[m] \in Settled => task[m] # "none"
  /\ run[m] = "answer" => event[m] = "queued" /\ now = at[m] + Window /\ began[m] = now
PromptInv == human = FALSE /\ others = {} /\ \A m \in Events : Prompt(m)

\* A settled text has its answer, or a later text within the window.
SettledInv ==
  /\ \A m \in Events :
       /\ event[m] \in Settled => reason[m] \in {"answered", "merged"}
       /\ event[m] \notin Settled => reason[m] = "none"
       /\ reason[m] = "answered" => \E a \in answers : a.by = m
       /\ reason[m] = "merged" => \E n \in StoredTexts : m < n /\ at[n] <= at[m] + Window
  /\ \A a \in answers : a.at = at[a.by] + Window /\ reason[a.by] = "answered"
  /\ \A a, b \in answers : a.by = b.by => a = b

\* From n to m no two texts in a row are further apart than the window.
Linked(n, m) == \A j \in Events : n <= j /\ j < m =>
  \E k \in Events : j < k /\ k <= m /\ at[k] <= at[j] + Window

\* Since the last older answer.
Fresh(n, m) == \A b \in answers : b.at < at[m] => at[n] > b.at

\* T is what m answers: all that is linked to m and was not answered before,
\* and what follows m is out of the window.
Exact(m, T) ==
  /\ now >= at[m] + Window
  /\ \A n \in Events : m < n /\ Sent(n) => at[n] >= at[m] + Window
  /\ \A n \in T : n \in Events /\ Sent(n) /\ at[n] <= at[m] /\ Fresh(n, m)
  /\ Window > 0 => \A n \in Events : n <= m /\ Linked(n, m) /\ Fresh(n, m) => n \in T
TurnInv ==
  /\ \A m \in Events : run[m] = "answer" => Exact(m, turn[m])
  /\ \A a \in answers : Exact(a.by, a.turn)

GroupInv == Undisturbed => PromptInv /\ SettledInv /\ TurnInv
ExactInv == OrderInv /\ BoundInv /\ GroupInv

LEMMA ExactInit == Init => ExactInv
<1> SUFFICES ASSUME Init PROVE ExactInv
  OBVIOUS
<1>1. OrderInv
  BY DEF Init, OrderInv, Sent
<1>2. BoundInv
  BY DEF Init, BoundInv, Sent
<1>3. PromptInv
  BY DEF Init, PromptInv, Prompt, Sent, Settled
<1>4. SettledInv /\ TurnInv
  BY DEF Init, SettledInv, TurnInv, Settled
<1>5. QED
  BY <1>1, <1>2, <1>3, <1>4 DEF ExactInv, GroupInv

\* What was not undisturbed never is again.
LEMMA StaysDisturbed ==
  ASSUME Typed, [Next]_vars, Undisturbed'
  PROVE  Undisturbed /\ UNCHANGED <<late, steps>>
<1>1. late \in Nat /\ steps \in Nat
  BY TurnsAssumption DEF Typed, CountsOK
<1>2. late' = late \/ late' = late + 1
  BY DEF Next, Webhook, Send, Ingest, Enqueue, EnqueueFails, Duplicate, Handler, Take, TakeSettled,
       Merge, TakeTurn, Answer, EnqueueOutbounds, Acknowledge, HandlerFails, HumanControl,
       SendOther, Tick, vars, boundVars
<1>3. steps' = steps \/ steps' = steps + 1
  BY DEF Next, Webhook, Send, Ingest, Enqueue, EnqueueFails, Duplicate, Handler, Take, TakeSettled,
       Merge, TakeTurn, Answer, EnqueueOutbounds, Acknowledge, HandlerFails, HumanControl,
       SendOther, Tick, vars, boundVars
<1>4. QED
  BY <1>1, <1>2, <1>3 DEF Undisturbed

\* Only Send writes the time of a text, and it is the last one sent.
LEMMA OrderStep ==
  ASSUME Typed, OrderInv, BoundInv, [Next]_vars
  PROVE  OrderInv' /\ BoundInv'
<1> USE TurnsAssumption
<1>e. Events \subseteq Nat /\ now \in Nat /\ at \in [Events -> Nat]
  BY DEF Events, Typed, ClockOK
<1>h. hook \in [Events -> {"unsent", "due", "stored", "acked"}]
  BY DEF Typed, HookOK
<1>1. ASSUME NEW m \in Events, Send(m)
      PROVE  OrderInv' /\ BoundInv'
  <2>1. /\ at' = [at EXCEPT ![m] = now] /\ hook' = [hook EXCEPT ![m] = "due"] /\ now' = now
        /\ ~Sent(m) /\ now + Window <= MaxTime /\ \A n \in Events : n < m => Sent(n)
    BY <1>1 DEF Send, Sent
  <2>2. \A n \in Events : Sent(n)' <=> Sent(n) \/ n = m
    BY <2>1, <1>h DEF Sent
  <2>3. \A n \in Events : Sent(n) => n < m
    BY <2>1, <1>e DEF OrderInv
  <2>4. OrderInv'
    BY <2>1, <2>2, <2>3, <1>e DEF OrderInv
  <2>5. BoundInv'
    BY <2>2, <2>3, <1>e DEF BoundInv
  <2>6. QED
    BY <2>4, <2>5
<1>2. CASE /\ UNCHANGED at /\ now' \in {now, now + 1}
           /\ \A m \in Events : Sent(m)' <=> Sent(m)
  BY <1>2, <1>e DEF OrderInv, BoundInv
<1>3. ASSUME NEW m \in Events, Ingest(m) \/ Enqueue(m) \/ EnqueueFails(m) \/ Duplicate(m)
      PROVE  OrderInv' /\ BoundInv'
  <2>1. UNCHANGED <<at, now>>
    BY <1>3 DEF Ingest, Enqueue, EnqueueFails, Duplicate
  <2>2. hook[m] # "unsent" /\ \E h \in {"due", "stored", "acked"} : hook' = [hook EXCEPT ![m] = h]
    BY <1>3 DEF Ingest, Enqueue, EnqueueFails, Duplicate, Redelivered
  <2>3. \A n \in Events : Sent(n)' <=> Sent(n)
    BY <2>2, <1>h DEF Sent
  <2>4. QED
    BY <1>2, <2>1, <2>3
<1>4. ASSUME UNCHANGED <<at, hook>>, now' \in {now, now + 1}
      PROVE  OrderInv' /\ BoundInv'
  BY <1>4, <1>2 DEF Sent
<1>5. ASSUME NEW m \in Events, Handler(m)
      PROVE  UNCHANGED <<at, hook, now>>
  BY <1>5 DEF Handler, Take, TakeSettled, Merge, TakeTurn, Answer, EnqueueOutbounds, Acknowledge,
       HandlerFails
<1>6. CASE HumanControl \/ SendOther \/ Tick \/ UNCHANGED vars
  BY <1>6, <1>4 DEF HumanControl, SendOther, Tick, vars
<1>7. QED
  BY <1>1, <1>3, <1>4, <1>5, <1>6 DEF Next, Webhook

Calm == Inv /\ OrderInv /\ Undisturbed /\ PromptInv /\ SettledInv /\ TurnInv

\* A turn stays exact while texts and answers are the same.
LEMMA ExactKept ==
  ASSUME UNCHANGED at, \A n \in Events : Sent(n)' <=> Sent(n),
         now \in Nat, now' \in Nat, now' >= now, at \in [Events -> Nat], Window \in Nat,
         NEW m \in Events, \A n \in Events : Fresh(n, m)' <=> Fresh(n, m)
  PROVE  \A T : Exact(m, T) => Exact(m, T)'
<1>1. \A n \in Events : Linked(n, m)' <=> Linked(n, m)
  BY DEF Linked
<1>2. QED
  BY <1>1 DEF Exact

\* An answer is in the past of its text's window, so what is sent now is later.
LEMMA CalmFacts ==
  ASSUME Calm
  PROVE  /\ Events \subseteq Nat /\ now \in Nat /\ Window \in Nat /\ at \in [Events -> Nat]
         /\ \A a \in answers : a.by \in Events /\ a.at \in Nat /\ a.turn \subseteq Events
         /\ \A a \in answers : Sent(a.by) /\ a.at <= now
         /\ \A m \in Events : event[m] # "unseen" => Sent(m)
         /\ \A m \in Events : run[m] = "answer" => Sent(m)
<1>1. Events \subseteq Nat /\ now \in Nat /\ Window \in Nat /\ at \in [Events -> Nat]
  BY TurnsAssumption DEF Calm, Inv, Typed, ClockOK, Events
<1>2. \A a \in answers : a.by \in Events /\ a.at \in Nat /\ a.turn \subseteq Events
  BY TurnsAssumption DEF Calm, Inv, Typed, AnswersOK, AnswerType
<1>3. \A m \in Events : event[m] # "unseen" => Sent(m)
  BY DEF Calm, PromptInv, Prompt
<1>4. \A m \in Events : run[m] = "answer" => Sent(m)
  BY <1>3 DEF Calm, PromptInv, Prompt
<1>5. \A a \in answers : Sent(a.by) /\ a.at <= now
  <2>1. SUFFICES ASSUME NEW a \in answers
                 PROVE  Sent(a.by) /\ a.at <= now
    OBVIOUS
  <2>2. a.at = at[a.by] + Window /\ reason[a.by] = "answered" /\ Exact(a.by, a.turn)
    BY DEF Calm, SettledInv, TurnInv
  <2>3. event[a.by] \in Settled
    BY <2>2, <1>2 DEF Calm, SettledInv
  <2>4. QED
    BY <2>2, <2>3, <1>1, <1>2, <1>3 DEF Exact, Settled
<1>6. QED
  BY <1>1, <1>2, <1>3, <1>4, <1>5

\* A new text is later than every turn that is being answered.
LEMMA SendCalm ==
  ASSUME Calm, NEW m \in Events, Send(m)
  PROVE  PromptInv' /\ SettledInv' /\ TurnInv'
<1>f. /\ Events \subseteq Nat /\ now \in Nat /\ Window \in Nat /\ at \in [Events -> Nat]
      /\ \A a \in answers : a.by \in Events /\ a.at \in Nat /\ a.turn \subseteq Events
      /\ \A a \in answers : Sent(a.by) /\ a.at <= now
      /\ \A x \in Events : event[x] # "unseen" => Sent(x)
      /\ \A x \in Events : run[x] = "answer" => Sent(x)
  BY CalmFacts
<1>h. hook \in [Events -> {"unsent", "due", "stored", "acked"}]
  BY DEF Calm, Inv, Typed, HookOK
<1>1. /\ at' = [at EXCEPT ![m] = now] /\ hook' = [hook EXCEPT ![m] = "due"]
      /\ ~Sent(m) /\ now + Window <= MaxTime /\ \A n \in Events : n < m => Sent(n)
      /\ UNCHANGED <<now, event, reason, task, due, run, turn, began, answers, others, human>>
  BY DEF Send, Sent, handlerVars
<1>2. \A n \in Events : Sent(n)' <=> Sent(n) \/ n = m
  BY <1>1, <1>h DEF Sent
<1>3. \A n \in Events : Sent(n) => n < m /\ at[n] <= now /\ at'[n] = at[n]
  BY <1>1, <1>f DEF Calm, OrderInv
<1>4. event[m] = "unseen" /\ task[m] = "none" /\ run[m] = "idle" /\ reason[m] = "none"
  <2>1. event[m] = "unseen"
    BY <1>1 DEF Calm, PromptInv, Prompt
  <2>2. reason[m] = "none"
    BY <2>1 DEF Calm, SettledInv, Settled
  <2>3. QED
    BY <2>1, <2>2 DEF Calm, Inv, WorkInv
<1>5. PromptInv'
  <2>1. Prompt(m)'
    BY <1>1, <1>4, <1>f, <1>h DEF Prompt, Sent, Settled
  <2>2. ASSUME NEW n \in Events, n # m
        PROVE  Prompt(n)'
    <3>1. at'[n] = at[n] /\ hook'[n] = hook[n]
      BY <1>1, <2>2, <1>f, <1>h
    <3>2. Prompt(n)
      BY DEF Calm, PromptInv
    <3>3. QED
      BY <3>1, <3>2, <1>1 DEF Prompt, Sent
  <2>3. human' = FALSE /\ others' = {}
    BY <1>1 DEF Calm, PromptInv
  <2>4. QED
    BY <2>1, <2>2, <2>3 DEF PromptInv
<1>6. SettledInv'
  <2>1. StoredTexts' = StoredTexts /\ m \notin StoredTexts /\ \A n \in StoredTexts : n \in Events
    BY <1>1, <1>4 DEF StoredTexts, Stored
  <2>2. \A n \in Events : n # m => at'[n] = at[n]
    BY <1>1, <1>f
  <2>3. \A a \in answers : a.by # m
    BY <1>1, <1>f
  <2>4. SettledInv
    BY DEF Calm
  <2>5. \A x \in Events : reason'[x] = "merged" =>
          \E n \in StoredTexts' : x < n /\ at'[n] <= at'[x] + Window
    BY <1>1, <1>4, <2>1, <2>2, <2>4 DEF SettledInv
  <2>6. \A a \in answers' : a.at = at'[a.by] + Window /\ reason'[a.by] = "answered"
    BY <1>1, <1>f, <2>2, <2>3, <2>4 DEF SettledInv
  <2>7. QED
    BY <1>1, <2>4, <2>5, <2>6 DEF SettledInv
<1>7. ASSUME NEW x \in Events, Sent(x)
      PROVE  \A T : Exact(x, T) => Exact(x, T)'
  <2>1. \A n \in Events : n <= x => at'[n] = at[n] /\ n # m
    BY <1>1, <1>3, <1>7, <1>f
  <2>2. \A n \in Events : n <= x => (Linked(n, x)' <=> Linked(n, x))
    BY <2>1, <1>f DEF Linked
  <2>3. \A n \in Events : n # m => (Fresh(n, x)' <=> Fresh(n, x))
    BY <1>1, <1>7, <1>3, <1>f DEF Fresh
  <2>4. ASSUME NEW T, Exact(x, T)
        PROVE  Exact(x, T)'
    <3>1. now' >= at'[x] + Window
      BY <2>4, <2>1, <1>1, <1>f DEF Exact
    <3>2. \A n \in Events : x < n /\ Sent(n)' => at'[n] >= at'[x] + Window
      BY <2>4, <2>1, <1>1, <1>2, <1>3, <1>f DEF Exact
    <3>3. \A n \in T : n \in Events /\ Sent(n)' /\ at'[n] <= at'[x] /\ Fresh(n, x)'
      BY <2>4, <2>1, <2>3, <1>1, <1>2, <1>3, <1>7, <1>f DEF Exact
    <3>4. Window > 0 => \A n \in Events : n <= x /\ Linked(n, x)' /\ Fresh(n, x)' => n \in T
      BY <2>4, <2>1, <2>2, <2>3 DEF Exact
    <3>5. QED
      BY <3>1, <3>2, <3>3, <3>4 DEF Exact
  <2>5. QED
    BY <2>4
<1>8. TurnInv'
  <2>1. ASSUME NEW x \in Events, run'[x] = "answer"
        PROVE  Exact(x, turn[x])'
    <3>1. PICK T : T = turn[x]
      OBVIOUS
    <3>2. Exact(x, T)' /\ T = turn'[x]
      BY <2>1, <3>1, <1>7, <1>1, <1>f DEF Calm, TurnInv
    <3>3. QED
      BY <3>2 DEF Exact
  <2>2. ASSUME NEW a \in answers'
        PROVE  Exact(a.by, a.turn)'
    BY <2>2, <1>7, <1>1, <1>f DEF Calm, TurnInv
  <2>3. QED
    BY <2>1, <2>2 DEF TurnInv
<1>9. QED
  BY <1>5, <1>6, <1>8

\* The turns that no step writes to.
LEMMA TurnsKept ==
  ASSUME Calm, UNCHANGED <<at, answers>>, now' \in {now, now + 1},
         \A n \in Events : Sent(n)' <=> Sent(n)
  PROVE  /\ \A x \in Events : /\ run[x] = "answer" /\ turn'[x] = turn[x] => Exact(x, turn[x])'
         /\ \A a \in answers' : Exact(a.by, a.turn)'
<1>f. /\ Events \subseteq Nat /\ now \in Nat /\ Window \in Nat /\ at \in [Events -> Nat]
      /\ \A a \in answers : a.by \in Events /\ a.at \in Nat /\ a.turn \subseteq Events
  BY CalmFacts
<1>1. ASSUME NEW x \in Events
      PROVE  \A T : Exact(x, T) => Exact(x, T)'
  <2>1. \A n \in Events : Fresh(n, x)' <=> Fresh(n, x)
    BY DEF Fresh
  <2>2. now' \in Nat /\ now' >= now
    BY <1>f
  <2>3. QED
    BY <2>1, <2>2, <1>f, ExactKept
<1>2. ASSUME NEW x \in Events, run[x] = "answer", turn'[x] = turn[x]
      PROVE  Exact(x, turn[x])'
  <2>1. PICK T : T = turn[x]
    OBVIOUS
  <2>2. Exact(x, T)' /\ T = turn'[x]
    BY <1>1, <1>2, <2>1 DEF Calm, TurnInv
  <2>3. QED
    BY <2>2 DEF Exact
<1>3. ASSUME NEW a \in answers'
      PROVE  Exact(a.by, a.turn)'
  BY <1>1, <1>3, <1>f DEF Calm, TurnInv
<1>4. QED
  BY <1>2, <1>3

\* The webhook writes the row and its task in the second of the text.
LEMMA WebhookCalm ==
  ASSUME Calm, NEW m \in Events, Webhook(m)
  PROVE  PromptInv' /\ SettledInv' /\ TurnInv'
<1>1. CASE Send(m)
  BY <1>1, SendCalm
<1>2. CASE Ingest(m) \/ Enqueue(m) \/ EnqueueFails(m) \/ Duplicate(m)
  <2>f. /\ Events \subseteq Nat /\ now \in Nat /\ Window \in Nat /\ at \in [Events -> Nat]
        /\ \A x \in Events : event[x] # "unseen" => Sent(x)
    BY CalmFacts
  <2>h. hook \in [Events -> {"unsent", "due", "stored", "acked"}]
    BY DEF Calm, Inv, Typed, HookOK
  <2>t. task \in [Events -> {"none", "live", "done"}] /\ due \in [Events -> Nat]
    BY TurnsAssumption DEF Calm, Inv, Typed, TasksOK
  <2>e. event \in [Events -> {"unseen", "queued", "processed", "ignored"}]
    BY DEF Calm, Inv, Typed, RowsOK, Settled
  <2>r. reason \in [Events -> {"none", "answered", "merged", "human"}]
    BY DEF Calm, Inv, Typed, RowsOK
  <2>1. UNCHANGED <<at, now, answers, run, turn, began, human, others>>
    BY <1>2 DEF Ingest, Enqueue, EnqueueFails, Duplicate, handlerVars
  <2>2. Prompt(m) /\ human = FALSE /\ Sent(m)
    BY <1>2 DEF Calm, PromptInv, Ingest, Enqueue, EnqueueFails, Duplicate, Sent
  <2>3. hook' \in [Events -> {"unsent", "due", "stored", "acked"}]
    BY WebhookTyped DEF Calm, Inv, Typed, HookOK
  <2>4. /\ hook'[m] # "unsent"
        /\ \A n \in Events \ {m} : hook'[n] = hook[n] /\ event'[n] = event[n]
                                   /\ task'[n] = task[n] /\ due'[n] = due[n]
    BY <1>2, <2>h, <2>t, <2>e DEF Ingest, Enqueue, EnqueueFails, Duplicate, Redelivered
  <2>5. \A n \in Events : Sent(n)' <=> Sent(n)
    BY <2>2, <2>4 DEF Sent
  <2>6. reason' = reason /\ \A n \in Events :
          event'[n] = event[n] \/ (event[n] = "unseen" /\ event'[n] = "queued")
    <3>1. CASE Ingest(m)
      <4>1. CASE event[m] = "unseen"
        <5>1. event' = [event EXCEPT ![m] = "queued"] /\ reason' = [reason EXCEPT ![m] = "none"]
          BY <3>1, <4>1, <2>2 DEF Ingest
        <5>2. reason[m] = "none"
          BY <4>1 DEF Calm, SettledInv, Settled
        <5>3. QED
          BY <4>1, <5>1, <5>2, <2>e, <2>r
      <4>2. QED
        BY <3>1, <4>1 DEF Ingest
    <3>2. QED
      BY <1>2, <3>1 DEF Enqueue, EnqueueFails, Duplicate
  <2>7. Prompt(m)'
    <3>w. event[m] = "unseen" => task[m] = "none" /\ hook[m] = "due"
      BY <2>2 DEF Calm, Inv, WorkInv, Sent
    <3>x. run[m] = "answer" => event[m] = "queued"
      BY <2>2 DEF Prompt
    <3>1. CASE Ingest(m) /\ event[m] = "unseen"
      <4>1. /\ event'[m] = "queued" /\ hook'[m] = "stored" /\ task' = task /\ due' = due
        BY <3>1, <2>2, <2>e, <2>h DEF Ingest
      <4>2. at[m] = now /\ task[m] = "none" /\ run[m] # "answer"
        BY <3>1, <3>w, <3>x, <2>2 DEF Prompt
      <4>3. QED
        BY <4>1, <4>2, <2>1, <2>f DEF Prompt, Sent, Settled
    <3>2. CASE Ingest(m) /\ event[m] # "unseen"
      <4>1. hook'[m] = (IF event[m] = "queued" THEN "stored" ELSE "acked") /\ event' = event
            /\ task' = task /\ due' = due
        BY <3>2, <2>h DEF Ingest, Redelivered
      <4>2. event[m] # "queued" => task[m] # "none"
        BY <3>2, <2>2, <2>e DEF Prompt, Settled
      <4>3. QED
        BY <4>1, <4>2, <2>1, <2>2 DEF Prompt, Sent
    <3>3. CASE Enqueue(m)
      <4>1. /\ hook'[m] = "acked" /\ event' = event /\ task'[m] # "none"
            /\ IF task[m] = "none" THEN due'[m] = now + Window ELSE due'[m] = due[m]
        BY <3>3, <2>h, <2>t DEF Enqueue
      <4>2. due'[m] = at[m] + Window
        BY <4>1, <2>2 DEF Prompt
      <4>3. QED
        BY <4>1, <4>2, <2>1, <2>2 DEF Prompt, Sent
    <3>4. CASE EnqueueFails(m) \/ Duplicate(m)
      <4>1. hook'[m] = "due" /\ event' = event /\ task' = task /\ due' = due
        BY <3>4, <2>h DEF EnqueueFails, Duplicate
      <4>2. task[m] = "none" => at[m] = now
        BY <2>2 DEF Prompt
      <4>3. QED
        BY <4>1, <4>2, <2>1, <2>2 DEF Prompt, Sent
    <3>5. QED
      BY <1>2, <3>1, <3>2, <3>3, <3>4
  <2>8. PromptInv'
    <3>1. ASSUME NEW n \in Events \ {m}
          PROVE  Prompt(n)'
      BY <2>1, <2>4 DEF Calm, PromptInv, Prompt, Sent
    <3>2. QED
      BY <2>1, <2>7, <3>1 DEF Calm, PromptInv
  <2>9. SettledInv'
    <3>1. StoredTexts \subseteq StoredTexts'
      BY <2>6 DEF StoredTexts, Stored
    <3>2. \A n \in Events : event'[n] \in Settled <=> event[n] \in Settled
      BY <2>6 DEF Settled
    <3>3. SettledInv
      BY DEF Calm
    <3>4. QED
      BY <2>1, <2>6, <3>1, <3>2, <3>3 DEF SettledInv
  <2>10. TurnInv'
    BY <2>1, <2>5, TurnsKept DEF TurnInv, Calm
  <2>11. QED
    BY <2>8, <2>9, <2>10
<1>3. QED
  BY <1>1, <1>2 DEF Webhook

\* On time, a handler takes a queued text when its window is just over.
LEMMA ReadyOnTime ==
  ASSUME Calm, NEW m \in Events, Ready(m), event[m] = "queued"
  PROVE  Sent(m) /\ now = at[m] + Window
<1>1. /\ now \in Nat /\ Window \in Nat /\ at \in [Events -> Nat] /\ Sent(m)
  BY CalmFacts
<1>2. due[m] = at[m] + Window /\ now <= at[m] + Window /\ at[m] + Window <= MaxTime
  BY <1>1 DEF Calm, PromptInv, Prompt, OrderInv, Ready
<1>3. QED
  BY <1>1, <1>2 DEF Ready

\* TakeTurn groups exactly what m answers.
LEMMA TurnIsExact ==
  ASSUME Calm, NEW m \in Events, TakeTurn(m)
  PROVE  Exact(m, Turn(m))
<1>f. /\ Events \subseteq Nat /\ now \in Nat /\ Window \in Nat /\ at \in [Events -> Nat]
      /\ \A a \in answers : a.by \in Events /\ a.at \in Nat /\ a.turn \subseteq Events
      /\ \A x \in Events : event[x] # "unseen" => Sent(x)
  BY CalmFacts
<1>1. Sent(m) /\ now = at[m] + Window /\ event[m] = "queued" /\ ~Superseded(m)
  BY ReadyOnTime DEF TakeTurn
<1>2. OutboundAt = {a.at : a \in answers} /\ Texts = Events
  BY DEF OutboundAt, Calm, PromptInv, Undisturbed, Events
<1>3. \A x, y \in Events : x < y /\ Sent(y) => Sent(x) /\ at[x] <= at[y]
  BY DEF Calm, OrderInv
<1>4. \A x \in Events : Sent(x) /\ event[x] = "unseen" => at[x] = now
  BY DEF Calm, Inv, WorkInv, PromptInv, Prompt
<1>5. \A x \in Events : x \in StoredTexts <=> event[x] # "unseen"
  BY <1>2 DEF StoredTexts, Stored
<1>6. \A n \in Events : m < n /\ Sent(n) => at[n] >= at[m] + Window
  <2>1. SUFFICES ASSUME NEW n \in Events, m < n, Sent(n)
                 PROVE  at[n] >= at[m] + Window
    OBVIOUS
  <2>2. CASE event[n] = "unseen"
    BY <2>1, <2>2, <1>1, <1>4, <1>f
  <2>3. CASE event[n] # "unseen"
    <3>1. Before(m, n)
      BY <2>1, <1>3, <1>f DEF Before
    <3>2. ~(at[n] <= at[m] + Window)
      BY <2>3, <3>1, <1>1, <1>2, <1>5 DEF Superseded
    <3>3. QED
      BY <3>2, <1>f
  <2>4. QED
    BY <2>2, <2>3
<1>7. \A n \in Events : n \in Candidates(m) <=> event[n] # "unseen" /\ at[n] <= at[m] /\ Fresh(n, m)
  BY <1>2, <1>5 DEF Candidates, Fresh, StoredTexts, Stored
<1>8. Candidates(m) \subseteq Events /\ Grouped(m) \subseteq Candidates(m)
  BY <1>2 DEF Candidates, Grouped, StoredTexts
<1>9. \A n \in Turn(m) : n \in Events /\ Sent(n) /\ at[n] <= at[m] /\ Fresh(n, m)
  <2>1. CASE Turn(m) = Grouped(m)
    BY <2>1, <1>7, <1>8, <1>f
  <2>2. CASE Turn(m) = {m}
    BY <2>2, <1>1, <1>f DEF Fresh
  <2>3. QED
    BY <2>1, <2>2 DEF Turn
<1>10. ASSUME Window > 0, NEW n \in Events, n <= m, Linked(n, m), Fresh(n, m)
       PROVE  n \in Turn(m)
  <2>1. \A k \in Events : n <= k /\ k <= m => k \in Candidates(m) \cup {m}
    <3>1. SUFFICES ASSUME NEW k \in Events, n <= k, k < m
                   PROVE  k \in Candidates(m)
      BY <1>f
    <3>2. Sent(k) /\ at[k] <= at[m]
      BY <3>1, <1>1, <1>3
    <3>3. at[n] <= at[k]
      BY <3>1, <3>2, <1>3, <1>f
    <3>4. event[k] # "unseen"
      BY <3>2, <1>10, <1>1, <1>4, <1>f
    <3>5. Fresh(k, m)
      BY <3>3, <1>10, <1>f DEF Fresh
    <3>6. QED
      BY <3>2, <3>4, <3>5, <1>7
  <2>2. n \in Candidates(m)
    <3>1. CASE n < m
      BY <3>1, <2>1, <1>10, <1>f
    <3>2. CASE n = m
      BY <3>2, <1>1, <1>7, <1>10, <1>f
    <3>3. QED
      BY <3>1, <3>2, <1>10, <1>f
  <2>3. ASSUME NEW j \in Candidates(m) \ {m}, n = j \/ Before(n, j)
        PROVE  \E k \in Candidates(m) \cup {m} : Before(j, k) /\ at[k] <= at[j] + Window
    <3>1. j \in Events /\ Sent(j) /\ at[j] <= at[m] /\ j # m
      BY <2>3, <1>7, <1>8, <1>f
    <3>2. j < m
      BY <3>1, <1>6, <1>10, <1>f
    <3>3. Sent(n)
      BY <2>2, <1>7, <1>f
    <3>4. n <= j
      BY <2>3, <3>1, <3>3, <1>3, <1>f DEF Before
    <3>5. PICK k \in Events : j < k /\ k <= m /\ at[k] <= at[j] + Window
      BY <3>1, <3>2, <3>4, <1>10 DEF Linked
    <3>6. Sent(k)
      BY <3>5, <1>1, <1>3, <1>f
    <3>7. Before(j, k)
      BY <3>1, <3>5, <3>6, <1>3, <1>f DEF Before
    <3>8. k \in Candidates(m) \cup {m}
      BY <3>1, <3>4, <3>5, <2>1, <1>f
    <3>9. QED
      BY <3>5, <3>7, <3>8
  <2>4. n \in Grouped(m)
    BY <2>2, <2>3 DEF Grouped
  <2>5. QED
    BY <2>4, <1>2 DEF Turn
<1>11. QED
  BY <1>1, <1>6, <1>9, <1>10, <1>f DEF Exact

\* A handler that settles, enqueues, acknowledges or fails leaves the turns of
\* the others; the one that takes a turn takes an exact one.
LEMMA HandlerCalm ==
  ASSUME Calm, NEW m \in Events, Handler(m)
  PROVE  PromptInv' /\ SettledInv' /\ TurnInv'
<1> USE DEF Handler, Take
<1>f. /\ Events \subseteq Nat /\ now \in Nat /\ Window \in Nat /\ at \in [Events -> Nat]
      /\ \A a \in answers : a.by \in Events /\ a.at \in Nat /\ a.turn \subseteq Events
      /\ \A a \in answers : Sent(a.by) /\ a.at <= now
      /\ \A x \in Events : event[x] # "unseen" => Sent(x)
      /\ \A x \in Events : run[x] = "answer" => Sent(x)
  BY CalmFacts
<1>t. task \in [Events -> {"none", "live", "done"}]
  BY DEF Calm, Inv, Typed, TasksOK
<1>e. event \in [Events -> {"unseen", "queued", "processed", "ignored"}]
  BY DEF Calm, Inv, Typed, RowsOK, Settled
<1>r. reason \in [Events -> {"none", "answered", "merged", "human"}]
  BY DEF Calm, Inv, Typed, RowsOK
<1>n. /\ run \in [Events -> {"idle", "answer", "enqueue", "ack"}]
      /\ turn \in [Events -> SUBSET Events] /\ began \in [Events -> 0 .. MaxTime]
  BY DEF Calm, Inv, Typed, RunsOK
<1>s. SettledInv /\ TurnInv /\ human = FALSE /\ others = {}
  BY DEF Calm, PromptInv
<1>p. \A x \in Events : Prompt(x)
  BY DEF Calm, PromptInv
<1>1. UNCHANGED <<at, now, hook, due, human, others>>
  BY DEF TakeSettled, Merge, TakeTurn, Answer, EnqueueOutbounds, Acknowledge, HandlerFails
<1>2. \A x \in Events : Sent(x)' <=> Sent(x)
  BY <1>1 DEF Sent
<1>3. CASE TakeSettled(m) \/ Merge(m) \/ EnqueueOutbounds(m) \/ Acknowledge(m) \/ HandlerFails(m)
  <2>1. run'[m] # "answer" /\ \A x \in Events \ {m} : run'[x] = run[x]
    BY <1>3, <1>n DEF TakeSettled, Merge, EnqueueOutbounds, Acknowledge, HandlerFails, Settle
  <2>2. turn' = turn /\ began' = began
    BY <1>3 DEF TakeSettled, Merge, EnqueueOutbounds, Acknowledge, HandlerFails
  <2>3. \A x \in Events : task'[x] = "none" <=> task[x] = "none"
    <3>1. CASE Acknowledge(m)
      <4>1. task[m] # "none" /\ task' = [task EXCEPT ![m] = "done"]
        BY <3>1 DEF Acknowledge, Calm, Inv, WorkInv
      <4>2. QED
        BY <4>1, <1>t
    <3>2. QED
      BY <1>3, <3>1 DEF TakeSettled, Merge, EnqueueOutbounds, HandlerFails
  <2>4. CASE Merge(m)
    <3>1. /\ event' = [event EXCEPT ![m] = "processed"] /\ reason' = [reason EXCEPT ![m] = "merged"]
          /\ answers' = answers /\ event[m] = "queued" /\ Superseded(m) /\ task[m] = "live"
      BY <2>4 DEF Merge, Settle, Ready
    <3>2. PromptInv'
      <4>1. ASSUME NEW x \in Events
            PROVE  Prompt(x)'
        <5>1. CASE x = m
          BY <5>1, <3>1, <2>1, <2>2, <2>3, <1>1, <1>e, <1>f, <1>p DEF Prompt, Sent, Settled
        <5>2. CASE x # m
          <6>1. event'[x] = event[x] /\ run'[x] = run[x]
            BY <5>2, <3>1, <2>1, <1>e
          <6>2. QED
            BY <6>1, <2>2, <2>3, <1>1, <1>p DEF Prompt, Sent
        <5>3. QED
          BY <5>1, <5>2
      <4>2. QED
        BY <4>1, <1>1, <1>s DEF PromptInv
    <3>3. SettledInv'
      <4>1. StoredTexts \subseteq StoredTexts'
        BY <3>1, <1>e DEF StoredTexts, Stored
      <4>2. \E n \in StoredTexts : m < n /\ at[n] <= at[m] + Window
        <5>1. PICK n \in StoredTexts : Before(m, n) /\ at[n] <= at[m] + Window
          BY <3>1 DEF Superseded
        <5>2. n \in Events /\ Sent(n) /\ Sent(m)
          BY <3>1, <1>f DEF StoredTexts, Stored
        <5>3. m < n
          BY <5>1, <5>2, <1>f DEF Before, Calm, OrderInv
        <5>4. QED
          BY <5>1, <5>3
      <4>3. reason[m] = "none"
        BY <3>1, <1>s DEF SettledInv, Settled
      <4>4. \A x \in Events \ {m} : event'[x] = event[x] /\ reason'[x] = reason[x]
        BY <3>1, <1>e, <1>r
      <4>5. event'[m] = "processed" /\ reason'[m] = "merged"
        BY <3>1, <1>e, <1>r
      <4>6. ASSUME NEW x \in Events
            PROVE  /\ event'[x] \in Settled => reason'[x] \in {"answered", "merged"}
                   /\ event'[x] \notin Settled => reason'[x] = "none"
                   /\ reason'[x] = "answered" => \E a \in answers' : a.by = x
                   /\ reason'[x] = "merged" =>
                        \E n \in StoredTexts' : x < n /\ at'[n] <= at'[x] + Window
        BY <1>1, <1>s, <3>1, <4>1, <4>2, <4>4, <4>5 DEF SettledInv, Settled
      <4>7. \A a \in answers' : a.at = at'[a.by] + Window /\ reason'[a.by] = "answered"
        BY <1>1, <1>s, <1>f, <3>1, <4>3, <4>4 DEF SettledInv
      <4>8. QED
        BY <4>6, <4>7, <3>1, <1>s DEF SettledInv
    <3>4. TurnInv'
      BY <3>1, <2>1, <2>2, <1>1, <1>2, TurnsKept DEF TurnInv
    <3>5. QED
      BY <3>2, <3>3, <3>4
  <2>5. CASE ~Merge(m)
    <3>1. event' = event /\ reason' = reason
      BY <1>3, <2>5 DEF TakeSettled, EnqueueOutbounds, Acknowledge, HandlerFails
    <3>2. PromptInv'
      <4>1. ASSUME NEW x \in Events
            PROVE  Prompt(x)'
        BY <3>1, <2>1, <2>2, <2>3, <1>1, <1>p DEF Prompt, Sent
      <4>2. QED
        BY <4>1, <1>1, <1>s DEF PromptInv
    <3>3. StoredTexts' = StoredTexts
      BY <3>1 DEF StoredTexts, Stored
    <3>4. CASE EnqueueOutbounds(m)
      <4>1. \A a \in AnswerType :
              /\ [a EXCEPT !.queued = TRUE].by = a.by /\ [a EXCEPT !.queued = TRUE].at = a.at
              /\ [a EXCEPT !.queued = TRUE].turn = a.turn
        BY DEF AnswerType
      <4>2. answers' = {[a EXCEPT !.queued = TRUE] : a \in answers} /\ answers \subseteq AnswerType
        BY <3>4 DEF EnqueueOutbounds, Calm, Inv, Typed, AnswersOK
      <4>3. \A b \in answers' : \E a \in answers :
              b = [a EXCEPT !.queued = TRUE] /\ b.by = a.by /\ b.at = a.at /\ b.turn = a.turn
        BY <4>1, <4>2
      <4>4. \A a \in answers : \E b \in answers' : b.by = a.by /\ b.at = a.at
        BY <4>1, <4>2
      <4>5. SettledInv'
        <5>1. ASSUME NEW x \in Events
              PROVE  /\ event'[x] \in Settled => reason'[x] \in {"answered", "merged"}
                     /\ event'[x] \notin Settled => reason'[x] = "none"
                     /\ reason'[x] = "answered" => \E a \in answers' : a.by = x
                     /\ reason'[x] = "merged" =>
                          \E n \in StoredTexts' : x < n /\ at'[n] <= at'[x] + Window
          BY <1>1, <1>s, <3>1, <3>3, <4>4 DEF SettledInv
        <5>2. \A a \in answers' : a.at = at'[a.by] + Window /\ reason'[a.by] = "answered"
          BY <1>1, <1>s, <3>1, <4>3 DEF SettledInv
        <5>3. \A a, b \in answers' : a.by = b.by => a = b
          <6>1. SUFFICES ASSUME NEW a \in answers', NEW b \in answers', a.by = b.by
                         PROVE  a = b
            OBVIOUS
          <6>2. PICK c \in answers : a = [c EXCEPT !.queued = TRUE] /\ a.by = c.by
            BY <4>3
          <6>3. PICK d \in answers : b = [d EXCEPT !.queued = TRUE] /\ b.by = d.by
            BY <4>3
          <6>4. c = d
            BY <6>1, <6>2, <6>3, <1>s DEF SettledInv
          <6>5. QED
            BY <6>2, <6>3, <6>4
        <5>4. QED
          BY <5>1, <5>2, <5>3 DEF SettledInv
      <4>6. ASSUME NEW x \in Events
            PROVE  \A T : Exact(x, T) => Exact(x, T)'
        <5>1. \A n \in Events : Fresh(n, x)' <=> Fresh(n, x)
          BY <4>3, <4>4, <1>1 DEF Fresh
        <5>2. UNCHANGED at /\ now' \in Nat /\ now' >= now
          BY <1>1, <1>f
        <5>3. QED
          BY ONLY <5>1, <5>2, <1>2, <1>f, <4>6, ExactKept
      <4>7. ASSUME NEW x \in Events, run'[x] = "answer"
            PROVE  Exact(x, turn[x])'
        <5>1. PICK T : T = turn[x]
          OBVIOUS
        <5>2. Exact(x, T)' /\ T = turn'[x]
          BY <4>6, <4>7, <5>1, <2>1, <2>2, <1>s DEF TurnInv
        <5>3. QED
          BY <5>2 DEF Exact
      <4>8. ASSUME NEW b \in answers'
            PROVE  Exact(b.by, b.turn)'
        <5>1. PICK a \in answers : b.by = a.by /\ b.turn = a.turn
          BY <4>3
        <5>2. Exact(b.by, b.turn) /\ b.by \in Events
          BY <5>1, <1>s, <1>f DEF TurnInv
        <5>3. QED
          BY <5>2, <4>6
      <4>9. TurnInv'
        BY <4>7, <4>8 DEF TurnInv
      <4>10. QED
        BY <3>2, <4>5, <4>9
    <3>5. CASE ~EnqueueOutbounds(m)
      <4>1. answers' = answers
        BY <1>3, <2>5, <3>5 DEF TakeSettled, Acknowledge, HandlerFails
      <4>2. SettledInv'
        BY <4>1, <3>1, <3>3, <1>1, <1>s DEF SettledInv
      <4>3. TurnInv'
        BY <4>1, <2>1, <2>2, <1>1, <1>2, TurnsKept DEF TurnInv
      <4>4. QED
        BY <3>2, <4>2, <4>3
    <3>6. QED
      BY <3>4, <3>5
  <2>6. QED
    BY <2>4, <2>5
<1>4. CASE TakeTurn(m)
  <2>1. /\ run' = [run EXCEPT ![m] = "answer"] /\ turn' = [turn EXCEPT ![m] = Turn(m)]
        /\ began' = [began EXCEPT ![m] = now] /\ UNCHANGED <<event, reason, task, answers>>
        /\ event[m] = "queued" /\ Ready(m)
    BY <1>4 DEF TakeTurn
  <2>2. Sent(m) /\ now = at[m] + Window
    BY <2>1, ReadyOnTime
  <2>3. PromptInv'
    <3>1. ASSUME NEW x \in Events, x # m
          PROVE  Prompt(x)'
      <4>1. run'[x] = run[x] /\ began'[x] = began[x]
        BY <2>1, <3>1, <1>n
      <4>2. QED
        BY <4>1, <2>1, <1>1, <1>p DEF Prompt, Sent
    <3>2. Prompt(m)'
      <4>1. run'[m] = "answer" /\ began'[m] = now
        BY <2>1, <1>n
      <4>2. QED
        BY <4>1, <2>1, <2>2, <1>1, <1>p DEF Prompt, Sent
    <3>3. QED
      BY <3>1, <3>2, <1>1, <1>s DEF PromptInv
  <2>4. SettledInv'
    BY <2>1, <1>1, <1>s DEF SettledInv, StoredTexts, Stored
  <2>5. TurnInv'
    <3>1. ASSUME NEW x \in Events, x # m, run'[x] = "answer"
          PROVE  Exact(x, turn[x])'
      <4>1. run[x] = "answer" /\ turn'[x] = turn[x]
        BY <2>1, <3>1, <1>n
      <4>2. QED
        BY <4>1, <2>1, <1>1, <1>2, TurnsKept
    <3>2. Exact(m, turn[m])'
      <4>1. PICK T : T = Turn(m)
        OBVIOUS
      <4>2. Exact(m, T)
        BY <1>4, <4>1, TurnIsExact
      <4>3. Exact(m, T)' /\ T = turn'[m]
        <5>1. \A n \in Events : Fresh(n, m)' <=> Fresh(n, m)
          BY <2>1, <1>1 DEF Fresh
        <5>2. Exact(m, T)'
          BY <5>1, <4>2, <1>1, <1>2, <1>f, ExactKept
        <5>3. QED
          BY <5>2, <4>1, <2>1, <1>n
      <4>4. QED
        BY <4>3 DEF Exact
    <3>3. \A a \in answers' : Exact(a.by, a.turn)'
      BY <2>1, <1>1, <1>2, TurnsKept
    <3>4. QED
      BY <3>1, <3>2, <3>3 DEF TurnInv
  <2>6. QED
    BY <2>3, <2>4, <2>5
<1>5. CASE Answer(m)
  <2>1. /\ event' = [event EXCEPT ![m] = "processed"] /\ reason' = [reason EXCEPT ![m] = "answered"]
        /\ run' = [run EXCEPT ![m] = "enqueue"] /\ UNCHANGED <<task, turn, began>>
        /\ run[m] = "answer"
    BY <1>5, <1>s DEF Answer, Settle
  <2>2. /\ event[m] = "queued" /\ Sent(m) /\ now = at[m] + Window /\ began[m] = now
        /\ task[m] = "live"
    BY <2>1, <1>f, <1>p DEF Prompt, Calm, Inv, WorkInv
  <2>3. reason[m] = "none"
    BY <2>2, <1>s DEF SettledInv, Settled
  <2>4. \A a \in answers : a.by # m
    BY <2>3, <1>s DEF SettledInv
  <2>5. PICK c : c = [by |-> m, at |-> began[m], turn |-> turn[m], queued |-> FALSE]
    OBVIOUS
  <2>6. answers' = answers \cup {c} /\ c.by = m /\ c.at = now /\ c.turn = turn[m]
    BY <1>5, <1>s, <2>2, <2>4, <2>5 DEF Answer
  <2>7. \A x \in Events \ {m} : /\ event'[x] = event[x] /\ reason'[x] = reason[x]
                                /\ run'[x] = run[x]
    BY <2>1, <1>e, <1>r, <1>n
  <2>8. event'[m] = "processed" /\ reason'[m] = "answered" /\ run'[m] = "enqueue"
    BY <2>1, <1>e, <1>r, <1>n
  <2>9. PromptInv'
    <3>1. ASSUME NEW x \in Events, x # m
          PROVE  Prompt(x)'
      BY <3>1, <2>1, <2>7, <1>1, <1>p DEF Prompt, Sent
    <3>2. Prompt(m)'
      BY <2>1, <2>2, <2>8, <1>1, <1>p DEF Prompt, Sent, Settled
    <3>3. QED
      BY <3>1, <3>2, <1>1, <1>s DEF PromptInv
  <2>10. SettledInv'
    <3>1. StoredTexts \subseteq StoredTexts'
      BY <2>1, <1>e DEF StoredTexts, Stored
    <3>2. ASSUME NEW x \in Events
          PROVE  /\ event'[x] \in Settled => reason'[x] \in {"answered", "merged"}
                 /\ event'[x] \notin Settled => reason'[x] = "none"
                 /\ reason'[x] = "answered" => \E a \in answers' : a.by = x
                 /\ reason'[x] = "merged" =>
                      \E n \in StoredTexts' : x < n /\ at'[n] <= at'[x] + Window
      <4>1. CASE x = m
        BY <4>1, <2>6, <2>8 DEF Settled
      <4>2. CASE x # m
        <5>1. event'[x] = event[x] /\ reason'[x] = reason[x]
          BY <4>2, <2>7
        <5>2. QED
          BY <5>1, <3>1, <2>6, <1>1, <1>s DEF SettledInv
      <4>3. QED
        BY <4>1, <4>2
    <3>3. \A a \in answers' : a.at = at'[a.by] + Window /\ reason'[a.by] = "answered"
      <4>1. c.at = at'[c.by] + Window /\ reason'[c.by] = "answered"
        BY <2>2, <2>6, <2>8, <1>1
      <4>2. ASSUME NEW a \in answers
            PROVE  a.at = at'[a.by] + Window /\ reason'[a.by] = "answered"
        <5>1. a.at = at[a.by] + Window /\ reason[a.by] = "answered"
          BY <1>s DEF SettledInv
        <5>2. reason'[a.by] = reason[a.by]
          BY <2>4, <2>7, <1>f
        <5>3. QED
          BY <5>1, <5>2, <1>1
      <4>3. QED
        BY <4>1, <4>2, <2>6
    <3>4. \A a, b \in answers' : a.by = b.by => a = b
      BY <2>4, <2>6, <1>s DEF SettledInv
    <3>5. QED
      BY <3>2, <3>3, <3>4 DEF SettledInv
  <2>11. TurnInv'
    <3>1. ASSUME NEW x \in Events, Sent(x)
          PROVE  \A T : Exact(x, T) => Exact(x, T)'
      <4>1. at[x] <= now
        BY <3>1 DEF Calm, OrderInv
      <4>2. \A n \in Events : Fresh(n, x)' <=> Fresh(n, x)
        BY <4>1, <2>6, <1>1, <1>f DEF Fresh
      <4>3. UNCHANGED at /\ now' \in Nat /\ now' >= now
        BY <1>1, <1>f
      <4>4. QED
        BY ONLY <4>2, <4>3, <1>2, <1>f, <3>1, ExactKept
    <3>2. ASSUME NEW x \in Events, run'[x] = "answer"
          PROVE  Exact(x, turn[x])'
      <4>1. PICK T : T = turn[x]
        OBVIOUS
      <4>2. Exact(x, T)' /\ T = turn'[x]
        BY <3>1, <3>2, <4>1, <2>1, <2>7, <2>8, <1>s, <1>f DEF TurnInv
      <4>3. QED
        BY <4>2 DEF Exact
    <3>3. ASSUME NEW b \in answers'
          PROVE  Exact(b.by, b.turn)'
      <4>1. b.by \in Events /\ Sent(b.by) /\ Exact(b.by, b.turn)
        BY <2>1, <2>2, <2>6, <1>s, <1>f DEF TurnInv
      <4>2. QED
        BY <4>1, <3>1
    <3>4. QED
      BY <3>2, <3>3 DEF TurnInv
  <2>12. QED
    BY <2>9, <2>10, <2>11
<1>6. QED
  BY <1>3, <1>4, <1>5

\* The clock goes on when nothing is due: the windows of queued texts are open.
LEMMA TickCalm ==
  ASSUME Calm, Tick, UNCHANGED late
  PROVE  PromptInv' /\ SettledInv' /\ TurnInv'
<1>f. /\ Events \subseteq Nat /\ now \in Nat /\ Window \in Nat /\ at \in [Events -> Nat]
      /\ \A x \in Events : event[x] # "unseen" => Sent(x)
  BY CalmFacts
<1>1. /\ now' = now + 1 /\ \A m \in Events : ~Pending(m)
      /\ UNCHANGED <<at, hook, event, reason, task, due, run, turn, began, answers, others, human>>
  <2>1. late \in Nat
    BY TurnsAssumption DEF Calm, Inv, Typed, CountsOK
  <2>2. QED
    BY <2>1 DEF Tick, handlerVars
<1>2. ASSUME NEW m \in Events
      PROVE  Prompt(m)'
  <2>p. Prompt(m)
    BY DEF Calm, PromptInv
  <2>1. run[m] = "idle" /\ ~(hook[m] \in {"due", "stored"}) /\ ~Ready(m)
    BY <1>1 DEF Pending
  <2>2. Sent(m) => task[m] # "none"
    BY <2>1, <2>p DEF Prompt
  <2>3. event[m] = "queued" => now' <= at[m] + Window
    <3>1. SUFFICES ASSUME event[m] = "queued"
                   PROVE  now' <= at[m] + Window
      OBVIOUS
    <3>2. task[m] = "live"
      BY <2>2, <3>1, <1>f DEF Calm, Inv, WorkInv, Settled, Typed, TasksOK
    <3>3. due[m] = at[m] + Window /\ ~(due[m] <= now)
      BY <2>1, <2>p, <3>2 DEF Ready, Prompt
    <3>4. QED
      BY <3>3, <1>1, <1>f
  <2>4. QED
    BY <2>p, <2>1, <2>2, <2>3, <1>1 DEF Prompt, Sent
<1>3. PromptInv'
  BY <1>1, <1>2 DEF Calm, PromptInv
<1>4. SettledInv'
  BY <1>1 DEF Calm, SettledInv, StoredTexts, Stored
<1>5. TurnInv'
  <2>1. \A x \in Events : Sent(x)' <=> Sent(x)
    BY <1>1 DEF Sent
  <2>2. QED
    BY <2>1, <1>1, TurnsKept DEF TurnInv
<1>6. QED
  BY <1>3, <1>4, <1>5

LEMMA ExactStep ==
  ASSUME Inv, ExactInv, [Next]_vars
  PROVE  ExactInv'
<1>1. OrderInv' /\ BoundInv'
  BY OrderStep DEF Inv, ExactInv
<1>2. SUFFICES ASSUME Undisturbed'
               PROVE  PromptInv' /\ SettledInv' /\ TurnInv'
  BY <1>1 DEF ExactInv, GroupInv
<1>3. Undisturbed /\ UNCHANGED <<late, steps>>
  BY <1>2, StaysDisturbed DEF Inv
<1>4. Calm
  BY <1>3 DEF Calm, ExactInv, GroupInv
<1>5. ASSUME HumanControl \/ SendOther
      PROVE  FALSE
  <2>1. steps \in Nat
    BY TurnsAssumption DEF Inv, Typed, CountsOK
  <2>2. QED
    BY <1>3, <1>5, <2>1 DEF HumanControl, SendOther
<1>6. CASE UNCHANGED vars
  <2>1. UNCHANGED <<now, at, hook, event, reason, task, due, run, turn, began, answers, others, human>>
    BY <1>6 DEF vars, handlerVars
  <2>2. PromptInv'
    BY <2>1, <1>4 DEF Calm, PromptInv, Prompt, Sent
  <2>3. SettledInv'
    BY <2>1, <1>4 DEF Calm, SettledInv, StoredTexts, Stored
  <2>4. TurnInv'
    <3>1. \A x \in Events : Sent(x)' <=> Sent(x)
      BY <2>1 DEF Sent
    <3>2. QED
      BY <3>1, <2>1, <1>4, TurnsKept DEF TurnInv
  <2>5. QED
    BY <2>2, <2>3, <2>4
<1>7. QED
  BY <1>3, <1>4, <1>5, <1>6, WebhookCalm, HandlerCalm, TickCalm DEF Next

LEMMA ExactInvariance == Spec => []ExactInv
  BY ExactInit, ExactStep, Invariance, PTL DEF Spec

\* Without ties, a text that follows an answered one is later than the answer.
LEMMA LaterThanAnswer ==
  ASSUME Calm, NoTie, NEW a \in answers, NEW n \in Events, a.by < n, Sent(n)
  PROVE  at[n] > a.at
<1>1. /\ Events \subseteq Nat /\ now \in Nat /\ Window \in Nat /\ at \in [Events -> Nat]
      /\ a.by \in Events /\ a.at \in Nat
  BY CalmFacts
<1>2. Exact(a.by, a.turn) /\ a.at = at[a.by] + Window
  BY DEF Calm, TurnInv, SettledInv
<1>3. at[n] # a.at
  BY DEF NoTie, Calm, Undisturbed, Events, Sent
<1>4. QED
  BY <1>1, <1>2, <1>3 DEF Exact

\* Of two answers the later one groups only texts after the earlier one.
LEMMA TurnsApart ==
  ASSUME Calm, NoTie, NEW a \in answers, NEW b \in answers, a.by < b.by
  PROVE  \A m \in a.turn, n \in b.turn : at[n] > at[m] + Window
<1>1. /\ Events \subseteq Nat /\ now \in Nat /\ Window \in Nat /\ at \in [Events -> Nat]
      /\ a.by \in Events /\ a.at \in Nat /\ b.by \in Events /\ Sent(b.by)
  BY CalmFacts
<1>2. Exact(a.by, a.turn) /\ Exact(b.by, b.turn) /\ a.at = at[a.by] + Window
  BY DEF Calm, TurnInv, SettledInv
<1>3. at[b.by] > a.at
  BY <1>1, LaterThanAnswer
<1>4. \A n \in b.turn : n \in Events /\ at[n] > a.at
  BY <1>2, <1>3 DEF Exact, Fresh
<1>5. \A m \in a.turn : m \in Events /\ at[m] <= at[a.by]
  BY <1>2 DEF Exact
<1>6. QED
  BY <1>1, <1>2, <1>4, <1>5

\* A nonempty bounded set of numbers has a greatest one.
LEMMA GreatestExists ==
  ASSUME NEW b \in Nat, NEW Q \in SUBSET (0 .. b), Q # {}
  PROVE  \E k \in Q : \A n \in Q : n <= k
<1> DEFINE S == {b - n : n \in Q}
<1>1. S \subseteq Nat /\ S # {}
  <2>1. \A n \in Q : b - n \in Nat
    OBVIOUS
  <2>2. QED
    BY <2>1
<1>2. PICK d \in S : \A e \in S : <<e, d>> \notin OpToRel(<, Nat)
  <2> HIDE DEF S
  <2>1. QED
    BY <1>1, NatLessThanWellFounded, WFMin
<1>3. PICK k \in Q : d = b - k
  BY <1>2
<1>4. ASSUME NEW n \in Q, n > k
      PROVE  FALSE
  <2>1. b - n \in S /\ b - n \in Nat /\ d \in Nat /\ b - n < d
    BY <1>1, <1>3, <1>4
  <2>2. <<b - n, d>> \in OpToRel(<, Nat)
    BY <2>1 DEF OpToRel
  <2>3. QED
    BY <1>2, <2>1, <2>2
<1>5. QED
  BY <1>4

\* The last text linked to a merged one answers it.
LEMMA NoTextIsLost ==
  ASSUME Calm, BoundInv, NoTie, NEW m \in Texts
  PROVE  ~Lost(m)
<1>f. /\ Events \subseteq Nat /\ now \in Nat /\ Window \in Nat /\ at \in [Events -> Nat]
      /\ \A a \in answers : a.by \in Events /\ a.at \in Nat
      /\ \A a \in answers : Sent(a.by) /\ a.at <= now
      /\ \A x \in Events : event[x] # "unseen" => Sent(x)
  BY CalmFacts
<1>o. \A x, y \in Events : x < y /\ Sent(y) => Sent(x) /\ at[x] <= at[y]
  BY DEF Calm, OrderInv
<1>s. SettledInv /\ TurnInv
  BY DEF Calm
<1>1. SUFFICES ASSUME Lost(m) PROVE FALSE
  OBVIOUS
<1>2. m \in Events /\ reason[m] = "merged" /\ ~Covered(m) /\ event[m] \in Settled
  BY <1>1, <1>s DEF Lost, Events, SettledInv
<1>3. \A x \in Events : x \in StoredTexts <=> event[x] # "unseen"
  BY DEF StoredTexts, Stored, Calm, Undisturbed, Events
<1> DEFINE R == {k \in StoredTexts : m <= k /\ Linked(m, k)}
<1>4. m \in R
  BY <1>2, <1>3, <1>f DEF Linked, Settled
<1>5. R \subseteq Events /\ \A k \in R : Sent(k)
  BY <1>3, <1>f DEF StoredTexts, Stored
<1>6. PICK k \in R : \A n \in R : n <= k
  <2>1. PICK b \in Nat : \A x \in Events : Sent(x) => x <= b
    BY DEF BoundInv
  <2> HIDE DEF R
  <2>2. \A n \in R : n \in 0 .. b
    BY <2>1, <1>5, <1>f
  <2>3. QED
    BY <2>2, <1>4, GreatestExists
<1>7. k \in Events /\ Sent(k) /\ k \in StoredTexts /\ m <= k /\ Linked(m, k)
      /\ k \in Nat /\ m \in Nat
  BY <1>2, <1>5, <1>f
<1> HIDE DEF R
<1>8. event[k] \in Settled
  <2>1. CASE k = m
    BY <2>1, <1>2
  <2>2. CASE m < k
    <3>1. Before(m, k)
      BY <2>2, <1>2, <1>7, <1>o, <1>f DEF Before
    <3>2. QED
      BY <3>1, <1>1, <1>7 DEF Lost, Unsettled, Sent
  <2>3. QED
    BY <2>1, <2>2, <1>2, <1>7, <1>f
<1>9. CASE reason[k] = "merged"
  <2>1. PICK n \in StoredTexts : k < n /\ at[n] <= at[k] + Window
    BY <1>9, <1>7, <1>s DEF SettledInv
  <2>2. n \in Events /\ Sent(n) /\ m <= n
    BY <2>1, <1>2, <1>7, <1>f DEF StoredTexts, Stored
  <2>3. ASSUME NEW j \in Events, m <= j, j < n
        PROVE  \E i \in Events : j < i /\ i <= n /\ at[i] <= at[j] + Window
    <3>1. CASE j < k
      <4>1. PICK i \in Events : j < i /\ i <= k /\ at[i] <= at[j] + Window
        BY <2>3, <3>1, <1>7 DEF Linked
      <4>2. i <= n
        BY <4>1, <2>1, <2>2, <1>7, <1>f
      <4>3. QED
        BY <4>1, <4>2
    <3>2. CASE k <= j
      <4>1. Sent(j)
        BY <2>2, <2>3, <1>o
      <4>2. at[k] <= at[j]
        BY <3>2, <4>1, <2>3, <1>7, <1>o, <1>f
      <4>3. at[n] <= at[j] + Window
        BY <4>2, <2>1, <2>2, <2>3, <1>7, <1>f
      <4>4. QED
        BY <4>3, <2>2, <2>3, <1>f
    <3>3. QED
      BY <3>1, <3>2, <2>3, <1>7, <1>f
  <2>4. n \in R
    BY <2>1, <2>2, <2>3 DEF R, Linked
  <2>5. QED
    BY <2>1, <2>2, <2>4, <1>6, <1>7, <1>f
<1>10. CASE reason[k] = "answered"
  <2>1. PICK a \in answers : a.by = k
    BY <1>10, <1>7, <1>s DEF SettledInv
  <2>2. Exact(k, a.turn) /\ a.at = at[k] + Window
    BY <2>1, <1>s DEF TurnInv, SettledInv
  <2>3. Window > 0
    <3>1. at[k] # a.at
      BY <1>7 DEF NoTie, Sent, Calm, Undisturbed, Events
    <3>2. QED
      BY <3>1, <2>2, <1>7, <1>f
  <2>4. Fresh(m, k)
    <3>1. SUFFICES ASSUME NEW b \in answers, b.at < at[k]
                   PROVE  at[m] > b.at
      BY DEF Fresh
    <3>2. /\ b.by \in Events /\ Sent(b.by) /\ b.at \in Nat
          /\ b.by \in Nat /\ b.at = at[b.by] + Window /\ reason[b.by] = "answered"
      BY <1>f, <1>s DEF SettledInv
    <3>3. b.by # m
      BY <3>2, <1>2
    <3>4. Sent(m)
      BY <1>2, <1>f DEF Settled
    <3>5. CASE b.by < m
      BY <3>4, <3>5, <1>2, LaterThanAnswer
    <3>6. CASE m < b.by
      <4>1. b.by < k
        <5>1. at[b.by] < at[k]
          BY <3>1, <3>2, <1>7, <1>f
        <5>2. ~(k < b.by) /\ k # b.by
          BY <5>1, <3>2, <1>7, <1>o, <1>f
        <5>3. QED
          BY <5>2, <3>2, <1>7
      <4>2. PICK i \in Events : b.by < i /\ i <= k /\ at[i] <= at[b.by] + Window
        BY <3>2, <3>6, <4>1, <1>2, <1>7, <1>f DEF Linked
      <4>3. Sent(i)
        BY <4>2, <1>7, <1>o, <1>f
      <4>4. at[i] > b.at
        BY <4>2, <4>3, LaterThanAnswer
      <4>5. QED
        BY <4>2, <4>4, <3>2, <1>f
    <3>7. QED
      BY <3>2, <3>3, <3>5, <3>6, <1>7
  <2>5. m \in a.turn
    BY <2>2, <2>3, <2>4, <1>2, <1>7 DEF Exact
  <2>6. QED
    BY <2>5, <1>2 DEF Covered
<1>11. QED
  BY <1>7, <1>8, <1>9, <1>10, <1>s DEF SettledInv

\* While deliveries are on time and nobody else writes, every merged text is
\* answered, none twice, and two turns never split texts that are closer than
\* the window (load_inbound_turn, evaluated by the handler of each text).
THEOREM TurnsAreExact == Spec => []TurnsExact
<1>1. ASSUME Inv, ExactInv
      PROVE  TurnsExact
  <2>1. SUFFICES ASSUME Undisturbed, NoTie
                 PROVE  /\ MergedIsAnswered
                        /\ \A a, b \in answers : a # b =>
                             /\ a.turn \cap b.turn = {}
                             /\ \A m \in a.turn, n \in b.turn :
                                  Before(m, n) => at[n] >= at[m] + Window
    BY DEF TurnsExact
  <2>2. Calm /\ BoundInv
    BY <1>1, <2>1 DEF ExactInv, GroupInv, Calm
  <2>3. MergedIsAnswered
    BY <2>1, <2>2, NoTextIsLost DEF MergedIsAnswered
  <2>4. ASSUME NEW a \in answers, NEW b \in answers, a # b
        PROVE  /\ a.turn \cap b.turn = {}
               /\ \A m \in a.turn, n \in b.turn : Before(m, n) => at[n] >= at[m] + Window
    <3>1. /\ Events \subseteq Nat /\ Window \in Nat /\ at \in [Events -> Nat]
          /\ a.by \in Events /\ b.by \in Events /\ a.turn \subseteq Events /\ b.turn \subseteq Events
      BY <2>2, CalmFacts
    <3>2. a.by # b.by
      BY <2>2, <2>4 DEF Calm, SettledInv
    <3>3. CASE a.by < b.by
      <4>1. \A m \in a.turn, n \in b.turn : at[n] > at[m] + Window
        BY <2>1, <2>2, <3>3, TurnsApart
      <4>2. ASSUME NEW m \in a.turn, NEW n \in b.turn
            PROVE  m # n /\ at[n] >= at[m] + Window
        <5>1. at[m] \in Nat /\ at[n] \in Nat /\ at[n] > at[m] + Window
          BY <4>1, <3>1
        <5>2. QED
          BY <5>1, <3>1
      <4>3. QED
        BY <4>2
    <3>4. CASE b.by < a.by
      <4>1. \A m \in b.turn, n \in a.turn : at[n] > at[m] + Window
        BY <2>1, <2>2, <3>4, TurnsApart
      <4>2. ASSUME NEW m \in b.turn, NEW n \in a.turn
            PROVE  m # n /\ ~Before(n, m)
        <5>1. at[m] \in Nat /\ at[n] \in Nat /\ at[n] > at[m] + Window
          BY <4>1, <3>1
        <5>2. QED
          BY <5>1, <3>1 DEF Before
      <4>3. QED
        BY <4>2
    <3>5. QED
      <4>1. a.by \in Nat /\ b.by \in Nat
        BY <3>1
      <4>2. a.by < b.by \/ b.by < a.by
        BY <4>1, <3>2
      <4>3. QED
        BY <4>2, <3>3, <3>4
  <2>5. QED
    BY <2>3, <2>4
<1>2. QED
  BY <1>1, Invariance, ExactInvariance, PTL
=============================================================================

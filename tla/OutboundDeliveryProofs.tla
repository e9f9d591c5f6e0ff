----------------------- MODULE OutboundDeliveryProofs -----------------------
(* Type correctness and the safety invariants of OutboundDelivery, what    *)
(* drives a message that is retried, the limit of the plan, and that       *)
(* OutboundDelivery implements Outbox: for every set of messages,          *)
(* conversations and workers, every sequence and every bound.              *)
EXTENDS OutboundRefinement, FiniteSetTheorems, TLAPS

\* The bounds are natural numbers.
LEMMA Bounds == MaxAttempt \in Nat /\ MaxCrashes \in Nat /\ MaxOps \in Nat
  BY OutboundAssumption

\* The members of the sets of strings, for the provers.
LEMMA Values ==
  /\ "absent" \in RowStatuses /\ "pending" \in RowStatuses
  /\ "sent" \in RowStatuses /\ "failed" \in RowStatuses
  /\ Statuses \subseteq RowStatuses
  /\ {"none", "live", "done"} \subseteq TaskStates
  /\ {"idle", "business", "calling", "accepted", "retry", "next", "ack"} \subseteq WorkerSteps
  /\ {"none", "human_only", "ignore"} \subseteq ExclusionModes
  /\ {"none", "human_only", "waiting"} \subseteq HandoffStatuses
  /\ {"settings", "human_only", "ignore"} = Cancellers
  BY DEF RowStatuses, Statuses, TaskStates, WorkerSteps, ExclusionModes, HandoffStatuses,
     Cancellers

-----------------------------------------------------------------------------
(* Types, one part of TypeOK at a time.                                    *)

\* Every step keeps the types of the rows.
LEMMA RowsTyped == RowsOK /\ WorkersOK /\ [Next]_vars => RowsOK'
<1> SUFFICES ASSUME RowsOK, WorkersOK, [Next]_vars PROVE RowsOK'
  OBVIOUS
<1>1. ASSUME NEW w \in Workers, Worker(w) PROVE RowsOK'
  <2>a. w \in Workers /\ (pc[w] # "idle" => job[w] \in Messages)
    BY DEF WorkersOK
  <2>1. CASE CommitSent(w)
    BY <2>1, <2>a, Values DEF CommitSent, RowsOK
  <2>2. CASE ProviderPermanent(w)
    BY <2>2, <2>a, Values, Bounds DEF ProviderPermanent, RowsOK, Attempts
  <2>3. CASE TakeBusiness(w)
    BY <2>3, Values DEF TakeBusiness, RowsOK
  <2>4. CASE Refused(w)
    BY <2>4, Values DEF Refused, RowsOK
  <2>5. ASSUME NEW m \in Messages, NEW a \in Attempts, Start(w, m, a) PROVE RowsOK'
    BY <2>5, Values DEF Start, StartSkipped, StartBlocked, StartAllowed, RowsOK, rowVars
  <2>6. CASE UNCHANGED rowVars
    BY <2>6 DEF rowVars, RowsOK
  <2>7. QED
    BY <1>1, <2>1, <2>2, <2>3, <2>4, <2>5, <2>6 DEF Worker, ProviderAnswers, ProviderAccepts,
       ProviderTemporary, EnqueueRetry, EnqueueAttempt, EnqueueNext, Acknowledge, Crash,
            WorkerVictim
<1>2. ASSUME NEW m \in Messages, Row(m) PROVE RowsOK'
  <2>1. CASE EnqueueFirst(m)
    BY <2>1 DEF EnqueueFirst, RowsOK, rowVars
  <2>2. CASE EnqueueRetryForEvent(m)
    BY <2>2 DEF EnqueueRetryForEvent, EnqueueAttempt, RowsOK
  <2>3. CASE CreateTurn(m)
    BY <2>3, Values DEF CreateTurn, RowsOK
  <2>4. CASE SendManual(m)
    BY <2>4, Values DEF SendManual, RowsOK, Cancel
  <2>5. ASSUME NEW s \in Statuses, ApplyStatus(m, s) PROVE RowsOK'
    BY <2>5, Values, Bounds DEF ApplyStatus, RetryGranted, RowsOK, Attempts
  <2>6. QED
    BY <1>2, <2>1, <2>2, <2>3, <2>4, <2>5 DEF Row
<1>3. CASE Switches
  <2>1. (status' \in [Messages -> RowStatuses] /\ UNCHANGED <<attempt, seen, retryDue, sends>>)
    BY <1>3, Values DEF Switches, Operator, ToggleOff, ToggleOn, DeleteConversation,
       ExcludeBegin, ExcludeCommit, Include, EntitlementChanges, SettingsOn, SettingsOffBegin,
       SettingsOffCommit, SettingsVictim,
       MarkHumanOnly, WindowExpires, Cancel, RowsOK, rowVars
  <2>2. QED
    BY <2>1 DEF RowsOK
<1>4. CASE UNCHANGED vars
  BY <1>4 DEF vars, rowVars, RowsOK
<1>5. QED
  BY <1>1, <1>2, <1>3, <1>4 DEF Next

\* No action of the operator creates, runs or ends a task.
LEMMA SwitchesKeepTasks == Switches => UNCHANGED <<task, workerVars, crashes>>
  BY DEF Switches, Operator, ToggleOff, ToggleOn, DeleteConversation,
     ExcludeBegin, ExcludeCommit, Include,
     EntitlementChanges, SettingsOn, SettingsOffBegin, SettingsOffCommit, SettingsVictim,
     MarkHumanOnly, WindowExpires, workerVars

\* No action on a row moves a worker.
LEMMA RowKeepsWorkers ==
  ASSUME NEW m \in Messages, Row(m) PROVE UNCHANGED <<workerVars, crashes>>
  BY DEF Row, EnqueueFirst, EnqueueRetryForEvent, EnqueueAttempt, CreateTurn, SendManual,
       ApplyStatus, RetryGranted

\* Creating a task keeps the type of the table of tasks.
LEMMA CreateTaskTyped ==
  ASSUME TasksOK, NEW m \in Messages, NEW a \in Attempts, CreateTask(m, a) PROVE TasksOK'
  BY Values DEF CreateTask, TasksOK

\* Every step keeps the types of the tasks.
LEMMA TasksTyped == RowsOK /\ TasksOK /\ WorkersOK /\ [Next]_vars => TasksOK'
<1> SUFFICES ASSUME RowsOK, TasksOK, WorkersOK, [Next]_vars PROVE TasksOK'
  OBVIOUS
<1>a. CASE UNCHANGED task
  BY <1>a DEF TasksOK
<1>b. 0 \in Attempts /\ \A m \in Messages : attempt[m] \in Attempts
  BY Bounds DEF RowsOK, Attempts
<1>1. ASSUME NEW w \in Workers, Worker(w) PROVE TasksOK'
  <2>a. pc[w] # "idle" => job[w] \in Messages
    BY DEF WorkersOK
  <2>1. CASE EnqueueRetry(w)
    BY <2>1, <2>a, <1>a, <1>b, CreateTaskTyped DEF EnqueueRetry, EnqueueAttempt
  <2>2. CASE EnqueueNext(w)
    <3>1. CASE NextDue(job[w])
      <4>1. Follow[job[w]] \in Messages
        BY <2>2, <3>1, <2>a, OutboundAssumption DEF EnqueueNext, NextDue
      <4>2. QED
        BY <4>1, <3>1, <2>2, <1>b, CreateTaskTyped DEF EnqueueNext
    <3>2. QED
      BY <2>2, <3>1, <1>a DEF EnqueueNext
  <2>3. CASE Acknowledge(w)
    BY <2>3, Values DEF Acknowledge, TasksOK
  <2>4. CASE UNCHANGED task
    BY <2>4, <1>a
  <2>5. QED
    BY <1>1, <2>1, <2>2, <2>3, <2>4 DEF Worker, Start, StartSkipped, StartBlocked, StartAllowed,
       TakeBusiness, ProviderAnswers, Refused, ProviderPermanent, ProviderAccepts,
       ProviderTemporary, CommitSent, Crash, WorkerVictim
<1>2. ASSUME NEW m \in Messages, Row(m) PROVE TasksOK'
  <2>1. CASE EnqueueFirst(m)
    BY <2>1, <1>b, CreateTaskTyped DEF EnqueueFirst
  <2>2. CASE EnqueueRetryForEvent(m)
    BY <2>2, <1>a, <1>b, CreateTaskTyped DEF EnqueueRetryForEvent, EnqueueAttempt
  <2>3. QED
    BY <1>2, <2>1, <2>2, <1>a DEF Row, CreateTurn, SendManual, ApplyStatus, RetryGranted
<1>3. CASE Switches
  BY <1>3, <1>a, SwitchesKeepTasks
<1>4. CASE UNCHANGED vars
  BY <1>4, <1>a DEF vars
<1>5. QED
  BY <1>1, <1>2, <1>3, <1>4 DEF Next

\* Every step keeps the types of the workers; a busy one has a message.
LEMMA WorkersTyped == WorkersOK /\ [Next]_vars => WorkersOK'
<1> SUFFICES ASSUME WorkersOK, [Next]_vars PROVE WorkersOK'
  OBVIOUS
<1>a. CASE UNCHANGED workerVars
  BY <1>a DEF WorkersOK, workerVars
<1>1. ASSUME NEW w \in Workers, Worker(w) PROVE WorkersOK'
  <2>0. 0 \in Attempts
    BY Bounds DEF Attempts
  <2>1. CASE GivesUp(w)
    BY <2>1, <2>0, Values DEF GivesUp, Leaves, WorkersOK
  <2>2. ASSUME NEW m \in Messages, NEW a \in Attempts, Start(w, m, a) PROVE WorkersOK'
    BY <2>2, Values DEF Start, StartSkipped, StartBlocked, StartAllowed, Takes, Leaves, WorkersOK
  <2>3. ASSUME pc[w] # "idle", NEW step \in WorkerSteps, Leaves(w, step), UNCHANGED <<job, nth>>
        PROVE  WorkersOK'
    BY <2>3 DEF Leaves, WorkersOK
  <2>4. QED
    BY <1>1, <2>1, <2>2, <2>3, Values DEF Worker, TakeBusiness, ProviderAnswers, Refused,
       ProviderPermanent, ProviderAccepts, ProviderTemporary, CommitSent, EnqueueRetry,
            EnqueueAttempt,
       EnqueueNext, Acknowledge, Crash, WorkerVictim
<1>2. CASE \E m \in Messages : Row(m)
  BY <1>2, <1>a, RowKeepsWorkers
<1>3. CASE Switches
  BY <1>3, <1>a, SwitchesKeepTasks
<1>4. CASE UNCHANGED vars
  BY <1>4, <1>a DEF vars
<1>5. QED
  BY <1>1, <1>2, <1>3, <1>4 DEF Next

\* No step of a worker touches a switch, nor an operator's transaction.
LEMMA WorkersKeepSwitches ==
  ASSUME NEW w \in Workers, Worker(w) PROVE UNCHANGED <<switchVars, cancelVars, ops>>
  BY DEF Worker, Start, StartSkipped, StartBlocked, StartAllowed, TakeBusiness, ProviderAnswers,
     Refused, ProviderPermanent, ProviderAccepts, ProviderTemporary, CommitSent, EnqueueRetry,
          EnqueueAttempt,
     EnqueueNext, Acknowledge, Crash, WorkerVictim, ControlVars

\* Every step keeps the types of the switches.
LEMMA SwitchesTyped == SwitchesOK /\ CancelsOK /\ [Next]_vars => SwitchesOK'
<1> SUFFICES ASSUME SwitchesOK, CancelsOK, [Next]_vars PROVE SwitchesOK'
  OBVIOUS
<1>a. CASE UNCHANGED switchVars
  BY <1>a DEF SwitchesOK, switchVars
<1>1. CASE \E w \in Workers : Worker(w)
  BY <1>1, <1>a, WorkersKeepSwitches
<1>2. ASSUME NEW m \in Messages, Row(m) PROVE SwitchesOK'
  <2>0. Conv[m] \in Conversations
    BY OutboundAssumption
  <2>1. CASE CreateTurn(m)
    BY <2>1, <2>0, Values DEF CreateTurn, SwitchesOK
  <2>2. CASE SendManual(m)
    BY <2>2, <2>0 DEF SendManual, SwitchesOK
  <2>3. QED
    BY <1>2, <2>1, <2>2, <1>a DEF Row, EnqueueFirst, EnqueueRetryForEvent, EnqueueAttempt,
         ApplyStatus, RetryGranted, ControlVars,
       switchVars
<1>3. CASE Switches
  <2>1. CASE Operator
    <3>1. ASSUME NEW c \in Conversations, ToggleOff(c) \/ ToggleOn(c) \/ DeleteConversation(c)
          PROVE  SwitchesOK'
      BY <3>1, Values DEF ToggleOff, ToggleOn, DeleteConversation, SwitchesOK
    <3>2. ASSUME NEW c \in Conversations, NEW mode \in {"human_only", "ignore"},
                 ExcludeBegin(c, mode)
          PROVE  SwitchesOK'
      BY <3>2, <1>a DEF ExcludeBegin
    <3>3. ASSUME NEW c \in Conversations, Include(c)
          PROVE  SwitchesOK'
      BY <3>3, Values DEF Include, SwitchesOK
    <3>4. CASE EntitlementChanges \/ SettingsOn \/ SettingsOffBegin
      BY <3>4, <1>a DEF EntitlementChanges, SettingsOn, SettingsOffBegin, SwitchesOK
    <3>5. QED
      BY <2>1, <3>1, <3>2, <3>3, <3>4 DEF Operator
  <2>2. ASSUME NEW c \in Conversations, ExcludeCommit(c) PROVE SwitchesOK'
    BY <2>2, Values DEF ExcludeCommit, SwitchesOK, CancelsOK
  <2>3. CASE SettingsVictim
    BY <2>3, <1>a DEF SettingsVictim
  <2>4. QED
    BY <1>3, <2>1, <2>2, <2>3, Values DEF Switches, SettingsOffCommit, MarkHumanOnly,
       WindowExpires, SwitchesOK
<1>4. CASE UNCHANGED vars
  BY <1>4, <1>a DEF vars
<1>5. QED
  BY <1>1, <1>2, <1>3, <1>4 DEF Next

\* Every step keeps the types of the cancelling transactions and of their rows.
LEMMA CancelsTyped == CancelsOK /\ [Next]_vars => CancelsOK'
<1> SUFFICES ASSUME CancelsOK, [Next]_vars PROVE CancelsOK'
  OBVIOUS
<1>a. CASE UNCHANGED cancelVars
  BY <1>a DEF CancelsOK, cancelVars
<1>b. ASSUME NEW S, Appear(S), offScope' \subseteq Messages, exScope' \subseteq Messages
      PROVE  CancelsOK'
  BY <1>b DEF Appear, OpenFor, CancelsOK
<1>1. CASE \E w \in Workers : Worker(w)
  BY <1>1, <1>a, WorkersKeepSwitches
<1>2. ASSUME NEW m \in Messages, Row(m) PROVE CancelsOK'
  <2>1. CASE EnqueueFirst(m) \/ EnqueueRetryForEvent(m)
    BY <2>1, <1>a DEF EnqueueFirst, EnqueueRetryForEvent
  <2>2. CASE CreateTurn(m) \/ SendManual(m)
    BY <2>2, <1>b DEF CreateTurn, SendManual, CancelsOK
  <2>3. ASSUME NEW s \in Statuses, ApplyStatus(m, s) PROVE CancelsOK'
    BY <2>3, <1>a, <1>b DEF ApplyStatus, Reappears, CancelsOK
  <2>4. QED
    BY <1>2, <2>1, <2>2, <2>3 DEF Row
<1>3. CASE Switches
  <2>1. ASSUME NEW c \in Conversations, NEW mode \in {"human_only", "ignore"},
               ExcludeBegin(c, mode)
        PROVE  CancelsOK'
    BY <2>1, Values DEF ExcludeBegin, OfContact, CancelsOK
  <2>2. ASSUME NEW c \in Conversations, ExcludeCommit(c) PROVE CancelsOK'
    BY <2>2, Values DEF ExcludeCommit, CancelsOK
  <2>3. CASE SettingsOffBegin
    BY <2>3 DEF SettingsOffBegin, CancelsOK
  <2>4. CASE SettingsOffCommit \/ SettingsVictim
    BY <2>4 DEF SettingsOffCommit, SettingsVictim, CancelsOK
  <2>5. QED
    BY <1>3, <1>a, <2>1, <2>2, <2>3, <2>4 DEF Switches, Operator, ToggleOff, ToggleOn,
       DeleteConversation, Include, EntitlementChanges, SettingsOn, MarkHumanOnly, WindowExpires
<1>4. CASE UNCHANGED vars
  BY <1>4, <1>a DEF vars
<1>5. QED
  BY <1>1, <1>2, <1>3, <1>4 DEF Next

\* Every step respects the bounds on crashes and operator actions.
LEMMA BoundsTyped == BoundsOK /\ [Next]_vars => BoundsOK'
<1> SUFFICES ASSUME BoundsOK, [Next]_vars PROVE BoundsOK'
  OBVIOUS
<1>1. ASSUME NEW w \in Workers, Worker(w) PROVE BoundsOK'
  <2>1. UNCHANGED ops
    BY <1>1, WorkersKeepSwitches
  <2>2. UNCHANGED crashes \/ (crashes < MaxCrashes /\ crashes' = crashes + 1)
    BY <1>1 DEF Worker, Start, StartSkipped, StartBlocked, StartAllowed, TakeBusiness,
       ProviderAnswers, Refused, ProviderPermanent, ProviderAccepts, ProviderTemporary,
       CommitSent, EnqueueRetry, EnqueueAttempt, EnqueueNext, Acknowledge, Crash, WorkerVictim
  <2>3. QED
    BY <2>1, <2>2, Bounds DEF BoundsOK
<1>2. ASSUME NEW m \in Messages, Row(m) PROVE BoundsOK'
  BY <1>2 DEF Row, EnqueueFirst, EnqueueRetryForEvent, EnqueueAttempt, CreateTurn, SendManual,
       ApplyStatus, RetryGranted,
     ControlVars, BoundsOK
<1>3. CASE Switches
  <2>1. UNCHANGED ops \/ (ops < MaxOps /\ ops' = ops + 1)
    BY <1>3 DEF Switches, Operator, ExcludeCommit, SettingsOffCommit, SettingsVictim,
       MarkHumanOnly, WindowExpires
  <2>2. QED
    BY <2>1, <1>3, SwitchesKeepTasks, Bounds DEF BoundsOK
<1>4. CASE UNCHANGED vars
  BY <1>4 DEF vars, BoundsOK
<1>5. QED
  BY <1>1, <1>2, <1>3, <1>4 DEF Next

\* The initial state is well typed.
LEMMA InitTyped == Init => TypeOK
<1> SUFFICES ASSUME Init PROVE TypeOK
  OBVIOUS
<1>1. RowsOK /\ TasksOK
  BY Values, Bounds DEF Init, RowsOK, TasksOK, Attempts
<1>2. WorkersOK
  BY Values, Bounds DEF Init, WorkersOK, Attempts
<1>3. SwitchesOK /\ CancelsOK /\ BoundsOK
  BY Values, Bounds DEF Init, SwitchesOK, CancelsOK, BoundsOK
<1>4. QED
  BY <1>1, <1>2, <1>3 DEF TypeOK

\* Every reachable state is well typed: statuses and attempts of the rows,
\* tasks per attempt, steps of the workers, switches.
THEOREM TypeCorrect == Spec => []TypeOK
<1>1. TypeOK /\ [Next]_vars => TypeOK'
  BY RowsTyped, TasksTyped, WorkersTyped, SwitchesTyped, CancelsTyped, BoundsTyped DEF TypeOK
<1>2. QED
  BY InitTyped, <1>1, PTL DEF Spec

-----------------------------------------------------------------------------
(* Locks and the hard boundary.                                            *)

\* While a transaction that cancels is open, a message that waits to be sent
\* is among the rows it found, or became pending too late for it.
ScopeInv ==
  /\ settings = "open" => \A m \in Messages \ Manual :
       status[m] = "pending" => m \in offScope \/ "settings" \in late[m]
  /\ \A m \in Messages : excluding[Conv[m]] # "none" /\ status[m] = "pending" =>
       m \in exScope \/ excluding[Conv[m]] \in late[m]

\* A step that brings no row to wait, and leaves the transactions alone.
LEMMA ScopeKept ==
  ASSUME ScopeInv, UNCHANGED cancelVars,
         \A m \in Messages : status'[m] = "pending" => status[m] = "pending"
  PROVE  ScopeInv'
  BY DEF ScopeInv, cancelVars

\* Every row that comes to wait is labelled with the transactions it is too
\* late for, and every transaction that opens finds the rows that wait.
LEMMA ScopeStep == RowsOK /\ WorkersOK /\ CancelsOK /\ ScopeInv /\ [Next]_vars => ScopeInv'
<1> SUFFICES ASSUME RowsOK, WorkersOK, CancelsOK, ScopeInv, [Next]_vars PROVE ScopeInv'
  OBVIOUS
<1>m. \A m \in Messages : Conv[m] \in Conversations
  BY OutboundAssumption
<1>1. ASSUME NEW w \in Workers, Worker(w) PROVE ScopeInv'
  <2>1. UNCHANGED cancelVars
    BY <1>1, WorkersKeepSwitches
  <2>2. pc[w] # "idle" => job[w] \in Messages
    BY DEF WorkersOK
  <2>3. \A m \in Messages : status'[m] = "pending" => status[m] = "pending"
    BY <1>1, <2>2 DEF Worker, Start, StartSkipped, StartBlocked, StartAllowed, TakeBusiness,
       ProviderAnswers, Refused, ProviderPermanent, ProviderAccepts, ProviderTemporary,
       CommitSent, EnqueueRetry, EnqueueNext, Acknowledge, Crash, WorkerVictim, RowsOK, rowVars
  <2>4. QED
    BY <2>1, <2>3, ScopeKept
<1>2. ASSUME NEW m \in Messages, Row(m) PROVE ScopeInv'
  \* The rows of S come to wait, the scopes may lose rows of S.
  <2>a. ASSUME NEW S, Appear(S),
               \A n \in Messages : status'[n] = "pending" => n \in S \/ status[n] = "pending",
               \A n \in Messages \ S : /\ n \in offScope => n \in offScope'
                                       /\ n \in exScope => n \in exScope'
        PROVE  ScopeInv'
    <3>1. settings' = settings /\ excluding' = excluding
      BY <2>a DEF Appear
    <3>2. \A n \in Messages : late'[n] = IF n \in S THEN OpenFor(n) ELSE late[n]
      BY <2>a DEF Appear
    <3>3. ASSUME settings = "open", NEW n \in Messages \ Manual, status'[n] = "pending"
          PROVE  n \in offScope' \/ "settings" \in late'[n]
      <4>1. CASE n \in S
        BY <4>1, <3>2, <3>3, Values DEF OpenFor
      <4>2. CASE n \notin S
        BY <4>2, <3>2, <3>3, <2>a DEF ScopeInv
      <4>3. QED
        BY <4>1, <4>2
    <3>4. ASSUME NEW n \in Messages, excluding[Conv[n]] # "none", status'[n] = "pending"
          PROVE  n \in exScope' \/ excluding[Conv[n]] \in late'[n]
      <4>1. CASE n \in S
        <5>1. excluding[Conv[n]] \in Cancellers
          BY <3>4, <1>m DEF CancelsOK, ExclusionModes, Cancellers
        <5>2. QED
          BY <4>1, <5>1, <3>2 DEF OpenFor
      <4>2. CASE n \notin S
        BY <4>2, <3>2, <3>4, <2>a DEF ScopeInv
      <4>3. QED
        BY <4>1, <4>2
    <3>5. QED
      BY <3>1, <3>3, <3>4 DEF ScopeInv
  <2>1. CASE EnqueueFirst(m) \/ EnqueueRetryForEvent(m)
    BY <2>1, ScopeKept DEF EnqueueFirst, EnqueueRetryForEvent, rowVars
  <2>2. CASE CreateTurn(m)
    <3>1. \A n \in Messages : status'[n] = "pending" => n \in Sequence(m) \/ status[n] = "pending"
      BY <2>2 DEF CreateTurn
    <3>2. QED
      BY <3>1, <2>2, <2>a DEF CreateTurn
  <2>3. CASE SendManual(m)
    <3>1. \A n \in Messages : status'[n] = "pending" => n \in {m} \/ status[n] = "pending"
      BY <2>3 DEF SendManual, Cancel
    <3>2. QED
      BY <3>1, <2>3, <2>a DEF SendManual
  <2>4. ASSUME NEW s \in Statuses, ApplyStatus(m, s) PROVE ScopeInv'
    <3>1. CASE Reappears(m)
      <4>1. \A n \in Messages : status'[n] = "pending" => n \in {m} \/ status[n] = "pending"
        BY <2>4 DEF ApplyStatus, RowsOK
      <4>2. QED
        BY <3>1, <4>1, <2>a DEF Reappears
    <3>2. CASE ~Reappears(m)
      <4>1. UNCHANGED cancelVars
        BY <2>4, <3>2 DEF ApplyStatus
      <4>2. \A n \in Messages : status'[n] = "pending" => status[n] = "pending"
        BY <2>4, <3>2 DEF ApplyStatus, RowsOK, Statuses
      <4>3. QED
        BY <4>1, <4>2, ScopeKept
    <3>3. QED
      BY <3>1, <3>2
  <2>5. QED
    BY <1>2, <2>1, <2>2, <2>3, <2>4 DEF Row
<1>3. CASE Switches
  <2>1. ASSUME NEW c \in Conversations, NEW mode \in {"human_only", "ignore"},
               ExcludeBegin(c, mode)
        PROVE  ScopeInv'
    <3>1. /\ UNCHANGED <<settings, offScope, status>>
          /\ \A d \in Conversations \ {c} : excluding'[d] = excluding[d]
      BY <2>1 DEF ExcludeBegin, CancelsOK, rowVars
    <3>2. \A n \in Messages : /\ "settings" \in late[n] => "settings" \in late'[n]
                              /\ Conv[n] # c => late'[n] = late[n]
                              /\ n \in exScope => n \in exScope'
                              /\ Conv[n] = c /\ status[n] = "pending" => n \in exScope'
      BY <2>1 DEF ExcludeBegin, OfContact
    <3>3. QED
      BY <3>1, <3>2, <1>m DEF ScopeInv
  <2>2. ASSUME NEW c \in Conversations, ExcludeCommit(c) PROVE ScopeInv'
    <3>1. /\ UNCHANGED <<settings, offScope, late>> /\ excluding'[c] = "none"
          /\ \A d \in Conversations \ {c} : excluding'[d] = excluding[d]
          /\ \A n \in Messages : Conv[n] # c /\ n \in exScope => n \in exScope'
          /\ \A n \in Messages : status'[n] = "pending" => status[n] = "pending"
      BY <2>2 DEF ExcludeCommit, OfContact, Cancel, CancelsOK
    <3>2. QED
      BY <3>1, <1>m DEF ScopeInv
  <2>3. CASE SettingsOffBegin
    <3>1. /\ UNCHANGED <<excluding, exScope, status>>
          /\ offScope' = {n \in Messages \ Manual : status[n] = "pending"}
      BY <2>3 DEF SettingsOffBegin, rowVars
    <3>2. \A n \in Messages : \A o \in late[n] : o # "settings" => o \in late'[n]
      BY <2>3 DEF SettingsOffBegin
    <3>3. \A n \in Messages : excluding[Conv[n]] # "settings"
      BY <1>m DEF CancelsOK, ExclusionModes
    <3>4. QED
      BY <3>1, <3>2, <3>3 DEF ScopeInv
  <2>4. CASE SettingsOffCommit \/ SettingsVictim
    <3>1. /\ settings' = "idle" /\ UNCHANGED <<excluding, exScope, late>>
          /\ \A n \in Messages : status'[n] = "pending" => status[n] = "pending"
      BY <2>4 DEF SettingsOffCommit, SettingsVictim, Cancel, rowVars
    <3>2. QED
      BY <3>1 DEF ScopeInv
  <2>5. ASSUME NEW c \in Conversations,
               \/ ToggleOff(c) \/ ToggleOn(c) \/ DeleteConversation(c)
               \/ Include(c) \/ MarkHumanOnly(c) \/ WindowExpires(c)
        PROVE  ScopeInv'
    BY <2>5, ScopeKept DEF ToggleOff, ToggleOn, DeleteConversation, Include, MarkHumanOnly,
       WindowExpires, Cancel, rowVars
  <2>6. CASE EntitlementChanges \/ SettingsOn
    BY <2>6, ScopeKept DEF EntitlementChanges, SettingsOn, rowVars
  <2>7. QED
    BY <1>3, <2>1, <2>2, <2>3, <2>4, <2>5, <2>6 DEF Switches, Operator
<1>4. CASE UNCHANGED vars
  BY <1>4, ScopeKept DEF vars, rowVars
<1>5. QED
  BY <1>1, <1>2, <1>3, <1>4 DEF Next

\* What HardBoundary asks of a message in the hands of a worker.
MayPass(m) ==
  /\ m \in Automatic => /\ enabled[Conv[m]] /\ handoff[Conv[m]] # "human_only"
                        /\ ~suppressed[Conv[m]]
  /\ m \in Automatic /\ ~assistantOn => "settings" \in late[m]
  /\ exclusion[Conv[m]] = "ignore" => "ignore" \in late[m]
  /\ m \in Automatic /\ exclusion[Conv[m]] = "human_only" => "human_only" \in late[m]

LEMMA BoundaryPasses == HardBoundary <=> \A w \in Workers : Sending(w) => MayPass(job[w])
  BY DEF HardBoundary, MayPass

\* Nobody sends at the start, and nothing is being cancelled.
LEMMA LocksInit == Init => OneSenderPerConversation /\ HardBoundary /\ ScopeInv
  BY DEF Init, OneSenderPerConversation, HardBoundary, Sending, ScopeInv

\* While a worker sends, no step of another actor moves its message, nor a
\* switch of its conversation, because each waits for the worker's locks; the
\* switches that wait for rows only commit when it is too late for them.
LEMMA LocksStep ==
  /\ RowsOK /\ WorkersOK /\ SwitchesOK /\ CancelsOK
  /\ OneSenderPerConversation /\ HardBoundary /\ ScopeInv /\ [Next]_vars
  => OneSenderPerConversation' /\ HardBoundary'
<1> SUFFICES ASSUME RowsOK, WorkersOK, SwitchesOK, CancelsOK,
                    OneSenderPerConversation, HardBoundary, ScopeInv, [Next]_vars
             PROVE  OneSenderPerConversation' /\ HardBoundary'
  OBVIOUS
<1>m. \A w \in Workers : Sending(w) => job[w] \in Messages /\ Conv[job[w]] \in Conversations
  BY OutboundAssumption DEF WorkersOK, Sending
<1>p. \A w \in Workers : Sending(w) => MayPass(job[w]) /\ status[job[w]] = "pending"
  BY BoundaryPasses DEF OneSenderPerConversation
\* A step that moves no worker has to leave each sender's message pending
\* and its boundary alone.
<1>a. ASSUME UNCHANGED workerVars,
             \A w \in Workers : Sending(w) =>
               status'[job[w]] = "pending" /\ MayPass(job[w])'
      PROVE  OneSenderPerConversation' /\ HardBoundary'
  BY <1>a DEF OneSenderPerConversation, HardBoundary, MayPass, Sending, workerVars
\* A step that leaves workers, switches and the rows in hand alone.
<1>b. ASSUME UNCHANGED <<workerVars, enabled, handoff, suppressed, exclusion, assistantOn>>,
             \A w \in Workers : Sending(w) =>
               status'[job[w]] = status[job[w]] /\ late'[job[w]] = late[job[w]]
      PROVE  OneSenderPerConversation' /\ HardBoundary'
  BY <1>b, <1>a, <1>p DEF MayPass, workerVars
<1>1. ASSUME NEW w \in Workers, Worker(w) PROVE OneSenderPerConversation' /\ HardBoundary'
  <2>s. UNCHANGED <<enabled, handoff, suppressed, exclusion, assistantOn, late>>
    BY <1>1, WorkersKeepSwitches DEF switchVars, cancelVars
  \* A step of w that leaves its message to itself: w may go on or leave.
  <2>a. ASSUME \A v \in Workers \ {w} : pc'[v] = pc[v] /\ job'[v] = job[v],
               Sending(w)' => Sending(w) /\ job'[w] = job[w] /\ status'[job[w]] = "pending",
               \A m \in Messages : status'[m] = status[m] \/ (Sending(w) /\ m = job[w])
        PROVE  OneSenderPerConversation' /\ HardBoundary'
    BY <2>a, <2>s, <1>m DEF OneSenderPerConversation, HardBoundary, Sending
  <2>1. ASSUME NEW m \in Messages, NEW a \in Attempts, Start(w, m, a)
        PROVE  OneSenderPerConversation' /\ HardBoundary'
    <3>1. /\ job' = [job EXCEPT ![w] = m]
          /\ \A v \in Workers : Sending(v) => Conv[job[v]] # Conv[m] /\ v # w
      BY <2>1 DEF Start, StartSkipped, StartBlocked, StartAllowed, Takes, ConvFree, Sending
    <3>2. CASE StartSkipped(w, m, a) \/ StartBlocked(w, m, a)
      <4>1. pc' = [pc EXCEPT ![w] = "next"] /\ \A n \in Messages \ {m} : status'[n] = status[n]
        BY <3>2 DEF StartSkipped, StartBlocked, Leaves, RowsOK, rowVars
      <4>2. QED
        BY <4>1, <3>1, <2>s, <1>m DEF OneSenderPerConversation, HardBoundary, Sending, WorkersOK
    <3>3. CASE StartAllowed(w, m, a)
      <4>1. /\ \E step \in {"calling", "business"} : pc' = [pc EXCEPT ![w] = step]
            /\ UNCHANGED status /\ status[m] = "pending"
        BY <3>3 DEF StartAllowed, Leaves, rowVars
      <4>2. exclusion[Conv[m]] # "ignore" /\ (m \in Automatic => ~StandardBlock(Conv[m]))
        BY <3>3 DEF StartAllowed, Blocked
      <4>3. OneSenderPerConversation'
        BY <4>1, <3>1, <1>m DEF OneSenderPerConversation, Sending, WorkersOK
      <4>4. HardBoundary'
        BY <4>1, <4>2, <3>1, <2>s, <1>m DEF HardBoundary, Sending, WorkersOK, StandardBlock
      <4>5. QED
        BY <4>3, <4>4
    <3>4. QED
      BY <2>1, <3>2, <3>3 DEF Start
  <2>2. CASE TakeBusiness(w) \/ Refused(w)
    BY <2>2, <2>a, <1>m DEF TakeBusiness, Refused, Leaves, Sending, WorkersOK, RowsOK,
       OneSenderPerConversation
  <2>3. CASE ProviderPermanent(w) \/ ProviderAccepts(w)
    BY <2>3, <2>a, <1>m DEF ProviderPermanent, ProviderAccepts, Leaves, Sending, WorkersOK,
       RowsOK, OneSenderPerConversation, rowVars
  <2>4. CASE CommitSent(w)
    BY <2>4, <2>a, <1>m DEF CommitSent, Leaves, Sending, WorkersOK, RowsOK
  <2>5. CASE EnqueueRetry(w) \/ EnqueueNext(w)
    BY <2>5, <2>a DEF EnqueueRetry, EnqueueAttempt, EnqueueNext, Leaves, Sending, WorkersOK,
         rowVars
  <2>6. CASE GivesUp(w) /\ UNCHANGED rowVars
    BY <2>6, <2>a DEF GivesUp, Leaves, Sending, WorkersOK, rowVars
  <2>7. QED
    BY <1>1, <2>1, <2>2, <2>3, <2>4, <2>5, <2>6 DEF Worker, ProviderAnswers, ProviderTemporary,
       Acknowledge, Crash, WorkerVictim
<1>2. ASSUME NEW m \in Messages, Row(m) PROVE OneSenderPerConversation' /\ HardBoundary'
  <2>w. UNCHANGED workerVars
    BY <1>2, RowKeepsWorkers
  <2>1. CASE EnqueueFirst(m) \/ EnqueueRetryForEvent(m)
    BY <2>1, <1>b DEF EnqueueFirst, EnqueueRetryForEvent, rowVars, switchVars, cancelVars
  <2>2. CASE CreateTurn(m) \/ SendManual(m)
    <3>1. ASSUME NEW w \in Workers, Sending(w) PROVE status'[job[w]] = "pending" /\ MayPass(job[w])'
      <4>1. Conv[job[w]] # Conv[m]
        BY <2>2, <3>1 DEF CreateTurn, SendManual, ConvFree
      <4>2. status'[job[w]] = "pending" /\ late'[job[w]] = late[job[w]]
        <5>1. job[w] \notin Sequence(m) /\ job[w] # m /\ job[w] \notin PendingOf(Conv[m])
          BY <3>1, <4>1, <1>m, OutboundAssumption DEF Sequence, PendingOf
        <5>2. CASE CreateTurn(m)
          BY <5>1, <5>2, <3>1, <1>m, <1>p DEF CreateTurn, Appear
        <5>3. CASE SendManual(m)
          BY <5>1, <5>3, <3>1, <1>m, <1>p DEF SendManual, Appear, Cancel
        <5>4. QED
          BY <2>2, <5>2, <5>3
      <4>3. LET c == Conv[job[w]] IN
              /\ enabled'[c] = enabled[c] /\ handoff'[c] = handoff[c]
              /\ suppressed'[c] = suppressed[c] /\ exclusion'[c] = exclusion[c]
              /\ assistantOn' = assistantOn
        BY <2>2, <3>1, <4>1, <1>m DEF CreateTurn, SendManual, SwitchesOK
      <4>4. QED
        BY <4>2, <4>3, <3>1, <2>w, <1>p DEF MayPass, workerVars
    <3>2. QED
      BY <3>1, <2>w, <1>a
  <2>3. ASSUME NEW s \in Statuses, ApplyStatus(m, s)
        PROVE  OneSenderPerConversation' /\ HardBoundary'
    <3>1. ASSUME NEW w \in Workers, Sending(w)
          PROVE  status'[job[w]] = status[job[w]] /\ late'[job[w]] = late[job[w]]
      <4>1. job[w] # m
        BY <2>3, <3>1 DEF ApplyStatus, RowFree
      <4>2. status'[job[w]] = status[job[w]]
        BY <2>3, <4>1, <3>1, <1>m DEF ApplyStatus, RowsOK
      <4>3. late'[job[w]] = late[job[w]]
        BY <2>3, <4>1, <3>1, <1>m DEF ApplyStatus, Reappears, Appear, cancelVars
      <4>4. QED
        BY <4>2, <4>3
    <3>2. QED
      BY <2>3, <3>1, <2>w, <1>b DEF ApplyStatus, switchVars
  <2>4. QED
    BY <1>2, <2>1, <2>2, <2>3 DEF Row
<1>3. CASE Switches
  <2>w. UNCHANGED workerVars
    BY <1>3, SwitchesKeepTasks
  <2>1. ASSUME NEW c \in Conversations,
               ToggleOff(c) \/ ToggleOn(c) \/ DeleteConversation(c) \/ MarkHumanOnly(c)
        PROVE OneSenderPerConversation' /\ HardBoundary'
    <3>1. ASSUME NEW w \in Workers, Sending(w) PROVE status'[job[w]] = "pending" /\ MayPass(job[w])'
      <4>1. Conv[job[w]] # c /\ UNCHANGED <<assistantOn, late>>
        BY <2>1, <3>1 DEF ToggleOff, ToggleOn, DeleteConversation, MarkHumanOnly, ConvFree,
           cancelVars
      <4>2. \A d \in Conversations \ {c} :
              /\ enabled'[d] = enabled[d] /\ handoff'[d] = handoff[d]
              /\ suppressed'[d] = suppressed[d] /\ exclusion'[d] = exclusion[d]
        BY <2>1 DEF ToggleOff, ToggleOn, DeleteConversation, MarkHumanOnly, SwitchesOK
      <4>3. \A m \in Messages : Conv[m] # c => status'[m] = status[m]
        BY <2>1 DEF ToggleOff, ToggleOn, DeleteConversation, MarkHumanOnly, Cancel, PendingOf,
           rowVars
      <4>4. QED
        BY <4>1, <4>2, <4>3, <3>1, <2>w, <1>m, <1>p DEF workerVars, MayPass
    <3>2. QED
      BY <3>1, <2>w, <1>a
  <2>2. ASSUME NEW c \in Conversations, NEW mode \in {"human_only", "ignore"},
               ExcludeBegin(c, mode)
        PROVE OneSenderPerConversation' /\ HardBoundary'
    \* The label that is taken off is of a mode the contact is not in yet.
    <3>1. ASSUME NEW w \in Workers, Sending(w) PROVE status'[job[w]] = "pending" /\ MayPass(job[w])'
      <4>1. /\ UNCHANGED <<status, enabled, handoff, suppressed, exclusion, assistantOn>>
            /\ exclusion[c] # mode
        BY <2>2 DEF ExcludeBegin, rowVars, switchVars
      <4>2. /\ Conv[job[w]] # c => late'[job[w]] = late[job[w]]
            /\ late'[job[w]] \in {late[job[w]], late[job[w]] \ {mode}}
        BY <2>2, <3>1, <1>m DEF ExcludeBegin
      <4>3. QED
        BY <4>1, <4>2, <2>2, <3>1, <2>w, <1>m, <1>p DEF workerVars, MayPass
    <3>2. QED
      BY <3>1, <2>w, <1>a
  <2>3. ASSUME NEW c \in Conversations, ExcludeCommit(c)
        PROVE OneSenderPerConversation' /\ HardBoundary'
    <3>1. ASSUME NEW w \in Workers, Sending(w) PROVE status'[job[w]] = "pending" /\ MayPass(job[w])'
      \* A sender's message is not among the rows found, so it came too late.
      <4>1. Conv[job[w]] = c => job[w] \notin exScope /\ excluding[c] \in late[job[w]]
        BY <2>3, <3>1, <1>m, <1>p DEF ExcludeCommit, RowFree, ScopeInv
      <4>2. status'[job[w]] = "pending"
        BY <2>3, <3>1, <4>1, <1>m, <1>p DEF ExcludeCommit, Cancel, OfContact
      <4>3. /\ UNCHANGED <<enabled, suppressed, assistantOn, late>>
            /\ \A d \in Conversations \ {c} : exclusion'[d] = exclusion[d]
            /\ exclusion'[c] = excluding[c]
            /\ \A d \in Conversations : handoff'[d] = "human_only" => handoff[d] = "human_only"
        BY <2>3 DEF ExcludeCommit, SwitchesOK
      <4>4. QED
        BY <4>1, <4>2, <4>3, <3>1, <2>w, <1>m, <1>p DEF workerVars, MayPass
    <3>2. QED
      BY <3>1, <2>w, <1>a
  <2>4. ASSUME NEW c \in Conversations, Include(c) \/ WindowExpires(c)
        PROVE OneSenderPerConversation' /\ HardBoundary'
    <3>1. ASSUME NEW w \in Workers, Sending(w) PROVE status'[job[w]] = "pending" /\ MayPass(job[w])'
      <4>1. \A d \in Conversations :
              /\ enabled'[d] = enabled[d]
              /\ handoff'[d] = "human_only" => handoff[d] = "human_only"
              /\ suppressed'[d] => suppressed[d]
              /\ exclusion'[d] # "none" => exclusion'[d] = exclusion[d]
        BY <2>4 DEF Include, WindowExpires, SwitchesOK
      <4>2. UNCHANGED <<status, assistantOn, late>>
        BY <2>4 DEF Include, WindowExpires, rowVars, cancelVars
      <4>3. QED
        BY <4>1, <4>2, <3>1, <2>w, <1>m, <1>p DEF workerVars, MayPass
    <3>2. QED
      BY <3>1, <2>w, <1>a
  <2>5. CASE SettingsOn
    BY <2>5, <2>w, <1>a, <1>p DEF workerVars, SettingsOn, MayPass, rowVars, cancelVars
  <2>6. CASE SettingsOffBegin
    <3>1. ASSUME NEW w \in Workers, Sending(w) PROVE status'[job[w]] = "pending" /\ MayPass(job[w])'
      <4>1. /\ UNCHANGED <<status, enabled, handoff, suppressed, exclusion, assistantOn>>
            /\ ~assistantOn => late' = late
            /\ late'[job[w]] \in {late[job[w]], late[job[w]] \ {"settings"}}
        BY <2>6, <3>1, <1>m DEF SettingsOffBegin, rowVars, switchVars
      <4>2. QED
        BY <4>1, <3>1, <2>w, <1>m, <1>p DEF workerVars, MayPass
    <3>2. QED
      BY <3>1, <2>w, <1>a
  <2>7. CASE SettingsOffCommit
    <3>1. ASSUME NEW w \in Workers, Sending(w) PROVE status'[job[w]] = "pending" /\ MayPass(job[w])'
      <4>1. job[w] \notin offScope /\ (job[w] \in Manual \/ "settings" \in late[job[w]])
        BY <2>7, <3>1, <1>m, <1>p DEF SettingsOffCommit, RowFree, ScopeInv
      <4>2. /\ status'[job[w]] = "pending"
            /\ UNCHANGED <<enabled, handoff, suppressed, exclusion, late>>
        BY <2>7, <3>1, <4>1, <1>m, <1>p DEF SettingsOffCommit, Cancel
      <4>3. QED
        BY <4>1, <4>2, <3>1, <2>w, <1>p DEF workerVars, MayPass, Automatic
    <3>2. QED
      BY <3>1, <2>w, <1>a
  <2>8. CASE EntitlementChanges \/ SettingsVictim
    BY <2>8, <2>w, <1>b DEF EntitlementChanges, SettingsVictim, rowVars, switchVars, cancelVars
  <2>9. QED
    BY <1>3, <2>1, <2>2, <2>3, <2>4, <2>5, <2>6, <2>7, <2>8 DEF Switches, Operator
<1>4. CASE UNCHANGED vars
  BY <1>4, <1>b DEF vars, rowVars, switchVars, cancelVars
<1>5. QED
  BY <1>1, <1>2, <1>3, <1>4 DEF Next

\* The locks, the boundary and the rows of the open transactions together.
LEMMA LocksHold == Spec => [](OneSenderPerConversation /\ HardBoundary /\ ScopeInv)
<1>1. /\ TypeOK /\ OneSenderPerConversation /\ HardBoundary /\ ScopeInv /\ [Next]_vars
      => OneSenderPerConversation' /\ HardBoundary' /\ ScopeInv'
  BY LocksStep, ScopeStep DEF TypeOK
<1>2. QED
  BY LocksInit, <1>1, TypeCorrect, PTL DEF Spec

\* Row locks: one worker per conversation is between its check and its
\* commit, and its message stays pending until it commits.
THEOREM OneSender == Spec => []OneSenderPerConversation
  BY LocksHold, PTL

\* The boundary of lock_message: no automatic message is being sent in a
\* conversation whose own switches forbid it, and past the switch of the
\* business or an exclusion goes no message but one that became pending while
\* the transaction that cancels was open, after it had looked for its rows.
THEOREM BoundaryHolds == Spec => []HardBoundary
  BY LocksHold, PTL

-----------------------------------------------------------------------------
(* The budget of sends and the order of a sequence.                        *)

\* What SendBudget and SequenceOrder rest on: a row that counts as delivered
\* was sent, a row not yet written was not, a sequence is written whole, and a
\* worker has a task that was created for it.
RowHistory ==
  /\ \A m \in Messages :
       /\ status[m] = "absent" => sends[m] = 0
       /\ status[m] \in Delivered => sends[m] > 0
       /\ status[Lead[m]] = "absent" => status[m] = "absent"
  /\ \A w \in Workers : pc[w] # "idle" => task[job[w]][nth[w]] # "none"

HistoryInv == SendBudget /\ RowHistory

\* Nothing was sent at the start and no follow-up has a task.
LEMMA HistoryInit == Init => HistoryInv /\ SequenceOrder
<1> SUFFICES ASSUME Init PROVE HistoryInv /\ SequenceOrder
  OBVIOUS
<1>1. HistoryInv
  BY OutboundAssumption DEF Init, HistoryInv, SendBudget, RowHistory, Delivered
<1>2. SequenceOrder
  BY OutboundAssumption, Bounds DEF Init, SequenceOrder, Attempts
<1>3. QED
  BY <1>1, <1>2

\* Cancelling a pending row adds no send and leaves it written.
LEMMA SwitchesKeepHistory ==
  Switches => /\ UNCHANGED <<attempt, sends>>
              /\ \A m \in Messages : \/ status'[m] = status[m]
                                     \/ status[m] = "pending" /\ status'[m] = "failed"
<1> DEFINE Cancels == \A m \in Messages : \/ status'[m] = status[m]
                                          \/ status[m] = "pending" /\ status'[m] = "failed"
<1>1. Switches => UNCHANGED <<attempt, sends>>
  BY DEF Switches, Operator, ToggleOff, ToggleOn, DeleteConversation,
     ExcludeBegin, ExcludeCommit, Include,
     EntitlementChanges, SettingsOn, SettingsOffBegin, SettingsOffCommit, SettingsVictim,
     MarkHumanOnly, WindowExpires, rowVars
<1>2. ASSUME NEW S, status' = Cancel(S) PROVE Cancels
  BY <1>2 DEF Cancel
<1>3. UNCHANGED status => Cancels
  OBVIOUS
<1>4. Operator => Cancels
  BY <1>2, <1>3 DEF Operator, ToggleOff, ToggleOn, DeleteConversation,
     ExcludeBegin, ExcludeCommit, Include,
     EntitlementChanges, SettingsOn, SettingsOffBegin, rowVars
<1>5. Switches => Cancels
  BY <1>2, <1>3, <1>4 DEF Switches, ExcludeCommit, SettingsOffCommit, SettingsVictim,
     MarkHumanOnly, WindowExpires, rowVars
<1>6. QED
  BY <1>1, <1>5

\* Every step keeps the budget: a send is committed for a pending row, which
\* has a retry left, and no other transaction moves that row.
LEMMA HistoryStep ==
  RowsOK /\ TasksOK /\ WorkersOK /\ OneSenderPerConversation /\ HistoryInv /\ [Next]_vars => HistoryInv'
<1> SUFFICES ASSUME RowsOK, TasksOK, WorkersOK, OneSenderPerConversation, HistoryInv, [Next]_vars
             PROVE  HistoryInv'
  OBVIOUS
<1> DEFINE Rows == \A m \in Messages :
             /\ sends[m] <= attempt[m] + 1
             /\ status[m] = "pending" => sends[m] <= attempt[m]
             /\ status[m] = "absent" => sends[m] = 0
             /\ status[m] \in Delivered => sends[m] > 0
             /\ status[Lead[m]] = "absent" => status[m] = "absent"
           Taken == \A w \in Workers : pc[w] # "idle" => task[job[w]][nth[w]] # "none"
<1>i. Rows /\ Taken
  BY DEF HistoryInv, SendBudget, RowHistory
<1>n. /\ \A m \in Messages : attempt[m] \in Nat /\ sends[m] \in Nat
      /\ \A m \in Messages : Lead[m] \in Messages
  BY Bounds, OutboundAssumption DEF RowsOK, Attempts
<1>t. TasksOK'
  BY TasksTyped
<1>p. \A w \in Workers : /\ pc[w] # "idle" => job[w] \in Messages
                         /\ Sending(w) => status[job[w]] = "pending"
  BY DEF WorkersOK, OneSenderPerConversation
\* Tasks are created and acknowledged, never forgotten.
<1>1. \A m \in Messages, a \in Attempts : task[m][a] # "none" => task'[m][a] # "none"
  <2>1. CASE UNCHANGED task
    BY <2>1
  <2>2. ASSUME NEW m \in Messages, NEW a \in Attempts, CreateTask(m, a)
        PROVE \A n \in Messages, b \in Attempts : task[n][b] # "none" => task'[n][b] # "none"
    BY <2>2 DEF CreateTask, TasksOK
  <2>3. ASSUME NEW w \in Workers, Acknowledge(w)
        PROVE \A n \in Messages, b \in Attempts : task[n][b] # "none" => task'[n][b] # "none"
    BY <2>3 DEF Acknowledge, TasksOK, WorkersOK
  <2>4. ASSUME NEW w \in Workers, EnqueueRetry(w) \/ EnqueueNext(w)
        PROVE UNCHANGED task \/ \E m \in Messages, a \in Attempts : CreateTask(m, a)
    <3>1. job[w] \in Messages /\ attempt[job[w]] \in Attempts /\ 0 \in Attempts
      BY <2>4, <1>p, Bounds DEF EnqueueRetry, EnqueueAttempt, EnqueueNext, RowsOK, Attempts
    <3>2. Follow[job[w]] = NoMsg \/ Follow[job[w]] \in Messages
      BY <3>1, OutboundAssumption
    <3>3. QED
      BY <2>4, <3>1, <3>2 DEF EnqueueRetry, EnqueueAttempt, EnqueueNext, NextDue
  <2>5. ASSUME NEW m \in Messages, EnqueueFirst(m) \/ EnqueueRetryForEvent(m)
        PROVE UNCHANGED task \/ \E a \in Attempts : CreateTask(m, a)
    BY <2>5, Bounds DEF EnqueueFirst, EnqueueRetryForEvent, EnqueueAttempt, RowsOK, Attempts
  <2>6. ASSUME NEW w \in Workers, Worker(w)
        PROVE UNCHANGED task \/ Acknowledge(w) \/ EnqueueRetry(w) \/ EnqueueNext(w)
    BY <2>6 DEF Worker, Start, StartSkipped, StartBlocked, StartAllowed, TakeBusiness,
       ProviderAnswers, Refused, ProviderPermanent, ProviderAccepts, ProviderTemporary,
       CommitSent, Crash, WorkerVictim
  <2>7. ASSUME NEW m \in Messages, Row(m)
        PROVE UNCHANGED task \/ EnqueueFirst(m) \/ EnqueueRetryForEvent(m)
    BY <2>7 DEF Row, CreateTurn, SendManual, ApplyStatus, RetryGranted
  <2>8. Switches => UNCHANGED task
    BY SwitchesKeepTasks
  <2>9. UNCHANGED vars => UNCHANGED task
    BY DEF vars
  <2>10. QED
    BY <2>1, <2>2, <2>3, <2>4, <2>5, <2>6, <2>7, <2>8, <2>9 DEF Next
<1>2. Taken'
  <2>1. CASE UNCHANGED workerVars
    BY <2>1, <1>1, <1>i DEF workerVars, WorkersOK
  <2>2. ASSUME NEW w \in Workers, Worker(w) PROVE Taken'
    <3>1. ASSUME NEW m \in Messages, NEW a \in Attempts, Start(w, m, a) PROVE Taken'
      <4>1. /\ task[m][a] = "live"
            /\ job' = [job EXCEPT ![w] = m] /\ nth' = [nth EXCEPT ![w] = a]
            /\ \A v \in Workers \ {w} : pc'[v] = pc[v]
        BY <3>1 DEF Start, StartSkipped, StartBlocked, StartAllowed, Takes, Leaves, WorkersOK
      <4>2. QED
        BY <4>1, <1>1, <1>i DEF WorkersOK
    <3>2. CASE GivesUp(w)
      BY <3>2, <1>1, <1>i DEF GivesUp, Leaves, WorkersOK
    <3>3. CASE /\ pc[w] # "idle" /\ UNCHANGED <<job, nth>>
               /\ \A v \in Workers \ {w} : pc'[v] = pc[v]
      BY <3>3, <1>1, <1>i DEF WorkersOK
    <3>4. QED
      BY <2>2, <3>1, <3>2, <3>3 DEF Worker, TakeBusiness, ProviderAnswers, Refused,
         ProviderPermanent, ProviderAccepts, ProviderTemporary, CommitSent, EnqueueRetry,
              EnqueueAttempt,
         EnqueueNext, Acknowledge, Crash, WorkerVictim, Leaves, WorkersOK
  <2>3. CASE \E m \in Messages : Row(m)
    BY <2>3, <2>1, RowKeepsWorkers
  <2>4. CASE Switches
    BY <2>4, <2>1, SwitchesKeepTasks
  <2>5. QED
    BY <2>1, <2>2, <2>3, <2>4 DEF Next, vars
<1>3. Rows'
  <2>a. CASE UNCHANGED <<status, attempt, sends>>
    BY <2>a, <1>i
  \* A written row may fail; nothing else of it changes.
  <2>b. ASSUME UNCHANGED <<attempt, sends>>,
               \A m \in Messages : status'[m] = status[m] \/ (status[m] # "absent" /\ status'[m] = "failed")
        PROVE  Rows'
    BY <2>b, <1>i, <1>n DEF Delivered
  <2>1. ASSUME NEW w \in Workers, Worker(w) PROVE Rows'
    <3>1. ASSUME NEW m \in Messages, NEW a \in Attempts, Start(w, m, a) PROVE Rows'
      BY <3>1, <2>b DEF Start, StartSkipped, StartBlocked, StartAllowed, rowVars, RowsOK
    <3>2. CASE TakeBusiness(w) \/ Refused(w)
      BY <3>2, <2>b, <1>p DEF TakeBusiness, Refused, Sending, RowsOK
    <3>3. CASE ProviderPermanent(w)
      BY <3>3, <1>p, <1>i, <1>n DEF ProviderPermanent, Sending, RowsOK, Delivered
    <3>4. CASE CommitSent(w)
      BY <3>4, <1>p, <1>i, <1>n DEF CommitSent, Sending, RowsOK, Delivered
    <3>5. CASE UNCHANGED rowVars
      BY <3>5, <2>a DEF rowVars
    <3>6. QED
      BY <2>1, <3>1, <3>2, <3>3, <3>4, <3>5 DEF Worker, ProviderAnswers, ProviderAccepts,
         ProviderTemporary, EnqueueRetry, EnqueueAttempt, EnqueueNext, Acknowledge, Crash,
              WorkerVictim
  <2>2. ASSUME NEW m \in Messages, Row(m) PROVE Rows'
    <3>1. CASE EnqueueFirst(m) \/ EnqueueRetryForEvent(m)
      BY <3>1, <2>a DEF EnqueueFirst, EnqueueRetryForEvent, EnqueueAttempt, rowVars
    <3>2. CASE CreateTurn(m)
      <4>1. /\ \A n \in Messages : Lead[n] = m => status[n] = "absent"
            /\ UNCHANGED <<attempt, sends>>
            /\ \A n \in Messages : status'[n] = IF Lead[n] = m THEN "pending" ELSE status[n]
        BY <3>2, <1>i DEF CreateTurn, Sequence
      <4>2. \A n \in Messages : Lead[Lead[n]] = Lead[n]
        BY OutboundAssumption
      <4>3. QED
        BY <4>1, <4>2, <1>i, <1>n DEF Delivered
    <3>3. CASE SendManual(m)
      <4>1. /\ UNCHANGED <<attempt, sends>> /\ status[m] = "absent" /\ status'[m] = "pending"
            /\ \A n \in Messages \ {m} :
                 status'[n] = status[n] \/ (status[n] # "absent" /\ status'[n] = "failed")
        BY <3>3 DEF SendManual, Cancel
      <4>2. \A n \in Messages : (Lead[n] = m \/ n = m) => Lead[n] = n
        BY <3>3, OutboundAssumption DEF SendManual
      <4>3. QED
        BY <4>1, <4>2, <1>i, <1>n DEF Delivered
    <3>4. ASSUME NEW s \in Statuses, ApplyStatus(m, s) PROVE Rows'
      <4>1. sends[m] > 0 /\ status[m] # "absent" /\ s \notin {"absent",
           "pending"} /\ UNCHANGED sends
        BY <3>4, <1>i, <1>n DEF ApplyStatus, RetryGranted, Statuses
      <4>2. CASE UNCHANGED <<status, attempt>>
        BY <4>1, <4>2, <2>a
      <4>3. CASE attempt' = [attempt EXCEPT ![m] = @ + 1] /\ status' = [status EXCEPT ![m] = "pending"]
        BY <4>1, <4>3, <1>i, <1>n DEF RowsOK, Delivered
      <4>4. CASE UNCHANGED attempt /\ status' = [status EXCEPT ![m] = s]
        BY <4>1, <4>4, <1>i, <1>n DEF RowsOK, Delivered
      <4>5. QED
        BY <3>4, <4>2, <4>3, <4>4 DEF ApplyStatus, RetryGranted
    <3>5. QED
      BY <2>2, <3>1, <3>2, <3>3, <3>4 DEF Row
  <2>3. CASE Switches
    BY <2>3, <2>b, SwitchesKeepHistory
  <2>4. CASE UNCHANGED vars
    BY <2>4, <2>a DEF vars, rowVars
  <2>5. QED
    BY <2>1, <2>2, <2>3, <2>4 DEF Next
<1>4. QED
  BY <1>2, <1>3 DEF HistoryInv, SendBudget, RowHistory

\* One budget of retries for both ways a failure is reported: a message is
\* never sent more often than it was granted, and one more time.
THEOREM BudgetKept == Spec => []SendBudget
<1>1. TypeOK /\ OneSenderPerConversation /\ HistoryInv /\ [Next]_vars => HistoryInv'
  BY HistoryStep DEF TypeOK
<1>2. HistoryInv => SendBudget
  BY DEF HistoryInv
<1>3. Init => HistoryInv
  BY HistoryInit
<1>4. QED
  BY <1>1, <1>2, <1>3, OneSender, TypeCorrect, PTL DEF Spec

\* What has failed stays so until it is sent again.
LEMMA FailedStays ==
  ASSUME RowsOK, WorkersOK, OneSenderPerConversation, HistoryInv, [Next]_vars,
         NEW m \in Messages, status[m] = "failed", sends[m] = 0
  PROVE  status'[m] = "failed"
<1>1. ASSUME NEW w \in Workers, Worker(w) PROVE status'[m] = "failed"
  <2>1. Sending(w) => job[w] # m
    BY DEF OneSenderPerConversation
  <2>2. CASE TakeBusiness(w) \/ Refused(w) \/ ProviderPermanent(w) \/ CommitSent(w)
    BY <2>2, <2>1 DEF TakeBusiness, Refused, ProviderPermanent, CommitSent, Sending, RowsOK
  <2>3. ASSUME NEW n \in Messages, NEW a \in Attempts, Start(w, n, a) PROVE status'[m] = "failed"
    BY <2>3 DEF Start, StartSkipped, StartBlocked, StartAllowed, rowVars, RowsOK
  <2>4. QED
    BY <1>1, <2>2, <2>3 DEF Worker, ProviderAnswers, ProviderAccepts, ProviderTemporary,
       EnqueueRetry, EnqueueNext, Acknowledge, Crash, WorkerVictim, rowVars
<1>2. ASSUME NEW k \in Messages, Row(k) PROVE status'[m] = "failed"
  <2>1. CASE CreateTurn(k)
    <3>1. m \notin Sequence(k)
      BY <2>1 DEF CreateTurn, Sequence, HistoryInv, RowHistory
    <3>2. QED
      BY <2>1, <3>1 DEF CreateTurn
  <2>2. CASE SendManual(k)
    BY <2>2 DEF SendManual, Cancel, RowsOK
  <2>3. ASSUME NEW s \in Statuses, ApplyStatus(k, s) PROVE status'[m] = "failed"
    BY <2>3 DEF ApplyStatus, RowsOK
  <2>4. QED
    BY <1>2, <2>1, <2>2, <2>3 DEF Row, EnqueueFirst, EnqueueRetryForEvent, rowVars
<1>3. CASE Switches
  BY <1>3 DEF Switches, Operator, ToggleOff, ToggleOn, DeleteConversation,
     ExcludeBegin, ExcludeCommit, Include,
     EntitlementChanges, SettingsOn, SettingsOffBegin, SettingsOffCommit, SettingsVictim,
     MarkHumanOnly, WindowExpires, Cancel, rowVars, RowsOK
<1>4. QED
  BY <1>1, <1>2, <1>3 DEF Next, vars, rowVars

\* A first task is created by its predecessor, and what that rested on stays.
LEMMA SequenceStep ==
  /\ RowsOK /\ TasksOK /\ WorkersOK /\ OneSenderPerConversation
  /\ HistoryInv /\ SequenceOrder /\ [Next]_vars
  => SequenceOrder'
<1> SUFFICES ASSUME RowsOK, TasksOK, WorkersOK, OneSenderPerConversation, HistoryInv,
                    SequenceOrder, [Next]_vars
             PROVE  SequenceOrder'
  OBVIOUS
<1>f. 0 \in Attempts /\ \A m \in Messages : sends[m] \in Nat /\ attempt[m] \in Nat
  BY Bounds DEF RowsOK, Attempts
<1>g. \A m \in Messages : Follow[m] = NoMsg \/ Follow[m] \in Messages
  BY OutboundAssumption
<1>p. \A w \in Workers : pc[w] # "idle" => job[w] \in Messages
  BY DEF WorkersOK
\* No step takes a send back.
<1>1. \A m \in Messages : sends[m] > 0 => sends'[m] > 0
  <2>1. ASSUME NEW w \in Workers, Worker(w) PROVE UNCHANGED sends \/ CommitSent(w)
    BY <2>1 DEF Worker, Start, StartSkipped, StartBlocked, StartAllowed, TakeBusiness,
       ProviderAnswers, Refused, ProviderPermanent, ProviderAccepts, ProviderTemporary,
       EnqueueRetry, EnqueueAttempt, EnqueueNext, Acknowledge, Crash, WorkerVictim, rowVars
  <2>2. ASSUME NEW w \in Workers,
       CommitSent(w) PROVE \A m \in Messages : sends[m] > 0 => sends'[m] > 0
    BY <2>2, <1>f DEF CommitSent, RowsOK
  <2>3. ASSUME NEW m \in Messages, Row(m) PROVE UNCHANGED sends
    BY <2>3 DEF Row, EnqueueFirst, EnqueueRetryForEvent, EnqueueAttempt, CreateTurn,
         SendManual, ApplyStatus, RetryGranted, rowVars
  <2>4. QED
    BY <2>1, <2>2, <2>3, SwitchesKeepHistory DEF Next, vars, rowVars
<1>a. \A m \in Messages : Accounted(m) => Accounted(m)'
  BY <1>1, <1>f, FailedStays DEF Accounted
\* A first task is created for a message that leads, or by its predecessor.
<1>2. ASSUME NEW m \in Messages, Follow[m] \in Messages,
             task[Follow[m]][0] = "none", task'[Follow[m]][0] # "none"
      PROVE  Accounted(m)
  <2> DEFINE n == Follow[m]
  <2>0. n \in Messages /\ Lead[n] # n
    BY <1>2, OutboundAssumption
  <2>1. ASSUME NEW k \in Messages, NEW a \in Attempts, CreateTask(k, a), a > 0 PROVE FALSE
    BY <2>1, <1>2, <1>f DEF CreateTask, TasksOK
  <2>2. ASSUME NEW k \in Messages, CreateTask(k, 0) PROVE k = n
    BY <2>2, <1>2, <1>f DEF CreateTask, TasksOK
  <2>3. ASSUME NEW k \in Messages, Row(k) PROVE FALSE
    <3>1. CASE EnqueueFirst(k)
      BY <3>1, <2>2, <2>0 DEF EnqueueFirst, Firsts
    <3>2. CASE EnqueueRetryForEvent(k)
      BY <3>2, <2>1, <1>2 DEF EnqueueRetryForEvent, EnqueueAttempt, RowsOK
    <3>3. QED
      BY <2>3, <3>1, <3>2, <1>2 DEF Row, CreateTurn, SendManual, ApplyStatus, RetryGranted
  <2>4. ASSUME NEW w \in Workers, Worker(w) PROVE Accounted(m)
    <3>1. CASE EnqueueRetry(w)
      BY <3>1, <2>1, <1>2, <1>p DEF EnqueueRetry, EnqueueAttempt, RowsOK
    <3>2. CASE EnqueueNext(w)
      <4>1. job[w] \in Messages /\ NextDue(job[w]) /\ CreateTask(Follow[job[w]], 0)
        BY <3>2, <1>2, <1>p DEF EnqueueNext
      <4>2. Follow[job[w]] = n
        BY <4>1, <2>2, <1>g DEF NextDue
      <4>3. job[w] = m
        BY <4>1, <4>2, <2>0, OutboundAssumption
      <4>4. QED
        BY <4>1, <4>3 DEF NextDue, Accounted, HistoryInv, RowHistory
    <3>3. CASE Acknowledge(w)
      <4>1. task[job[w]][nth[w]] # "none" /\ job[w] \in Messages /\ nth[w] \in Attempts
        BY <3>3, <1>p DEF Acknowledge, HistoryInv, RowHistory, WorkersOK
      <4>2. QED
        BY <3>3, <4>1, <1>2, <1>f DEF Acknowledge, TasksOK
    <3>4. QED
      BY <2>4, <3>1, <3>2, <3>3, <1>2 DEF Worker, Start, StartSkipped, StartBlocked, StartAllowed,
         TakeBusiness, ProviderAnswers, Refused, ProviderPermanent, ProviderAccepts,
         ProviderTemporary, CommitSent, Crash, WorkerVictim
  <2>5. QED
    BY <2>3, <2>4, <1>2, SwitchesKeepTasks DEF Next, vars
<1>3. QED
  BY <1>a, <1>2, <1>g DEF SequenceOrder

\* A follow-up is handed to the queue only after its predecessor was sent, or
\* was optional and failed.
THEOREM SequenceOrdered == Spec => []SequenceOrder
<1>1. TypeOK /\ OneSenderPerConversation /\ HistoryInv /\ [Next]_vars => HistoryInv'
  BY HistoryStep DEF TypeOK
<1>2. TypeOK /\ OneSenderPerConversation /\ HistoryInv /\ SequenceOrder /\ [Next]_vars
        => SequenceOrder'
  BY SequenceStep DEF TypeOK
<1>3. QED
  BY <1>1, <1>2, HistoryInit, OneSender, TypeCorrect, PTL DEF Spec

-----------------------------------------------------------------------------
(* A message that was granted a retry always has something that drives it. *)

\* The steps of a worker after its transaction.
After == {"retry", "next", "ack"}
Leaving(w, m, a) == job[w] = m /\ nth[w] = a /\ pc[w] \in {"next", "ack"}

\* Tasks are named after attempts that were granted.
NamesGranted == \A m \in Messages, a \in Attempts :
  task[m][a] # "none" => a <= attempt[m] /\ status[m] # "absent"

\* Whoever has finished with a message that is pending again worked for an
\* earlier attempt.
OldWork == \A w \in Workers :
  pc[w] \in After /\ status[job[w]] = "pending" => nth[w] < attempt[job[w]]

\* The task of the attempt that is due was not acknowledged.
DueOpen == \A m \in Messages : status[m] = "pending" => task[m][attempt[m]] # "done"

\* A retry is driven by the event, or by a task nobody is about to acknowledge.
Driven == \A m \in Messages : status[m] = "pending" /\ attempt[m] > 0 =>
  \/ retryDue[m]
  \/ \E a \in Attempts : task[m][a] = "live" /\ \A w \in Workers : ~Leaving(w, m, a)

\* A row that is not written was not tried.
FreshRows == \A m \in Messages : status[m] = "absent" => attempt[m] = 0

DriverInv == NamesGranted /\ OldWork /\ DueOpen /\ Driven

\* At the start there are no rows, tasks or workers.
LEMMA DriverInit == Init => FreshRows /\ DriverInv
  BY Bounds DEF Init, FreshRows, DriverInv, NamesGranted, OldWork, DueOpen, Driven, After, Attempts

\* The task a worker has in hand is of an attempt that was granted.
LEMMA InHand ==
  ASSUME WorkersOK, RowHistory, NamesGranted, NEW w \in Workers, pc[w] # "idle"
  PROVE  /\ job[w] \in Messages /\ nth[w] \in Attempts
         /\ task[job[w]][nth[w]] # "none"
         /\ nth[w] <= attempt[job[w]] /\ status[job[w]] # "absent"
  BY DEF WorkersOK, RowHistory, NamesGranted

\* Steps that move neither tasks nor retries, and write, cancel or settle rows.
LEMMA RowsSettle ==
  ASSUME RowsOK, WorkersOK, RowHistory, FreshRows, DriverInv,
         UNCHANGED <<attempt, retryDue, task, workerVars>>,
         \A m \in Messages : \/ status'[m] = status[m]
                             \/ status'[m] = "failed"
                             \/ status[m] = "absent" /\ status'[m] = "pending"
  PROVE  DriverInv'
<1>i. NamesGranted /\ OldWork /\ DueOpen /\ Driven
  BY DEF DriverInv
<1>1. NamesGranted'
  BY <1>i DEF NamesGranted
<1>2. OldWork'
  <2>1. ASSUME NEW v \in Workers, pc[v] # "idle", status'[job[v]] = "pending"
        PROVE  status[job[v]] = "pending"
    BY <2>1, <1>i, InHand
  <2>2. QED
    BY <2>1, <1>i DEF OldWork, After, workerVars
<1>3. DueOpen'
  BY <1>i DEF DueOpen, NamesGranted, RowsOK
<1>4. Driven'
  <2>1. \A v \in Workers, k \in Messages, a \in Attempts : Leaving(v, k, a)' => Leaving(v, k, a)
    BY DEF Leaving, workerVars
  <2>2. QED
    BY <1>i, <2>1 DEF Driven, FreshRows
<1>5. QED
  BY <1>1, <1>2, <1>3, <1>4 DEF DriverInv

\* Creating the task of a first message, of a follow-up or of a retry.
LEMMA TaskMade ==
  ASSUME RowsOK, TasksOK, WorkersOK, RowHistory, NamesGranted, OldWork, DueOpen,
         NEW m \in Messages, NEW a \in Attempts, CreateTask(m, a),
         status[m] = "pending", a <= attempt[m], UNCHANGED <<status, attempt>>
  PROVE  /\ NamesGranted' /\ DueOpen'
         /\ \A n \in Messages, b \in Attempts : task[n][b] = "live" => task'[n][b] = "live"
         /\ a = attempt[m] => /\ task'[m][a] = "live"
                              /\ \A w \in Workers : ~Leaving(w, m, a)
<1>n. attempt[m] \in Nat /\ a \in Nat
  BY Bounds DEF RowsOK, Attempts
<1>1. CASE task[m][a] = "none" /\ task' = [task EXCEPT ![m][a] = "live"]
  <2>1. NamesGranted'
    BY <1>1 DEF NamesGranted, TasksOK
  <2>2. DueOpen'
    BY <1>1, Bounds DEF DueOpen, TasksOK, RowsOK, Attempts
  <2>3. \A n \in Messages, b \in Attempts : task[n][b] = "live" => task'[n][b] = "live"
    BY <1>1 DEF TasksOK
  <2>4. task'[m][a] = "live"
    BY <1>1 DEF TasksOK
  <2>5. QED
    BY <1>n, <2>1, <2>2, <2>3, <2>4 DEF OldWork, After, Leaving
<1>2. CASE task[m][a] # "none" /\ UNCHANGED task
  <2>1. a = attempt[m] => task[m][a] = "live"
    BY <1>2 DEF DueOpen, TasksOK, TaskStates
  <2>2. QED
    BY <1>n, <1>2, <2>1 DEF NamesGranted, DueOpen, OldWork, After, Leaving
<1>3. QED
  BY <1>1, <1>2 DEF CreateTask

\* A step of a worker keeps the driver: it acknowledges its task only after it
\* has created the one of the retry it granted.
LEMMA WorkerDrives ==
  ASSUME RowsOK, TasksOK, WorkersOK, OneSenderPerConversation, RowHistory, DriverInv,
         NEW w \in Workers, Worker(w)
  PROVE  DriverInv'
<1>i. NamesGranted /\ OldWork /\ DueOpen /\ Driven
  BY DEF DriverInv
<1>n. \A m \in Messages : attempt[m] \in Nat
  BY Bounds DEF RowsOK, Attempts
<1>p. pc[w] # "idle" =>
        /\ job[w] \in Messages /\ nth[w] \in Attempts /\ nth[w] \in Nat
        /\ task[job[w]][nth[w]] # "none"
        /\ nth[w] <= attempt[job[w]] /\ status[job[w]] # "absent"
  BY <1>i, InHand, Bounds DEF Attempts
<1>s. Sending(w) => status[job[w]] = "pending"
  BY DEF OneSenderPerConversation
\* The worker goes on, its message is settled or was so before.
<1>g. ASSUME UNCHANGED <<attempt, task>>,
             \A v \in Workers : v # w => pc'[v] = pc[v] /\ job'[v] = job[v] /\ nth'[v] = nth[v],
             \A m \in Messages : status'[m] = status[m] \/ status'[m] \in {"failed", "sent"},
             \A m \in Messages : retryDue'[m] = retryDue[m] \/ status'[m] # "pending",
             \/ pc'[w] \notin After
             \/ job'[w] \in Messages /\ status'[job'[w]] # "pending"
             \/ pc[w] = "next" /\ pc'[w] = "ack" /\ job'[w] = job[w] /\ nth'[w] = nth[w]
      PROVE  DriverInv'
  <2>1. NamesGranted'
    BY <1>i, <1>g DEF NamesGranted
  <2>2. OldWork'
    <3>1. ASSUME NEW v \in Workers, (pc[v] \in After /\ status[job[v]] = "pending")'
          PROVE  pc[v] \in After /\ job'[v] = job[v] /\ nth'[v] = nth[v] /\ job[v] \in Messages
      BY <3>1, <1>g DEF After, WorkersOK
    <3>2. QED
      BY <3>1, <1>i, <1>g DEF OldWork
  <2>3. DueOpen'
    BY <1>i, <1>g DEF DueOpen
  <2>4. Driven'
    <3>1. ASSUME NEW m \in Messages, NEW a \in Attempts, NEW v \in Workers,
                 status'[m] = "pending", Leaving(v, m, a)'
          PROVE  Leaving(v, m, a)
      BY <3>1, <1>g DEF Leaving, After
    <3>2. QED
      BY <3>1, <1>i, <1>g DEF Driven
  <2>5. QED
    BY <2>1, <2>2, <2>3, <2>4 DEF DriverInv
<1>1. ASSUME NEW m \in Messages, NEW a \in Attempts, Start(w, m, a) PROVE DriverInv'
  BY <1>1, <1>g DEF Start, StartSkipped, StartBlocked, StartAllowed, Takes, Leaves, After,
     rowVars, RowsOK, WorkersOK
<1>2. CASE TakeBusiness(w) \/ Refused(w)
  BY <1>2, <1>g, <1>p DEF TakeBusiness, Refused, Leaves, After, RowsOK, WorkersOK
<1>3. CASE CommitSent(w)
  BY <1>3, <1>g, <1>p DEF CommitSent, Leaves, After, RowsOK, WorkersOK
<1>4. CASE ProviderTemporary(w) \/ ProviderAccepts(w) \/ Crash(w) \/ WorkerVictim(w)
  BY <1>4, <1>g DEF ProviderTemporary, ProviderAccepts, Crash, WorkerVictim, GivesUp, Leaves,
     After, rowVars, WorkersOK
<1>5. CASE ProviderPermanent(w)
  <2> DEFINE m == job[w]
  <2>1. m \in Messages /\ status[m] = "pending" /\ UNCHANGED <<task, job, nth, retryDue>>
    BY <1>5, <1>p, <1>s DEF ProviderPermanent, Sending
  <2>2. CASE attempt[m] >= MaxAttempt
    BY <1>5, <2>1, <2>2, <1>g DEF ProviderPermanent, Leaves, After, RowsOK, WorkersOK
  <2>3. CASE ~(attempt[m] >= MaxAttempt)
    <3>1. /\ UNCHANGED status
          /\ attempt' = [attempt EXCEPT ![m] = @ + 1]
          /\ pc' = [pc EXCEPT ![w] = "retry"]
      BY <1>5, <2>3 DEF ProviderPermanent, Leaves
    <3>2. attempt'[m] = attempt[m] + 1 /\ \A k \in Messages : k # m => attempt'[k] = attempt[k]
      BY <2>1, <3>1 DEF RowsOK
    <3>3. pc'[w] = "retry" /\ \A v \in Workers : v # w => pc'[v] = pc[v]
      BY <3>1 DEF WorkersOK
    <3>4. NamesGranted'
      BY <1>i, <1>n, <2>1, <3>1, <3>2, Bounds DEF NamesGranted, Attempts
    <3>5. OldWork'
      <4>1. ASSUME NEW v \in Workers, pc'[v] \in After, status'[job'[v]] = "pending"
            PROVE  nth'[v] < attempt'[job'[v]]
        <5>1. pc[v] # "idle"
          BY <1>5, <3>3, <4>1 DEF ProviderPermanent, After
        <5>2. job[v] \in Messages /\ nth[v] \in Nat /\ nth[v] <= attempt[job[v]]
          BY <5>1, <1>i, InHand, Bounds DEF Attempts
        <5>3. job[v] # m => nth[v] < attempt[job[v]]
          BY <2>1, <3>1, <3>3, <4>1, <1>i DEF OldWork
        <5>4. QED
          BY <1>n, <2>1, <3>2, <5>2, <5>3
      <4>2. QED
        BY <4>1 DEF OldWork
    <3>6. DueOpen'
      <4>1. task[m][attempt[m] + 1] # "done"
        <5>1. attempt[m] + 1 \in Attempts
          BY <2>1, <2>3, <1>n, Bounds DEF Attempts
        <5>2. QED
          BY <1>i, <1>n, <2>1, <5>1 DEF NamesGranted
      <4>2. QED
        BY <1>i, <2>1, <3>1, <3>2, <4>1 DEF DueOpen
    <3>7. Driven'
      <4>1. \A v \in Workers, k \in Messages, a \in Attempts : Leaving(v, k, a)' => Leaving(v, k, a)
        BY <2>1, <3>3 DEF Leaving
      <4>2. \A k \in Messages \ {m} : status'[k] = "pending" /\ attempt'[k] > 0 =>
              \/ retryDue'[k]
              \/ \E a \in Attempts : task'[k][a] = "live" /\ \A v \in Workers : ~Leaving(v, k, a)'
        BY <1>i, <2>1, <3>1, <3>2, <4>1 DEF Driven
      <4>3. CASE attempt[m] > 0
        BY <1>i, <2>1, <4>1, <4>2, <4>3 DEF Driven
      <4>4. CASE attempt[m] = 0
        <5>1. nth[w] = attempt[m] /\ nth[w] \in Attempts
          BY <1>5, <1>p, <1>n, <4>4 DEF ProviderPermanent
        <5>2. task[m][nth[w]] = "live"
          BY <1>5, <1>p, <1>i, <2>1, <5>1 DEF ProviderPermanent, DueOpen, TasksOK, TaskStates
        <5>3. \A v \in Workers : ~Leaving(v, m, nth[w])
          BY <1>i, <1>n, <2>1, <5>1 DEF OldWork, Leaving, After
        <5>4. QED
          BY <2>1, <4>1, <4>2, <5>1, <5>2, <5>3 DEF Driven
      <4>5. QED
        BY <1>n, <2>1, <4>3, <4>4
    <3>8. QED
      BY <3>4, <3>5, <3>6, <3>7 DEF DriverInv
  <2>4. QED
    BY <2>2, <2>3
<1>6. CASE EnqueueRetry(w)
  <2> DEFINE m == job[w]
  <2>1. /\ m \in Messages /\ nth[w] \in Attempts /\ pc[w] = "retry"
        /\ UNCHANGED <<status, attempt, retryDue, job, nth>>
        /\ pc' = [pc EXCEPT ![w] = "ack"] /\ EnqueueAttempt(m)
    BY <1>6, <1>p DEF EnqueueRetry, Leaves, rowVars
  <2>2. CASE status[m] # "pending"
    <3>1. UNCHANGED task
      BY <2>1, <2>2 DEF EnqueueAttempt
    <3>2. QED
      BY <2>1, <2>2, <3>1, <1>g DEF After, WorkersOK
  <2>3. CASE status[m] = "pending"
    <3>1. nth[w] < attempt[m]
      BY <1>i, <2>1, <2>3 DEF OldWork, After
    <3>2. attempt[m] \in Attempts /\ CreateTask(m, attempt[m])
      BY <1>p, <1>n, <2>1, <2>3, <3>1 DEF EnqueueAttempt, RowsOK
    <3>3. /\ NamesGranted' /\ DueOpen'
          /\ \A n \in Messages, b \in Attempts : task[n][b] = "live" => task'[n][b] = "live"
          /\ task'[m][attempt[m]] = "live"
          /\ \A v \in Workers : ~Leaving(v, m, attempt[m])
      BY <1>i, <1>n, <2>1, <2>3, <3>2, TaskMade
    <3>4. pc'[w] = "ack" /\ \A v \in Workers : v # w => pc'[v] = pc[v]
      BY <2>1 DEF WorkersOK
    <3>5. OldWork'
      BY <1>i, <2>1, <3>4, <3>1 DEF OldWork, After
    <3>6. Driven'
      <4>1. \A v \in Workers, k \in Messages, a \in Attempts :
              Leaving(v, k, a)' => Leaving(v, k, a) \/ (k = m /\ a = nth[w])
        BY <2>1, <3>4 DEF Leaving
      <4>2. nth[w] # attempt[m]
        BY <1>p, <1>n, <2>1, <3>1
      <4>3. \A v \in Workers : ~Leaving(v, m, attempt[m])'
        BY <3>2, <3>3, <4>1, <4>2, <2>1
      <4>4. \A k \in Messages \ {m} : status'[k] = "pending" /\ attempt'[k] > 0 =>
              \/ retryDue'[k]
              \/ \E a \in Attempts : task'[k][a] = "live" /\ \A v \in Workers : ~Leaving(v, k, a)'
        BY <1>i, <2>1, <3>3, <4>1 DEF Driven
      <4>5. QED
        BY <2>1, <3>2, <3>3, <4>3, <4>4 DEF Driven
    <3>7. QED
      BY <3>3, <3>5, <3>6 DEF DriverInv
  <2>4. QED
    BY <2>2, <2>3
<1>7. CASE EnqueueNext(w)
  <2>1. /\ UNCHANGED <<status, attempt, retryDue, job, nth>> /\ pc[w] = "next"
        /\ pc' = [pc EXCEPT ![w] = "ack"] /\ job[w] \in Messages
    BY <1>7, <1>p DEF EnqueueNext, Leaves, rowVars
  <2>2. pc'[w] = "ack" /\ \A v \in Workers : v # w => pc'[v] = pc[v]
    BY <2>1 DEF WorkersOK
  <2>3. CASE UNCHANGED task
    BY <2>1, <2>2, <2>3, <1>g
  <2>4. CASE NextDue(job[w]) /\ CreateTask(Follow[job[w]], 0)
    <3> DEFINE n == Follow[job[w]]
    <3>1. n \in Messages /\ status[n] = "pending" /\ 0 \in Attempts
      BY <2>1, <2>4, OutboundAssumption, Bounds DEF NextDue, Attempts
    <3>2. /\ NamesGranted' /\ DueOpen'
          /\ \A k \in Messages, b \in Attempts : task[k][b] = "live" => task'[k][b] = "live"
      BY <1>i, <1>n, <2>1, <2>4, <3>1, TaskMade
    <3>3. OldWork'
      BY <1>i, <2>1, <2>2 DEF OldWork, After
    <3>4. \A v \in Workers, k \in Messages, a \in Attempts : Leaving(v, k, a)' => Leaving(v, k, a)
      BY <2>1, <2>2 DEF Leaving
    <3>5. Driven'
      BY <1>i, <2>1, <3>2, <3>4 DEF Driven
    <3>6. QED
      BY <3>2, <3>3, <3>5 DEF DriverInv
  <2>5. QED
    BY <1>7, <2>3, <2>4 DEF EnqueueNext
<1>8. CASE Acknowledge(w)
  <2> DEFINE m == job[w]
             b == nth[w]
  <2>1. /\ m \in Messages /\ b \in Attempts /\ pc[w] = "ack"
        /\ UNCHANGED <<status, attempt, retryDue>>
        /\ task' = [task EXCEPT ![m][b] = "done"]
    BY <1>8, <1>p DEF Acknowledge, rowVars
  <2>2. /\ pc'[w] = "idle"
        /\ \A v \in Workers : v # w => pc'[v] = pc[v] /\ job'[v] = job[v] /\ nth'[v] = nth[v]
    BY <1>8 DEF Acknowledge, GivesUp, Leaves, WorkersOK
  <2>3. \A k \in Messages, a \in Attempts :
          task'[k][a] = IF k = m /\ a = b THEN "done" ELSE task[k][a]
    BY <2>1 DEF TasksOK
  <2>4. NamesGranted'
    BY <1>i, <1>8, <1>p, <2>1, <2>3 DEF NamesGranted, Acknowledge
  <2>5. OldWork'
    BY <1>i, <2>1, <2>2 DEF OldWork, After
  <2>6. DueOpen'
    <3>1. status[m] = "pending" => b # attempt[m]
      BY <1>i, <1>n, <2>1 DEF OldWork, After
    <3>2. \A k \in Messages : attempt[k] \in Attempts
      BY DEF RowsOK
    <3>3. QED
      BY <1>i, <2>1, <2>3, <3>1, <3>2 DEF DueOpen
  <2>7. Driven'
    <3>1. \A v \in Workers, k \in Messages, a \in Attempts : Leaving(v, k, a)' => Leaving(v, k, a)
      BY <2>2 DEF Leaving
    <3>2. Leaving(w, m, b)
      BY <2>1 DEF Leaving
    <3>3. QED
      BY <1>i, <2>1, <2>3, <3>1, <3>2 DEF Driven
  <2>8. QED
    BY <2>4, <2>5, <2>6, <2>7 DEF DriverInv
<1>9. QED
  BY <1>1, <1>2, <1>3, <1>4, <1>5, <1>6, <1>7, <1>8 DEF Worker, ProviderAnswers

\* Enqueuing, writing and webhooks keep the driver: a retry granted by an
\* event is driven by that event until its task exists.
LEMMA RowDrives ==
  ASSUME RowsOK, TasksOK, WorkersOK, HistoryInv, FreshRows, DriverInv,
         NEW m \in Messages, Row(m)
  PROVE  DriverInv'
<1>i. NamesGranted /\ OldWork /\ DueOpen /\ Driven /\ RowHistory
  BY DEF DriverInv, HistoryInv
<1>n. \A k \in Messages : attempt[k] \in Nat
  BY Bounds DEF RowsOK, Attempts
<1>l. UNCHANGED workerVars =>
        \A v \in Workers, k \in Messages, a \in Attempts : Leaving(v, k, a)' => Leaving(v, k, a)
  BY DEF Leaving, workerVars
<1>o. UNCHANGED <<workerVars, status, attempt>> => OldWork'
  BY <1>i DEF OldWork, workerVars
<1>1. CASE EnqueueFirst(m)
  <2>1. /\ UNCHANGED <<status, attempt, retryDue, workerVars>> /\ status[m] = "pending"
        /\ CreateTask(m, 0) /\ 0 \in Attempts
    BY <1>1, Bounds DEF EnqueueFirst, rowVars, Attempts
  <2>2. /\ NamesGranted' /\ DueOpen'
        /\ \A k \in Messages, b \in Attempts : task[k][b] = "live" => task'[k][b] = "live"
    BY <1>i, <1>n, <2>1, TaskMade
  <2>3. Driven'
    BY <1>i, <1>l, <2>1, <2>2 DEF Driven
  <2>4. QED
    BY <1>o, <2>1, <2>2, <2>3 DEF DriverInv
<1>2. CASE EnqueueRetryForEvent(m)
  <2>1. /\ UNCHANGED <<status, attempt, workerVars>>
        /\ retryDue' = [retryDue EXCEPT ![m] = FALSE] /\ EnqueueAttempt(m)
        /\ \A k \in Messages \ {m} : retryDue'[k] = retryDue[k]
    BY <1>2 DEF EnqueueRetryForEvent, RowsOK
  <2>2. CASE ~(status[m] = "pending" /\ attempt[m] > 0)
    <3>1. UNCHANGED task
      BY <2>1, <2>2 DEF EnqueueAttempt
    <3>2. NamesGranted' /\ DueOpen'
      BY <1>i, <2>1, <3>1 DEF NamesGranted, DueOpen
    <3>3. Driven'
      BY <1>i, <1>l, <2>1, <2>2, <3>1 DEF Driven
    <3>4. QED
      BY <1>o, <2>1, <3>2, <3>3 DEF DriverInv
  <2>3. CASE status[m] = "pending" /\ attempt[m] > 0
    <3>1. CreateTask(m, attempt[m]) /\ attempt[m] \in Attempts
      BY <2>1, <2>3 DEF EnqueueAttempt, RowsOK
    <3>2. /\ NamesGranted' /\ DueOpen'
          /\ \A k \in Messages, b \in Attempts : task[k][b] = "live" => task'[k][b] = "live"
          /\ task'[m][attempt[m]] = "live"
          /\ \A v \in Workers : ~Leaving(v, m, attempt[m])
      BY <1>i, <1>n, <2>1, <2>3, <3>1, TaskMade
    <3>3. Driven'
      BY <1>i, <1>l, <2>1, <3>1, <3>2 DEF Driven
    <3>4. QED
      BY <1>o, <2>1, <3>2, <3>3 DEF DriverInv
  <2>4. QED
    BY <2>2, <2>3
<1>3. CASE CreateTurn(m)
  <2>1. \A k \in Sequence(m) : status[k] = "absent"
    BY <1>3, <1>i DEF CreateTurn, Sequence, RowHistory
  <2>2. QED
    BY <1>3, <2>1, <1>i, RowsSettle DEF CreateTurn
<1>4. CASE SendManual(m)
  BY <1>4, <1>i, RowsSettle DEF SendManual, Cancel
<1>5. ASSUME NEW s \in Statuses, ApplyStatus(m, s) PROVE DriverInv'
  <2>1. /\ UNCHANGED <<task, workerVars>> /\ status[m] # "absent" /\ s \in Statuses
        /\ \A k \in Messages \ {m} : status'[k] = status[k] /\ attempt'[k] = attempt[k]
                                     /\ retryDue'[k] = retryDue[k]
    BY <1>5, <1>i DEF ApplyStatus, RowHistory, RowsOK
  <2>2. CASE UNCHANGED <<status, attempt>>
    <3>1. \A k \in Messages : retryDue[k] => retryDue'[k]
      BY <1>5, <2>1 DEF ApplyStatus, RowsOK
    <3>2. NamesGranted' /\ DueOpen'
      BY <1>i, <2>1, <2>2 DEF NamesGranted, DueOpen
    <3>3. Driven'
      BY <1>i, <1>l, <2>1, <2>2, <3>1 DEF Driven
    <3>4. QED
      BY <1>o, <2>1, <2>2, <3>2, <3>3 DEF DriverInv
  <2>3. CASE /\ s = "failed" /\ RetryGranted(m)
             /\ attempt' = [attempt EXCEPT ![m] = @ + 1]
             /\ status' = [status EXCEPT ![m] = "pending"]
    <3>1. /\ attempt'[m] = attempt[m] + 1 /\ status'[m] = "pending" /\ retryDue'[m]
          /\ attempt[m] + 1 \in Attempts
      BY <1>5, <1>n, <2>3, Bounds DEF ApplyStatus, RetryGranted, RowsOK, Attempts
    <3>2. NamesGranted'
      BY <1>i, <1>n, <2>1, <3>1, Bounds DEF NamesGranted, Attempts
    <3>3. OldWork'
      <4>1. ASSUME NEW v \in Workers, pc[v] \in After, status'[job[v]] = "pending"
            PROVE  nth[v] < attempt'[job[v]]
        <5>1. job[v] \in Messages /\ nth[v] \in Nat /\ nth[v] <= attempt[job[v]]
          BY <4>1, <1>i, InHand, Bounds DEF After, Attempts
        <5>2. job[v] # m => nth[v] < attempt[job[v]]
          BY <1>i, <2>1, <4>1, <5>1 DEF OldWork
        <5>3. QED
          BY <1>n, <2>1, <3>1, <5>1, <5>2
      <4>2. QED
        BY <2>1, <4>1 DEF OldWork, workerVars
    <3>4. DueOpen'
      BY <1>i, <1>n, <2>1, <3>1 DEF NamesGranted, DueOpen
    <3>5. Driven'
      BY <1>i, <1>l, <2>1, <3>1 DEF Driven
    <3>6. QED
      BY <3>2, <3>3, <3>4, <3>5 DEF DriverInv
  <2>4. CASE status' = [status EXCEPT ![m] = s] /\ UNCHANGED attempt
    <3>1. status'[m] \notin {"pending", "absent"}
      BY <2>1, <2>4 DEF RowsOK, Statuses
    <3>2. NamesGranted' /\ DueOpen'
      BY <1>i, <2>1, <2>4, <3>1 DEF NamesGranted, DueOpen
    <3>3. OldWork'
      <4>1. ASSUME NEW v \in Workers, pc[v] \in After, status'[job[v]] = "pending"
            PROVE  status[job[v]] = "pending"
        BY <4>1, <2>1, <3>1, <1>i, InHand DEF After
      <4>2. QED
        BY <1>i, <2>1, <2>4, <4>1 DEF OldWork, workerVars
    <3>4. Driven'
      BY <1>i, <1>l, <2>1, <2>4, <3>1 DEF Driven
    <3>5. QED
      BY <3>2, <3>3, <3>4 DEF DriverInv
  <2>5. QED
    BY <1>5, <2>2, <2>3, <2>4 DEF ApplyStatus
<1>6. QED
  BY <1>1, <1>2, <1>3, <1>4, <1>5 DEF Row

\* Only a row that was written is tried.
LEMMA FreshStep ==
  RowsOK /\ WorkersOK /\ OneSenderPerConversation /\ HistoryInv /\ FreshRows /\ [Next]_vars
  => FreshRows'
<1> SUFFICES ASSUME RowsOK, WorkersOK, OneSenderPerConversation, HistoryInv, FreshRows, [Next]_vars
             PROVE  FreshRows'
  OBVIOUS
<1>k. ASSUME UNCHANGED attempt, \A m \in Messages : status'[m] = "absent" => status[m] = "absent"
      PROVE  FreshRows'
  BY <1>k DEF FreshRows
<1>1. ASSUME NEW w \in Workers, Worker(w) PROVE FreshRows'
  <2>1. CASE ProviderPermanent(w)
    BY <2>1 DEF ProviderPermanent, OneSenderPerConversation, Sending, FreshRows, RowsOK, WorkersOK
  <2>2. CASE TakeBusiness(w) \/ Refused(w) \/ CommitSent(w)
    BY <2>2, <1>k DEF TakeBusiness, Refused, CommitSent, RowsOK
  <2>3. ASSUME NEW m \in Messages, NEW a \in Attempts, Start(w, m, a) PROVE FreshRows'
    BY <2>3, <1>k DEF Start, StartSkipped, StartBlocked, StartAllowed, rowVars, RowsOK
  <2>4. CASE UNCHANGED <<status, attempt>>
    BY <2>4, <1>k
  <2>5. QED
    BY <1>1, <2>1, <2>2, <2>3, <2>4 DEF Worker, ProviderAnswers, ProviderAccepts,
       ProviderTemporary, EnqueueRetry, EnqueueNext, Acknowledge, Crash, WorkerVictim, rowVars
<1>2. ASSUME NEW m \in Messages, Row(m) PROVE FreshRows'
  <2>1. ASSUME NEW s \in Statuses, ApplyStatus(m, s) PROVE FreshRows'
    <3>1. status[m] # "absent"
      BY <2>1 DEF ApplyStatus, HistoryInv, RowHistory
    <3>2. s # "absent"
      BY <2>1 DEF Statuses
    <3>3. \A k \in Messages \ {m} : status'[k] = status[k] /\ attempt'[k] = attempt[k]
      BY <2>1 DEF ApplyStatus, RowsOK
    <3>4. status'[m] # "absent"
      BY <2>1, <3>1, <3>2 DEF ApplyStatus, RowsOK
    <3>5. QED
      BY <3>3, <3>4 DEF FreshRows
  <2>2. CASE CreateTurn(m)
    BY <2>2, <1>k DEF CreateTurn
  <2>3. CASE SendManual(m)
    BY <2>3, <1>k DEF SendManual, Cancel, RowsOK
  <2>4. QED
    BY <1>2, <1>k, <2>1, <2>2, <2>3 DEF Row, EnqueueFirst, EnqueueRetryForEvent, rowVars
<1>3. CASE Switches
  BY <1>3, <1>k, SwitchesKeepHistory
<1>4. QED
  BY <1>k, <1>1, <1>2, <1>3 DEF Next, vars, rowVars

\* The switches cancel rows and leave retries, tasks and workers alone.
LEMMA SwitchesDrive ==
  ASSUME RowsOK, WorkersOK, HistoryInv, FreshRows, DriverInv, Switches PROVE DriverInv'
<1>1. UNCHANGED retryDue
  BY DEF Switches, Operator, ToggleOff, ToggleOn, DeleteConversation,
     ExcludeBegin, ExcludeCommit, Include,
     EntitlementChanges, SettingsOn, SettingsOffBegin, SettingsOffCommit, SettingsVictim,
     MarkHumanOnly, WindowExpires, rowVars
<1>2. QED
  BY <1>1, SwitchesKeepHistory, SwitchesKeepTasks, RowsSettle DEF HistoryInv, workerVars

\* A message returned to pending for a retry is never forgotten: the event
\* that granted it, or a task that is still to be delivered, picks it up.
THEOREM RetryIsDriven == Spec => []RetryHasDriver
<1>1. /\ TypeOK /\ OneSenderPerConversation /\ HistoryInv /\ FreshRows /\ DriverInv /\ [Next]_vars
      => (FreshRows /\ DriverInv)'
  <2> SUFFICES ASSUME TypeOK, OneSenderPerConversation, HistoryInv, FreshRows, DriverInv, [Next]_vars
               PROVE  FreshRows' /\ DriverInv'
    OBVIOUS
  <2>t. RowsOK /\ TasksOK /\ WorkersOK /\ RowHistory
    BY DEF TypeOK, HistoryInv
  <2>1. FreshRows'
    BY <2>t, FreshStep
  <2>2. ASSUME NEW w \in Workers, Worker(w) PROVE DriverInv'
    BY <2>t, <2>2, WorkerDrives
  <2>3. ASSUME NEW m \in Messages, Row(m) PROVE DriverInv'
    BY <2>t, <2>3, RowDrives
  <2>4. CASE Switches
    BY <2>t, <2>1, <2>4, SwitchesDrive
  <2>5. CASE UNCHANGED vars
    BY <2>t, <2>1, <2>5, RowsSettle DEF vars, rowVars
  <2>6. QED
    BY <2>1, <2>2, <2>3, <2>4, <2>5 DEF Next
<1>2. TypeOK /\ OneSenderPerConversation /\ HistoryInv /\ [Next]_vars => HistoryInv'
  BY HistoryStep DEF TypeOK
<1>3. DriverInv => RetryHasDriver
  BY DEF DriverInv, Driven, RetryHasDriver
<1>4. QED
  BY <1>1, <1>2, <1>3, DriverInit, HistoryInit, OneSender, TypeCorrect, PTL DEF Spec

-----------------------------------------------------------------------------
(* The refinement of Outbox.                                               *)

\* What a status means to the customer.
LEMMA Meaning ==
  /\ StateOf("pending") = "waiting" /\ StateOf("failed") = "dropped"
  /\ StateOf("absent") = "absent"
  /\ \A s \in Delivered : StateOf(s) = "out"
  BY DEF StateOf, Delivered

-----------------------------------------------------------------------------
(* Two facts the invariants of OutboundDelivery do not say.                *)

\* A row that was sent and is not delivered had its failure reported.
FailureSeen == \A m \in Messages :
  sends[m] > 0 /\ status[m] \in {"pending", "failed"} => "failed" \in seen[m]

\* The plain task comes first.
PlainFirst == \A m \in Messages :
  \/ attempt[m] > 0 \/ sends[m] > 0 \/ \E a \in Attempts : task[m][a] # "none"
  => task[m][0] # "none"

\* Nothing was reported or created at the start.
LEMMA NewsInit == Init => FailureSeen /\ PlainFirst
  BY Bounds DEF Init, FailureSeen, PlainFirst, Attempts

\* Every step keeps FailureSeen: only a report returns a sent row to pending,
\* and a new send starts with nothing reported.
LEMMA FailureSeenStep ==
  /\ RowsOK /\ WorkersOK /\ OneSenderPerConversation /\ HistoryInv /\ FailureSeen /\ [Next]_vars
  => FailureSeen'
<1> SUFFICES ASSUME RowsOK, WorkersOK, OneSenderPerConversation, HistoryInv, FailureSeen,
                    [Next]_vars
             PROVE  FailureSeen'
  OBVIOUS
<1> DEFINE Keeps == UNCHANGED <<sends, seen>> /\
                    \A m \in Messages : status'[m] \in {"pending", "failed"} =>
                      status[m] \in {"pending", "failed"} \/ sends[m] = 0
<1>n. \A m \in Messages : sends[m] \in Nat
  BY DEF RowsOK
<1>k. Keeps => FailureSeen'
  BY <1>n DEF FailureSeen
<1>u. UNCHANGED <<sends, seen, status>> => Keeps
  OBVIOUS
<1>p. \A w \in Workers : /\ pc[w] # "idle" => job[w] \in Messages
                         /\ Sending(w) => status[job[w]] = "pending"
  BY DEF WorkersOK, OneSenderPerConversation
<1>1. ASSUME NEW w \in Workers, Worker(w) PROVE FailureSeen'
  <2>1. CASE CommitSent(w)
    BY <2>1, <1>p DEF CommitSent, FailureSeen, RowsOK
  <2>2. CASE TakeBusiness(w)
    <3>1. Keeps
      BY <2>2, <1>p DEF TakeBusiness, Sending, RowsOK
    <3>2. QED
      BY <3>1, <1>k
  <2>3. CASE Refused(w)
    <3>1. Keeps
      BY <2>3, <1>p DEF Refused, Sending, RowsOK
    <3>2. QED
      BY <3>1, <1>k
  <2>4. CASE ProviderPermanent(w)
    <3>1. Keeps
      BY <2>4, <1>p DEF ProviderPermanent, Sending, RowsOK
    <3>2. QED
      BY <3>1, <1>k
  <2>5. ASSUME NEW m \in Messages, NEW a \in Attempts, Start(w, m, a) PROVE FailureSeen'
    <3>1. Keeps
      BY <2>5 DEF Start, StartSkipped, StartBlocked, StartAllowed, RowsOK, rowVars
    <3>2. QED
      BY <3>1, <1>k
  <2>6. CASE UNCHANGED rowVars
    BY <2>6, <1>k, <1>u DEF rowVars
  <2>7. QED
    BY <1>1, <2>1, <2>2, <2>3, <2>4, <2>5, <2>6 DEF Worker, ProviderAnswers, ProviderAccepts,
       ProviderTemporary, EnqueueRetry, EnqueueNext, Acknowledge, Crash, WorkerVictim
<1>2. ASSUME NEW m \in Messages, Row(m) PROVE FailureSeen'
  <2>1. CASE EnqueueFirst(m) \/ EnqueueRetryForEvent(m)
    BY <2>1, <1>k, <1>u DEF EnqueueFirst, EnqueueRetryForEvent, rowVars
  <2>2. CASE CreateTurn(m)
    <3>1. \A n \in Sequence(m) : status[n] = "absent" /\ sends[n] = 0
      BY <2>2 DEF CreateTurn, Sequence, HistoryInv, RowHistory
    <3>2. Keeps
      BY <2>2, <3>1 DEF CreateTurn
    <3>3. QED
      BY <3>2, <1>k
  <2>3. CASE SendManual(m)
    <3>1. sends[m] = 0
      BY <2>3 DEF SendManual, HistoryInv, RowHistory
    <3>2. Keeps
      BY <2>3, <3>1 DEF SendManual, Cancel, RowsOK
    <3>3. QED
      BY <3>2, <1>k
  <2>4. ASSUME NEW s \in Statuses, ApplyStatus(m, s) PROVE FailureSeen'
    <3>1. CASE s = "failed"
      BY <2>4, <3>1 DEF ApplyStatus, RetryGranted, FailureSeen, RowsOK
    <3>2. CASE s # "failed"
      BY <2>4, <3>2 DEF ApplyStatus, FailureSeen, RowsOK, Statuses
    <3>3. QED
      BY <3>1, <3>2
  <2>5. QED
    BY <1>2, <2>1, <2>2, <2>3, <2>4 DEF Row
<1>3. CASE Switches
  <2>1. UNCHANGED seen
    BY <1>3 DEF Switches, Operator, ToggleOff, ToggleOn, DeleteConversation,
     ExcludeBegin, ExcludeCommit, Include,
       EntitlementChanges, SettingsOn, SettingsOffBegin, SettingsOffCommit, SettingsVictim,
       MarkHumanOnly, WindowExpires, rowVars
  <2>2. Keeps
    BY <1>3, <2>1, SwitchesKeepHistory
  <2>3. QED
    BY <2>2, <1>k
<1>4. CASE UNCHANGED vars
  BY <1>4, <1>k, <1>u DEF vars, rowVars
<1>5. QED
  BY <1>1, <1>2, <1>3, <1>4 DEF Next

\* Every step keeps PlainFirst: whoever grants a retry or sends has a task of
\* the message, and tasks are never forgotten.
LEMMA PlainFirstStep ==
  RowsOK /\ TasksOK /\ WorkersOK /\ HistoryInv /\ PlainFirst /\ [Next]_vars => PlainFirst'
<1> SUFFICES ASSUME RowsOK, TasksOK, WorkersOK, HistoryInv, PlainFirst, [Next]_vars
             PROVE  PlainFirst'
  OBVIOUS
<1> DEFINE Known(m) == attempt[m] > 0 \/ sends[m] > 0 \/ \E a \in Attempts : task[m][a] # "none"
           Tried == \A m \in Messages : attempt'[m] > 0 \/ sends'[m] > 0 => Known(m)
           Made == \A m \in Messages, a \in Attempts :
                     task'[m][a] # "none" => Known(m) \/ task'[m][0] # "none"
           Stays == \A m \in Messages : task[m][0] # "none" => task'[m][0] # "none"
<1>f. 0 \in Attempts /\ \A m \in Messages : attempt[m] \in Nat /\ sends[m] \in Nat
  BY Bounds DEF RowsOK, Attempts
<1>q. Tried /\ Made /\ Stays => PlainFirst'
  BY DEF PlainFirst
<1>p. \A w \in Workers : pc[w] # "idle" => /\ job[w] \in Messages /\ nth[w] \in Attempts
                                           /\ task[job[w]][nth[w]] # "none"
  BY DEF WorkersOK, HistoryInv, RowHistory
<1>t. UNCHANGED task => Made /\ Stays
  OBVIOUS
<1>c. ASSUME NEW m \in Messages, NEW a \in Attempts, CreateTask(m, a), a = 0 \/ attempt[m] > 0
      PROVE  Made /\ Stays
  <2>1. CASE UNCHANGED task
    BY <2>1, <1>t
  <2>2. CASE task[m][a] = "none" /\ task' = [task EXCEPT ![m][a] = "live"]
    BY <1>c, <2>2, <1>f DEF TasksOK
  <2>3. QED
    BY <1>c, <2>1, <2>2 DEF CreateTask
<1>r. UNCHANGED <<attempt, sends>> => Tried
  OBVIOUS
<1>1. ASSUME NEW w \in Workers, Worker(w) PROVE PlainFirst'
  <2>1. CASE CommitSent(w)
    <3>1. Tried
      BY <2>1, <1>p, <1>f DEF CommitSent, RowsOK
    <3>2. QED
      BY <2>1, <3>1, <1>t, <1>q DEF CommitSent
  <2>2. CASE ProviderPermanent(w)
    <3>1. Tried
      BY <2>2, <1>p, <1>f DEF ProviderPermanent, RowsOK
    <3>2. QED
      BY <2>2, <3>1, <1>t, <1>q DEF ProviderPermanent
  <2>3. CASE EnqueueRetry(w)
    <3>1. Made /\ Stays
      BY <2>3, <1>p, <1>c, <1>t, <1>f DEF EnqueueRetry, EnqueueAttempt, RowsOK
    <3>2. QED
      BY <2>3, <3>1, <1>r, <1>q DEF EnqueueRetry, rowVars
  <2>4. CASE EnqueueNext(w)
    <3>1. Made /\ Stays
      BY <2>4, <1>p, <1>c, <1>t, <1>f, OutboundAssumption DEF EnqueueNext, NextDue
    <3>2. QED
      BY <2>4, <3>1, <1>r, <1>q DEF EnqueueNext, rowVars
  <2>5. CASE Acknowledge(w)
    <3>1. Made /\ Stays
      BY <2>5, <1>p, <1>f DEF Acknowledge, TasksOK
    <3>2. QED
      BY <2>5, <3>1, <1>r, <1>q DEF Acknowledge, rowVars
  <2>6. CASE UNCHANGED <<attempt, sends, task>>
    BY <2>6, <1>r, <1>t, <1>q
  <2>7. QED
    BY <1>1, <2>1, <2>2, <2>3, <2>4, <2>5, <2>6 DEF Worker, Start, StartSkipped, StartBlocked,
       StartAllowed, TakeBusiness, ProviderAnswers, Refused, ProviderAccepts,
       ProviderTemporary, Crash, WorkerVictim, rowVars
<1>2. ASSUME NEW m \in Messages, Row(m) PROVE PlainFirst'
  <2>1. CASE EnqueueFirst(m)
    <3>1. Made /\ Stays
      BY <2>1, <1>c, <1>f DEF EnqueueFirst
    <3>2. QED
      BY <2>1, <3>1, <1>r, <1>q DEF EnqueueFirst, rowVars
  <2>2. CASE EnqueueRetryForEvent(m)
    <3>1. Made /\ Stays
      BY <2>2, <1>c, <1>t, <1>f DEF EnqueueRetryForEvent, EnqueueAttempt, RowsOK
    <3>2. QED
      BY <2>2, <3>1, <1>r, <1>q DEF EnqueueRetryForEvent
  <2>3. CASE CreateTurn(m) \/ SendManual(m)
    BY <2>3, <1>r, <1>t, <1>q DEF CreateTurn, SendManual
  <2>4. ASSUME NEW s \in Statuses, ApplyStatus(m, s) PROVE PlainFirst'
    <3>1. Tried
      BY <2>4, <1>f DEF ApplyStatus, RowsOK
    <3>2. QED
      BY <2>4, <3>1, <1>t, <1>q DEF ApplyStatus
  <2>5. QED
    BY <1>2, <2>1, <2>2, <2>3, <2>4 DEF Row
<1>3. CASE Switches
  BY <1>3, SwitchesKeepHistory, SwitchesKeepTasks, <1>r, <1>t, <1>q
<1>4. CASE UNCHANGED vars
  BY <1>4, <1>r, <1>t, <1>q DEF vars, rowVars
<1>5. QED
  BY <1>1, <1>2, <1>3, <1>4 DEF Next

-----------------------------------------------------------------------------
(* The initial states and the steps of OutboundDelivery, seen as Outbox.   *)

Promises == Promised!Next \/ UNCHANGED Promised!vars

\* Nothing is written at the start.
LEMMA InitPromised == Init => Promised!Init
  BY Meaning DEF Init, Promised!Init

\* Writing rows that were absent and cancelling rows that were pending is a
\* Write of Outbox, whatever the transaction.
LEMMA Writing ==
  ASSUME UNCHANGED <<attempt, sends>>,
         \A m \in Messages : \/ status'[m] = status[m]
                             \/ status[m] = "pending" /\ status'[m] = "failed"
                             \/ status[m] = "absent" /\ status'[m] = "pending"
  PROVE  Promises
<1> DEFINE S == {m \in Messages : status[m] = "absent" /\ status'[m] = "pending"}
           D == {m \in Messages : status[m] = "pending" /\ status'[m] = "failed"}
<1>1. /\ \A m \in S : StateOf(status[m]) = "absent"
      /\ \A m \in D : StateOf(status[m]) = "waiting"
  BY Meaning
<1>2. \A m \in Messages : StateOf(status'[m]) =
        IF m \in S THEN "waiting" ELSE IF m \in D THEN "dropped" ELSE StateOf(status[m])
  BY Meaning
<1>3. S \in SUBSET Messages /\ D \in SUBSET Messages
  OBVIOUS
<1> HIDE DEF S, D
<1>4. Promised!Write(S, D)
  BY <1>1, <1>2, <1>3 DEF Promised!Write
<1>5. QED
  BY <1>3, <1>4 DEF Promises, Promised!Next

\* A step of a worker is a delivery, a retry or the end of one message, or
\* nothing the customer could tell.
LEMMA WorkerPromised ==
  ASSUME RowsOK, WorkersOK, OneSenderPerConversation, HistoryInv, SequenceOrder, PlainFirst,
         NEW w \in Workers, Worker(w)
  PROVE  Promises
<1>p. /\ pc[w] # "idle" => job[w] \in Messages
      /\ Sending(w) => status[job[w]] = "pending"
  BY DEF WorkersOK, OneSenderPerConversation
<1>n. \A m \in Messages : attempt[m] \in Nat /\ sends[m] \in Nat
  BY Bounds DEF RowsOK, Attempts
<1>1. CASE CommitSent(w)
  <2> DEFINE m == job[w]
  <2>1. m \in Messages /\ status[m] = "pending"
    BY <1>1, <1>p DEF CommitSent, Sending
  <2>2. StateOf(status[m]) = "waiting" /\ sends[m] <= attempt[m]
    BY <2>1, Meaning DEF HistoryInv, SendBudget
  <2>3. task[m][0] # "none"
    BY <1>1, <2>1 DEF CommitSent, HistoryInv, RowHistory, PlainFirst, WorkersOK
  <2>4. \A n \in Messages : Follow[n] = m =>
          sends[n] > 0 \/ (n \in OptionalMsgs /\ StateOf(status[n]) = "dropped")
    BY <2>1, <2>3, Meaning, OutboundAssumption DEF SequenceOrder, Accounted
  <2>5. status' = [status EXCEPT ![m] = "sent"] /\ sends' = [sends EXCEPT ![m] = @ + 1]
        /\ UNCHANGED attempt
    BY <1>1 DEF CommitSent
  <2>6. [k \in Messages |-> StateOf(status'[k])]
          = [[k \in Messages |-> StateOf(status[k])] EXCEPT ![m] = "out"]
    BY <2>1, <2>5, Meaning DEF RowsOK, Delivered
  <2> HIDE DEF m
  <2>7. Promised!Deliver(m)
    BY <2>1, <2>2, <2>4, <2>5, <2>6 DEF Promised!Deliver, Promised!Settled
  <2>8. QED
    BY <2>1, <2>7 DEF Promises, Promised!Next
<1>2. CASE ProviderPermanent(w)
  <2> DEFINE m == job[w]
  <2>1. m \in Messages /\ status[m] = "pending" /\ UNCHANGED sends
    BY <1>2, <1>p DEF ProviderPermanent, Sending
  <2>2. CASE attempt[m] >= MaxAttempt
    <3>1. status' = [status EXCEPT ![m] = "failed"] /\ UNCHANGED attempt
      BY <1>2, <2>2 DEF ProviderPermanent
    <3>2. QED
      BY <2>1, <3>1, Writing DEF RowsOK
  <2>3. CASE ~(attempt[m] >= MaxAttempt)
    <3>1. UNCHANGED status /\ attempt' = [attempt EXCEPT ![m] = @ + 1]
      BY <1>2, <2>3 DEF ProviderPermanent
    <3>2. attempt[m] < MaxAttempt
      BY <2>1, <2>3, <1>n, Bounds
    <3>3. StateOf(status[m]) = "waiting"
      BY <2>1, Meaning
    <3> HIDE DEF m
    <3>4. Promised!GrantRetry(m)
      BY <2>1, <3>1, <3>2, <3>3 DEF Promised!GrantRetry
    <3>5. QED
      BY <2>1, <3>4 DEF Promises, Promised!Next
  <2>4. QED
    BY <2>2, <2>3
<1>3. CASE TakeBusiness(w) \/ Refused(w)
  <2>1. UNCHANGED <<attempt, sends>>
    BY <1>3 DEF TakeBusiness, Refused
  <2>2. \A m \in Messages : \/ status'[m] = status[m]
                            \/ status[m] = "pending" /\ status'[m] = "failed"
    BY <1>3, <1>p DEF TakeBusiness, Refused, Sending, RowsOK
  <2>3. QED
    BY <2>1, <2>2, Writing
<1>4. ASSUME NEW m \in Messages, NEW a \in Attempts, Start(w, m, a) PROVE Promises
  <2>1. UNCHANGED <<attempt, sends>>
    BY <1>4 DEF Start, StartSkipped, StartBlocked, StartAllowed, rowVars
  <2>2. \A k \in Messages : \/ status'[k] = status[k]
                            \/ status[k] = "pending" /\ status'[k] = "failed"
    BY <1>4 DEF Start, StartSkipped, StartBlocked, StartAllowed, rowVars, RowsOK
  <2>3. QED
    BY <2>1, <2>2, Writing
<1>5. CASE UNCHANGED <<status, attempt, sends>>
  BY <1>5, Writing
<1>6. QED
  BY <1>1, <1>2, <1>3, <1>4, <1>5 DEF Worker, ProviderAnswers, ProviderAccepts, ProviderTemporary,
     EnqueueRetry, EnqueueNext, Acknowledge, Crash, WorkerVictim, rowVars

\* A webhook confirms an earlier send, however late, or reports the failure of
\* a message that is out.
LEMMA ReportPromised ==
  ASSUME RowsOK, HistoryInv, FailureSeen,
         NEW m \in Messages, NEW s \in Statuses, ApplyStatus(m, s)
  PROVE  Promises
<1>n. attempt[m] \in Nat /\ UNCHANGED sends /\ sends[m] > 0 /\ status[m] \in RowStatuses
  BY Bounds DEF RowsOK, Attempts, ApplyStatus
<1>1. CASE UNCHANGED <<status, attempt>>
  BY <1>1, <1>n, Writing
<1>2. CASE s # "failed" /\ status' = [status EXCEPT ![m] = s] /\ UNCHANGED attempt
  <2>1. [k \in Messages |-> StateOf(status'[k])]
          = [[k \in Messages |-> StateOf(status[k])] EXCEPT ![m] = "out"]
    <3>1. s \in Delivered
      BY <1>2 DEF Statuses, Delivered
    <3>2. QED
      BY <1>2, <3>1, Meaning DEF RowsOK
  <2>2. Promised!Confirm(m)
    BY <1>2, <1>n, <2>1 DEF Promised!Confirm
  <2>3. QED
    BY <2>2 DEF Promises, Promised!Next
<1>3. ASSUME s = "failed", status[m] \notin {"delivered", "read"} PROVE StateOf(status[m]) = "out"
  <2>1. status[m] \notin {"pending", "failed", "absent"}
    BY <1>3, <1>n DEF ApplyStatus, FailureSeen, HistoryInv, RowHistory
  <2>2. status[m] = "sent"
    BY <1>3, <2>1, <1>n DEF RowStatuses, Statuses
  <2>3. QED
    BY <2>2, Meaning DEF Delivered
<1>4. ASSUME s = "failed", status[m] \notin {"delivered", "read"}, RetryGranted(m),
             attempt' = [attempt EXCEPT ![m] = @ + 1], status' = [status EXCEPT ![m] = "pending"]
      PROVE  Promises
  <2>1. [k \in Messages |-> StateOf(status'[k])]
          = [[k \in Messages |-> StateOf(status[k])] EXCEPT ![m] = "waiting"]
    BY <1>4, Meaning DEF RowsOK
  <2>2. attempt[m] < MaxAttempt
    BY <1>4 DEF RetryGranted
  <2>3. Promised!Fail(m)
    BY <1>3, <1>4, <1>n, <2>1, <2>2 DEF Promised!Fail
  <2>4. QED
    BY <2>3 DEF Promises, Promised!Next
<1>5. ASSUME s = "failed", status[m] \notin {"delivered", "read"},
             status' = [status EXCEPT ![m] = s], UNCHANGED attempt
      PROVE  Promises
  <2>1. [k \in Messages |-> StateOf(status'[k])]
          = [[k \in Messages |-> StateOf(status[k])] EXCEPT ![m] = "dropped"]
    BY <1>5, Meaning DEF RowsOK
  <2>2. Promised!Fail(m)
    BY <1>3, <1>5, <1>n, <2>1 DEF Promised!Fail
  <2>3. QED
    BY <2>2 DEF Promises, Promised!Next
<1>6. QED
  BY <1>1, <1>2, <1>4, <1>5 DEF ApplyStatus

\* Every step of OutboundDelivery is a step of Outbox or none.
LEMMA StepPromised ==
  /\ RowsOK /\ WorkersOK /\ OneSenderPerConversation /\ HistoryInv
  /\ SequenceOrder /\ FailureSeen /\ PlainFirst /\ [Next]_vars
  => [Promised!Next]_(Promised!vars)
<1> SUFFICES ASSUME RowsOK, WorkersOK, OneSenderPerConversation, HistoryInv,
                    SequenceOrder, FailureSeen, PlainFirst, [Next]_vars
             PROVE  Promises
  BY DEF Promises
<1>1. ASSUME NEW w \in Workers, Worker(w) PROVE Promises
  BY <1>1, WorkerPromised
<1>2. ASSUME NEW m \in Messages, Row(m) PROVE Promises
  <2>1. CASE EnqueueFirst(m) \/ EnqueueRetryForEvent(m)
    BY <2>1, Writing DEF EnqueueFirst, EnqueueRetryForEvent, rowVars
  <2>2. CASE CreateTurn(m)
    <3>1. \A n \in Sequence(m) : status[n] = "absent"
      BY <2>2 DEF CreateTurn, Sequence, HistoryInv, RowHistory
    <3>2. QED
      BY <2>2, <3>1, Writing DEF CreateTurn
  <2>3. CASE SendManual(m)
    BY <2>3, Writing DEF SendManual, Cancel
  <2>4. ASSUME NEW s \in Statuses, ApplyStatus(m, s) PROVE Promises
    BY <2>4, ReportPromised
  <2>5. QED
    BY <1>2, <2>1, <2>2, <2>3, <2>4 DEF Row
<1>3. CASE Switches
  BY <1>3, SwitchesKeepHistory, Writing
<1>4. CASE UNCHANGED vars
  BY <1>4, Writing DEF vars, rowVars
<1>5. QED
  BY <1>1, <1>2, <1>3, <1>4 DEF Next

\* The tasks, workers, locks, retries and webhooks of the outbox deliver what
\* Outbox promises: each message in its place, within the budget, and nothing
\* that was withdrawn.
THEOREM DeliveryRefinesOutbox == Spec => ImplementsOutbox
<1>1. TypeOK => RowsOK /\ TasksOK /\ WorkersOK
  BY DEF TypeOK
<1>2. Spec => []HistoryInv
  <2>1. TypeOK /\ OneSenderPerConversation /\ HistoryInv /\ [Next]_vars => HistoryInv'
    BY HistoryStep, <1>1
  <2>2. Init => HistoryInv
    BY HistoryInit
  <2>3. QED
    BY <2>1, <2>2, OneSender, TypeCorrect, PTL DEF Spec
<1>3. Spec => [](FailureSeen /\ PlainFirst)
  <2>1. /\ TypeOK /\ OneSenderPerConversation /\ HistoryInv /\ FailureSeen /\ PlainFirst
        /\ [Next]_vars
        => (FailureSeen /\ PlainFirst)'
    BY FailureSeenStep, PlainFirstStep, <1>1
  <2>2. QED
    BY <2>1, <1>2, NewsInit, OneSender, TypeCorrect, PTL DEF Spec
<1>4. /\ TypeOK /\ OneSenderPerConversation /\ HistoryInv /\ SequenceOrder
      /\ FailureSeen /\ PlainFirst /\ [Next]_vars
      => [Promised!Next]_(Promised!vars)
  BY StepPromised, <1>1
<1>5. QED
  BY <1>2, <1>3, <1>4, InitPromised, OneSender, SequenceOrdered, TypeCorrect, PTL
     DEF Spec, ImplementsOutbox, Promised!Spec
-----------------------------------------------------------------------------
(* The monthly limit.                                                      *)

Undisputed == Counted \ Disputed

\* Whoever holds the business row has room for one more message.
QuotaInv ==
  /\ IsFiniteSet(Counted)
  /\ Cardinality(Undisputed) <= Quota
  /\ \A w \in Workers : HoldsBusiness(w) => Cardinality(Undisputed) < Quota
  /\ \A v, w \in Workers : HoldsBusiness(v) /\ HoldsBusiness(w) => v = w

LEMMA QuotaInit == Init => QuotaInv
<1> SUFFICES ASSUME Init PROVE QuotaInv
  OBVIOUS
<1>1. Counted = {} /\ Undisputed = {}
  BY DEF Init, Counted, Undisputed, Delivered
<1>2. IsFiniteSet({}) /\ Cardinality({}) = 0
  BY FS_EmptySet
<1>3. \A w \in Workers : ~HoldsBusiness(w)
  BY DEF Init, HoldsBusiness
<1> QED BY <1>1, <1>2, <1>3, OutboundAssumption DEF QuotaInv

\* Only a send adds a message to those that count and are not disputed.
LEMMA Counting ==
  ASSUME RowsOK, WorkersOK, OneSenderPerConversation, HistoryInv, FailureSeen, [Next]_vars
  PROVE  /\ \/ Undisputed' \subseteq Undisputed
            \/ \E w \in Workers : CommitSent(w) /\ Undisputed' \subseteq Undisputed \cup ({job[w]} \ Reactions)
         /\ \E m : Counted' \subseteq Counted \cup {m}
<1> DEFINE Less == \A m \in Messages : /\ status'[m] \in Delivered => status[m] \in Delivered
                                       /\ "failed" \in seen[m] => "failed" \in seen'[m]
<1>l. ASSUME Less
      PROVE  Undisputed' \subseteq Undisputed /\ \E m : Counted' \subseteq Counted \cup {m}
  BY <1>l DEF Undisputed, Disputed, Counted
<1>p. \A w \in Workers : /\ pc[w] # "idle" => job[w] \in Messages
                         /\ Sending(w) => status[job[w]] = "pending"
  BY DEF WorkersOK, OneSenderPerConversation
<1>d. "failed" \notin Delivered /\ "pending" \notin Delivered
  BY DEF Delivered
<1>1. ASSUME NEW w \in Workers, CommitSent(w)
      PROVE  /\ Undisputed' \subseteq Undisputed \cup ({job[w]} \ Reactions)
             /\ Counted' \subseteq Counted \cup {job[w]}
  <2>1. /\ job[w] \in Messages
        /\ \A m \in Messages : m # job[w] => status'[m] = status[m] /\ seen'[m] = seen[m]
    BY <1>1, <1>p DEF CommitSent, RowsOK
  <2> QED BY <2>1 DEF Undisputed, Disputed, Counted
<1>2. ASSUME NEW w \in Workers, Worker(w), ~CommitSent(w) PROVE Less
  <2>1. UNCHANGED seen
    BY <1>2 DEF Worker, Start, StartSkipped, StartBlocked, StartAllowed, TakeBusiness, ProviderAnswers,
       Refused, ProviderPermanent, ProviderAccepts, ProviderTemporary, EnqueueRetry, EnqueueNext,
       Acknowledge, Crash, WorkerVictim, rowVars
  <2>2. UNCHANGED status \/ \E m \in Messages : status' = [status EXCEPT ![m] = "failed"]
    BY <1>2, <1>p DEF Worker, Start, StartSkipped, StartBlocked, StartAllowed, TakeBusiness,
       ProviderAnswers, Refused, ProviderPermanent, ProviderAccepts, ProviderTemporary, EnqueueRetry,
       EnqueueNext, Acknowledge, Crash, WorkerVictim, rowVars
  <2> QED BY <1>d, <2>1, <2>2 DEF RowsOK
<1>3. ASSUME NEW m \in Messages, Row(m), \A s \in Statuses : ~ApplyStatus(m, s) PROVE Less
  <2>1. UNCHANGED seen
    BY <1>3 DEF Row, EnqueueFirst, EnqueueRetryForEvent, CreateTurn, SendManual, rowVars
  <2>2. \A n \in Messages : status'[n] \in {status[n], "pending", "failed"}
    BY <1>3 DEF Row, EnqueueFirst, EnqueueRetryForEvent, CreateTurn, SendManual, Cancel, rowVars, RowsOK
  <2> QED BY <1>d, <2>1, <2>2
<1>4. ASSUME NEW m \in Messages, NEW s \in Statuses, ApplyStatus(m, s)
      PROVE  /\ Undisputed' \subseteq Undisputed
             /\ Counted' \subseteq Counted \cup {m}
  <2>1. /\ \A n \in Messages : n # m => status'[n] = status[n] /\ seen'[n] = seen[n]
        /\ seen'[m] = seen[m] \cup {s} /\ sends[m] > 0
    BY <1>4 DEF ApplyStatus, RowsOK
  <2>2. "failed" \notin seen[m] => status[m] \in Delivered
    <3>1. status[m] # "absent"
      BY <2>1 DEF HistoryInv, RowHistory
    <3>2. status[m] \in {"pending", "failed"} => "failed" \in seen[m]
      BY <2>1 DEF FailureSeen
    <3> QED BY <3>1, <3>2 DEF RowsOK, RowStatuses, Statuses, Delivered
  <2> QED BY <2>1, <2>2 DEF Undisputed, Disputed, Counted
<1>5. ASSUME Switches PROVE Less
  <2>1. UNCHANGED seen
    BY <1>5 DEF Switches, Operator, ToggleOff, ToggleOn, DeleteConversation,
     ExcludeBegin, ExcludeCommit, Include,
       EntitlementChanges, SettingsOn, SettingsOffBegin, SettingsOffCommit, SettingsVictim,
       MarkHumanOnly, WindowExpires, rowVars
  <2> QED BY <1>5, <1>d, <2>1, SwitchesKeepHistory
<1>6. ASSUME UNCHANGED vars PROVE Less
  BY <1>6 DEF vars, rowVars
<1> HIDE DEF Less
<1> QED BY <1>l, <1>1, <1>2, <1>3, <1>4, <1>5, <1>6 DEF Next

\* The row of the business has one holder, who took it with room left.
LEMMA Holding ==
  ASSUME WorkersOK, QuotaInv, [Next]_vars
  PROVE  /\ \A w \in Workers : HoldsBusiness(w)' /\ ~HoldsBusiness(w) =>
                /\ \A v \in Workers : ~HoldsBusiness(v)
                /\ \A v \in Workers : HoldsBusiness(v)' => v = w
                /\ Cardinality(Counted) < Quota /\ UNCHANGED rowVars
         /\ \A w \in Workers : CommitSent(w) => ~HoldsBusiness(w)'
<1>1. ASSUME NEW w \in Workers, CommitSent(w) PROVE ~HoldsBusiness(w)'
  BY <1>1 DEF CommitSent, Leaves, HoldsBusiness, WorkersOK
<1>2. ASSUME NEW w \in Workers, HoldsBusiness(w)', ~HoldsBusiness(w)
      PROVE  /\ \A v \in Workers : ~HoldsBusiness(v)
             /\ \A v \in Workers : HoldsBusiness(v)' => v = w
             /\ Cardinality(Counted) < Quota /\ UNCHANGED rowVars
  <2>1. PICK v \in Workers : Worker(v)
    BY <1>2, RowKeepsWorkers, SwitchesKeepTasks DEF Next, vars, workerVars, HoldsBusiness
  <2>2. \A u \in Workers \ {v} : pc'[u] = pc[u] /\ job'[u] = job[u]
    BY <2>1 DEF Worker, Start, StartSkipped, StartBlocked, StartAllowed, Takes, TakeBusiness,
       ProviderAnswers, Refused, ProviderPermanent, ProviderAccepts, ProviderTemporary, CommitSent,
       EnqueueRetry, EnqueueNext, Acknowledge, Crash, WorkerVictim, GivesUp, Leaves, WorkersOK
  <2>3. v = w
    BY <1>2, <2>2 DEF HoldsBusiness
  <2>4. TakeBusiness(w) /\ pc'[w] = "calling"
    <3>1. ~CommitSent(w)
      BY <1>1, <1>2
    <3>2. pc'[w] \in {"calling", "accepted"} /\ job'[w] \notin Reactions
      BY <1>2 DEF HoldsBusiness
    <3>3. ASSUME NEW m \in Messages, NEW a \in Attempts PROVE ~Start(w, m, a)
      BY <3>2 DEF Start, StartSkipped, StartBlocked, StartAllowed, Takes, Leaves, WorkersOK
    <3>4. ~ProviderAccepts(w)
      BY <1>2 DEF ProviderAccepts, Leaves, HoldsBusiness, WorkersOK
    <3>5. ProviderTemporary(w) \/ Acknowledge(w) \/ Crash(w) \/ WorkerVictim(w) => pc'[w] = "idle"
      BY DEF ProviderTemporary, Acknowledge, Crash, WorkerVictim, GivesUp, Leaves, WorkersOK
    <3>6. Refused(w) \/ ProviderPermanent(w) \/ EnqueueRetry(w) \/ EnqueueNext(w)
            => pc'[w] \in {"next", "retry", "ack"}
      BY DEF Refused, ProviderPermanent, EnqueueRetry, EnqueueNext, Leaves, WorkersOK
    <3>7. TakeBusiness(w)
      BY <2>1, <2>3, <3>1, <3>2, <3>3, <3>4, <3>5, <3>6 DEF Worker, ProviderAnswers
    <3>8. pc'[w] \in {"next", "calling"}
      BY <3>7 DEF TakeBusiness, Leaves, WorkersOK
    <3> QED BY <3>2, <3>7, <3>8
  <2>5. (\A u \in Workers : ~HoldsBusiness(u)) /\ ~QuotaBlocked /\ UNCHANGED rowVars
    BY <2>4 DEF TakeBusiness, BusinessFree, Leaves, WorkersOK, rowVars
  <2>6. Cardinality(Counted) \in Nat
    BY FS_CardinalityType DEF QuotaInv
  <2>7. \A u \in Workers : HoldsBusiness(u)' => u = w
    BY <2>2, <2>3, <2>5 DEF HoldsBusiness
  <2> QED BY <2>5, <2>6, <2>7, OutboundAssumption DEF QuotaBlocked
<1> QED BY <1>1, <1>2

LEMMA QuotaStep ==
  ASSUME RowsOK, WorkersOK, OneSenderPerConversation, HistoryInv, FailureSeen, QuotaInv, [Next]_vars
  PROVE  QuotaInv'
<1>q. Quota \in Nat
  BY OutboundAssumption
<1>1. IsFiniteSet(Counted')
  <2>1. PICK m : Counted' \subseteq Counted \cup {m}
    BY Counting
  <2>2. IsFiniteSet(Counted \cup {m})
    BY FS_AddElement DEF QuotaInv
  <2> QED BY <2>1, <2>2, FS_Subset
<1>2. /\ IsFiniteSet(Undisputed) /\ Cardinality(Undisputed) \in Nat
      /\ Cardinality(Undisputed) <= Cardinality(Counted)
      /\ Cardinality(Undisputed') \in Nat
  <2>1. Undisputed \subseteq Counted /\ Undisputed' \subseteq Counted'
    BY DEF Undisputed
  <2>2. IsFiniteSet(Undisputed')
    BY <1>1, <2>1, FS_Subset
  <2> QED BY <2>1, <2>2, FS_Subset, FS_CardinalityType DEF QuotaInv
<1>3. CASE Undisputed' \subseteq Undisputed
  <2>1. Cardinality(Undisputed') <= Cardinality(Undisputed)
    BY <1>2, <1>3, FS_Subset
  <2>2. ASSUME NEW w \in Workers, HoldsBusiness(w)' PROVE Cardinality(Undisputed') < Quota
    <3>1. CASE HoldsBusiness(w)
      BY <1>q, <1>2, <2>1, <3>1 DEF QuotaInv
    <3>2. CASE ~HoldsBusiness(w)
      <4>1. Cardinality(Counted) < Quota
        BY <2>2, <3>2, Holding
      <4>2. Cardinality(Counted) \in Nat
        BY FS_CardinalityType DEF QuotaInv
      <4> QED BY <1>q, <1>2, <2>1, <4>1, <4>2
    <3> QED BY <3>1, <3>2
  <2>3. \A v, w \in Workers : HoldsBusiness(v)' /\ HoldsBusiness(w)' => v = w
    BY Holding DEF QuotaInv
  <2> QED BY <1>q, <1>1, <1>2, <2>1, <2>2, <2>3 DEF QuotaInv
<1>4. ASSUME NEW w \in Workers, CommitSent(w), Undisputed' \subseteq Undisputed \cup ({job[w]} \ Reactions),
             ~(Undisputed' \subseteq Undisputed)
      PROVE  QuotaInv'
  <2>1. job[w] \notin Reactions /\ Undisputed' \subseteq Undisputed \cup {job[w]}
    BY <1>4
  <2>2. HoldsBusiness(w)
    BY <1>4, <2>1 DEF CommitSent, HoldsBusiness
  <2>3. Cardinality(Undisputed) < Quota /\ \A v \in Workers : HoldsBusiness(v) => v = w
    BY <2>2 DEF QuotaInv
  <2>4. Cardinality(Undisputed') <= Cardinality(Undisputed) + 1
    <3>1. /\ IsFiniteSet(Undisputed \cup {job[w]})
          /\ Cardinality(Undisputed \cup {job[w]}) \in {Cardinality(Undisputed), Cardinality(Undisputed) + 1}
      BY <1>2, FS_AddElement
    <3>2. Cardinality(Undisputed') <= Cardinality(Undisputed \cup {job[w]})
      BY <2>1, <3>1, FS_Subset
    <3> QED BY <1>2, <3>1, <3>2
  <2>5. \A v \in Workers : ~HoldsBusiness(v)'
    BY <1>4, <2>2, <2>3, Holding
  <2> QED BY <1>q, <1>1, <1>2, <2>3, <2>4, <2>5 DEF QuotaInv
<1> QED BY <1>3, <1>4, Counting

\* Concurrent sends do not cross the limit of the plan, whatever workers,
\* crashes and webhooks do: each counts under the lock of the business row,
\* which it keeps until its own send has committed.
THEOREM QuotaIsRespected == Spec => []QuotaRespected
<1>1. /\ TypeOK /\ OneSenderPerConversation /\ HistoryInv /\ FailureSeen /\ QuotaInv /\ [Next]_vars
      => QuotaInv'
  BY QuotaStep DEF TypeOK
<1>2. TypeOK /\ OneSenderPerConversation /\ HistoryInv /\ FailureSeen /\ [Next]_vars => FailureSeen'
  BY FailureSeenStep DEF TypeOK
<1>3. TypeOK /\ OneSenderPerConversation /\ HistoryInv /\ [Next]_vars => HistoryInv'
  BY HistoryStep DEF TypeOK
<1>4. QuotaInv => QuotaRespected
  BY DEF QuotaInv, QuotaRespected, Undisputed
<1> QED BY <1>1, <1>2, <1>3, <1>4, QuotaInit, NewsInit, HistoryInit, OneSender, TypeCorrect, PTL DEF Spec
=============================================================================

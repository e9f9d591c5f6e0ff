------------------------------ MODULE Outreach ------------------------------
(***************************************************************************)
(* Messages the assistant sends of its own accord: a question to whoever   *)
(* stopped answering for 24 hours, and the reminder of a cleaning that is  *)
(* six months old (ALOVIA_PROACTIVE_OUTREACH_ENABLED).                     *)
(*                                                                         *)
(*   automation/lifecycle.py, api/internal_tasks.py (lifecycle-outreach)   *)
(*   repositories/outbound_tasks.py (mark_sent, mark_failed)               *)
(*   repositories/whatsapp_webhook.py, conversations/transitions.py        *)
(*   booking/availability.py (what an accepted reminder records)           *)
(*                                                                         *)
(* A sweep is one transaction of two queries and its inserts, which others *)
(* see at its end; then it enqueues.  It locks no conversation.  A worker's*)
(* transaction, a webhook and a turn of the conversation lock theirs: each *)
(* is one action.  How a task is created and repeated is OutboundDelivery. *)
(***************************************************************************)
EXTENDS Naturals, FiniteSets, Sequences

CONSTANTS
  Conversations,
  Served,        \* customers whose last visit is six months old
  Sweepers,      \* sweeps that run at once
  Limit,         \* rows a sweep takes (OUTREACH_BATCH_LIMIT)
  Plus,          \* the plan has the plus features
  MaxClock,      \* bound on the interactions
  MaxReports,    \* bound on the failures the provider reports
  MaxCrashes,    \* bound on the sweeps that die before they enqueue
  MaxOps         \* bound on the operator's actions

ASSUME OutreachAssumption ==
  /\ Served \subseteq Conversations
  /\ Limit \in Nat /\ Plus \in BOOLEAN
  /\ MaxClock \in Nat \ {0} /\ MaxReports \in Nat /\ MaxCrashes \in Nat /\ MaxOps \in Nat

VARIABLES
  clock, last,   \* interactions counted; last_interaction_at of a conversation
  quiet,         \* last_interaction_at is 24 hours old
  open,          \* the switches let the assistant write (Blocked of OutboundDelivery)
  stage,         \* of the conversation: intake, moving a booking, or over
  booked,        \* a confirmed appointment is ahead
  turn,          \* what the customer wrote and the engine has not yet answered
  asked,         \* inactivity_followup_pending_response
  reminded,      \* cleaning_outreach_pending_response
  source,        \* cleaning_outreach_id is in the context
  row,           \* customer_outreach.status
  created, sent, \* rows of a conversation in the order of created_at and sent_at
  part,          \* the messages of a row: "queued" is pending with a task
  told,          \* messages that reached the provider (history)
  step, made,    \* a sweep, the rows it is about to insert or has inserted
  reports, crashes, ops

chatVars  == <<clock, last, quiet, open, stage, booked, turn>>
flagVars  == <<asked, reminded, source>>
rowVars   == <<row, created, sent, part, told>>
sweepVars == <<step, made>>
vars == <<chatVars, flagVars, rowVars, sweepVars, reports, crashes, ops>>

-----------------------------------------------------------------------------
\* The key of a row: a conversation and the silence it asks about, counted
\* from its last interaction, or 0 for the visit the reminder is about.
Keys == Conversations \X (0 .. MaxClock)
IsReminder(k) == k[2] = 0
Parts == {0, 1}
PartsOf(k) == IF IsReminder(k) THEN Parts ELSE {0}
FinalPart(k) == IF IsReminder(k) THEN 1 ELSE 0

RowStates  == {"absent", "pending", "sent", "skipped", "responded", "declined",
               "accepted", "failed"}
PartStates == {"absent", "pending", "queued", "sent", "failed"}
Stages     == {"intake", "moving", "over"}
Answers    == {"yes", "no", "refuse", "unwilling", "upset", "other"}

\* Type invariant: conversations, rows (one of a key), messages, sweeps, bounds.
TypeOK ==
  /\ clock \in 1 .. MaxClock /\ last \in [Conversations -> 1 .. MaxClock]
  /\ \A f \in {quiet, open, booked, asked, reminded, source} :
       f \in [Conversations -> BOOLEAN]
  /\ stage \in [Conversations -> Stages]
  /\ turn \in [Conversations -> Answers \cup {"none"}]
  /\ row \in [Keys -> RowStates]
  /\ \A q \in {created, sent} :
       /\ q \in [Conversations -> Seq(Keys)]
       /\ \A c \in Conversations : \A i, j \in DOMAIN q[c] :
            q[c][i][1] = c /\ (q[c][i] = q[c][j] => i = j)
  /\ part \in [Keys -> [Parts -> PartStates]]
  /\ told \in [Keys -> SUBSET Parts]
  /\ step \in [Sweepers -> {"idle", "insert", "enqueue"}]
  /\ made \in [Sweepers -> SUBSET Keys]
  /\ \A k \in Keys : (row[k] = "absent") = (\A i \in Parts : part[k][i] = "absent")
  /\ reports \in 0 .. MaxReports /\ crashes \in 0 .. MaxCrashes /\ ops \in 0 .. MaxOps

Init ==
  /\ clock = 1 /\ last = [c \in Conversations |-> 1]
  /\ quiet = [c \in Conversations |-> FALSE]
  /\ open = [c \in Conversations |-> TRUE]
  /\ stage \in [Conversations -> {"intake", "over"}]
  /\ booked = [c \in Conversations |-> FALSE]
  /\ turn = [c \in Conversations |-> "none"]
  /\ asked = [c \in Conversations |-> FALSE]
  /\ reminded = [c \in Conversations |-> FALSE]
  /\ source = [c \in Conversations |-> FALSE]
  /\ row = [k \in Keys |-> "absent"]
  /\ created = [c \in Conversations |-> <<>>] /\ sent = [c \in Conversations |-> <<>>]
  /\ part = [k \in Keys |-> [i \in Parts |-> "absent"]]
  /\ told = [k \in Keys |-> {}]
  /\ step = [s \in Sweepers |-> "idle"]
  /\ made = [s \in Sweepers |-> {}]
  /\ reports = 0 /\ crashes = 0 /\ ops = 0

-----------------------------------------------------------------------------
(* The sweep.                                                              *)

\* At most n of the conversations, those that are silent the longest first.
Oldest(C, n, S) ==
  /\ S \subseteq C
  /\ Cardinality(S) = IF Cardinality(C) < n THEN Cardinality(C) ELSE n
  /\ \A c \in S, d \in C \ S : last[c] <= last[d]

\* Whoever was asked already is selected again: nothing excludes them.
Silent == {c \in Conversations : quiet[c] /\ open[c] /\ stage[c] # "over"}
DueForCleaning == {c \in Served : open[c] /\ Plus /\ ~booked[c]}

Exists(k) == row[k] # "absent"

\* _create_incomplete_followups and _create_cleaning_followups read and look
\* for the keys; the reminders take what the questions leave of the limit.
SweepReads(s) ==
  /\ step[s] = "idle"
  /\ \E S \in SUBSET Silent, D \in SUBSET DueForCleaning :
       LET asks == {k \in {<<c, last[c]>> : c \in {d \in S : stage[d] = "intake"}} : ~Exists(k)}
           left == Limit - Cardinality(asks)
           new  == asks \cup {k \in {<<c, 0>> : c \in D} : ~Exists(k)}
       IN /\ Oldest(Silent, Limit, S)
          /\ Cardinality(D) = IF Cardinality(DueForCleaning) < left
                              THEN Cardinality(DueForCleaning) ELSE left
          /\ new # {}
          /\ made' = [made EXCEPT ![s] = new]
  /\ step' = [step EXCEPT ![s] = "insert"]
  /\ UNCHANGED <<chatVars, flagVars, rowVars, reports, crashes, ops>>

\* Mutant: the key of a row is not unique.
CollidesNever(s) == s \notin Sweepers
\* Another sweep committed a row with the same idempotency_key.
Collides(s) == \E k \in made[s] : Exists(k)

NewOf(K, c) == {k \in K : k[1] = c}
Orderings(S) == {q \in [1 .. Cardinality(S) -> S] : \A x \in S : \E i \in DOMAIN q : q[i] = x}

\* The rows and their messages become visible.
SweepCommits(s) ==
  LET K == made[s] IN
  /\ step[s] = "insert" /\ ~Collides(s)
  /\ row' = [k \in Keys |-> IF k \in K THEN "pending" ELSE row[k]]
  /\ part' = [k \in Keys |-> IF k \in K
                THEN [i \in Parts |-> IF i \in PartsOf(k) THEN "pending" ELSE "absent"]
                ELSE part[k]]
  /\ \E q \in [Conversations -> UNION {Orderings(NewOf(K, c)) : c \in Conversations}] :
       /\ \A c \in Conversations : q[c] \in Orderings(NewOf(K, c))
       /\ created' = [c \in Conversations |-> created[c] \o q[c]]
  /\ step' = [step EXCEPT ![s] = "enqueue"]
  /\ UNCHANGED <<chatVars, flagVars, sent, told, made, reports, crashes, ops>>

SweepEnds(s) ==
  /\ step' = [step EXCEPT ![s] = "idle"]
  /\ made' = [made EXCEPT ![s] = {}]

\* IntegrityError: 503, nothing of this sweep remains.
SweepRollsBack(s) ==
  /\ step[s] = "insert" /\ Collides(s)
  /\ SweepEnds(s)
  /\ UNCHANGED <<chatVars, flagVars, rowVars, reports, crashes, ops>>

\* enqueue_outbound_message_ids: the first message of each row.  A task of a
\* message that is no longer pending does nothing and is not kept.
SweepEnqueues(s) ==
  /\ step[s] = "enqueue"
  /\ part' = [k \in Keys |-> IF k \in made[s] /\ part[k][0] = "pending"
                THEN [part[k] EXCEPT ![0] = "queued"] ELSE part[k]]
  /\ SweepEnds(s)
  /\ UNCHANGED <<chatVars, flagVars, row, created, sent, told, reports, crashes, ops>>

\* It dies, or the queue is unavailable, after it committed.
SweepDies(s) ==
  /\ step[s] # "idle" /\ crashes < MaxCrashes
  /\ crashes' = crashes + 1
  /\ SweepEnds(s)
  /\ UNCHANGED <<chatVars, flagVars, rowVars, reports, ops>>

-----------------------------------------------------------------------------
(* The worker.                                                             *)

\* Mutant: any message of the reminder settles its row.
SettlesAnyPart(k, i) == i \in PartsOf(k)
Settles(k, i) == i = FinalPart(k)

\* Mutant: mark_sent does not ask for a pending row.
WaitsAnyway(k) == row[k] # "absent"
Waits(k) == row[k] = "pending"

\* The switches, the service window of the basic plan, or the provider.
MarkFailed(k, i) ==
  /\ part[k][i] = "queued"
  /\ part' = [part EXCEPT ![k][i] = "failed"]
  /\ row' = IF Waits(k) THEN [row EXCEPT ![k] = "failed"] ELSE row
  /\ UNCHANGED <<chatVars, flagVars, created, sent, told, sweepVars, reports, crashes, ops>>

\* The message is out, the conversation will take the next answer for an
\* answer to it, and the next message of the reminder gets its task.  The
\* basic plan writes within a day of the customer's last message.
MarkSent(k, i) ==
  LET c == k[1]
      ends == Settles(k, i) /\ Waits(k) IN
  /\ part[k][i] = "queued"
  /\ open[c] /\ (Plus \/ ~quiet[c])
  /\ part' = [part EXCEPT ![k] = [j \in Parts |->
                IF j = i THEN "sent" ELSE IF j > i /\ @[j] = "pending" THEN "queued" ELSE @[j]]]
  /\ told' = [told EXCEPT ![k] = @ \cup {i}]
  /\ row' = IF ends THEN [row EXCEPT ![k] = "sent"] ELSE row
  /\ sent' = IF ends THEN [sent EXCEPT ![c] = Append(@, k)] ELSE sent
  /\ asked' = IF IsReminder(k) THEN asked ELSE [asked EXCEPT ![c] = TRUE]
  /\ reminded' = IF IsReminder(k) THEN [reminded EXCEPT ![c] = TRUE] ELSE reminded
  /\ source' = IF IsReminder(k) THEN [source EXCEPT ![c] = TRUE] ELSE source
  /\ UNCHANGED <<chatVars, created, sweepVars, reports, crashes, ops>>

\* A webhook reports that the message failed; a retry may be granted.
ReportFailed(k, i) ==
  /\ part[k][i] = "sent" /\ reports < MaxReports
  /\ reports' = reports + 1
  /\ \E p \in {"queued", "failed"} : part' = [part EXCEPT ![k][i] = p]
  /\ UNCHANGED <<chatVars, flagVars, row, created, sent, told, sweepVars, crashes, ops>>

-----------------------------------------------------------------------------
(* The customer.                                                           *)

\* The row an answer is taken for: the last one sent, or else the last one
\* that is yet to be sent.
LastOf(s, st) == CHOOSE i \in DOMAIN s :
  row[s[i]] = st /\ \A j \in DOMAIN s : j > i => row[s[j]] # st
Has(s, st) == \E i \in DOMAIN s : row[s[i]] = st
Answered(c) ==
  IF Has(sent[c], "sent") THEN {sent[c][LastOf(sent[c], "sent")]}
  ELSE IF Has(created[c], "pending") THEN {created[c][LastOf(created[c], "pending")]}
  ELSE {}

Declining == {"refuse", "unwilling"}    \* the phrases of mark_outreach_response
After(k, says) == IF row[k] = "pending" THEN "skipped"
                  ELSE IF says \in Declining THEN "declined" ELSE "responded"

Unsent == {"pending", "queued"}
Failing(p) == [i \in Parts |-> IF p[i] \in Unsent THEN "failed" ELSE p[i]]

\* Mutant: the messages of a skipped row stay pending.
WithdrawnKept(A) == part
Withdrawn(A) ==
  [k \in Keys |-> IF k \in A /\ row[k] = "pending" THEN Failing(part[k]) ELSE part[k]]

\* touch_conversation, persist_inbound_message, mark_outreach_response.  What
\* arrives before the turn is merged into it; while the assistant may not
\* answer there is no turn.
Inbound(c, says) ==
  /\ clock < MaxClock
  /\ clock' = clock + 1 /\ last' = [last EXCEPT ![c] = clock + 1]
  /\ quiet' = [quiet EXCEPT ![c] = FALSE]
  /\ turn' = [turn EXCEPT ![c] = IF ~open[c] THEN "none" ELSE IF @ = "none" THEN says ELSE "other"]
  /\ part' = Withdrawn(Answered(c))
  /\ row' = [k \in Keys |-> IF k \in Answered(c) THEN After(k, says) ELSE row[k]]
  /\ UNCHANGED <<open, stage, booked, flagVars, created, sent, told, sweepVars, reports,
                 crashes, ops>>

\* The turn ends in a booking, which credits the reminder it came from.
Credited(c) ==
  IF source[c] /\ row[<<c, 0>>] \in {"sent", "responded"}
  THEN [row EXCEPT ![<<c, 0>>] = "accepted"] ELSE row

Turn(c) ==
  /\ turn[c] # "none"
  /\ turn' = [turn EXCEPT ![c] = "none"]
  /\ \/ /\ ~open[c]
        /\ UNCHANGED <<open, stage, booked, flagVars, row>>
     \/ /\ open[c] /\ asked[c] /\ turn[c] = "upset"
        /\ open' = [open EXCEPT ![c] = FALSE]
        /\ stage' = [stage EXCEPT ![c] = "over"]
        /\ asked' = [asked EXCEPT ![c] = FALSE]
        /\ UNCHANGED <<booked, reminded, source, row>>
     \/ /\ open[c] /\ reminded[c] /\ turn[c] \in {"no", "refuse"}
        /\ stage' = [stage EXCEPT ![c] = "over"]
        /\ reminded' = [reminded EXCEPT ![c] = FALSE]
        /\ source' = [source EXCEPT ![c] = FALSE]
        /\ UNCHANGED <<open, booked, asked, row>>
     \/ /\ open[c] /\ reminded[c] /\ turn[c] = "yes"
        /\ stage' = [stage EXCEPT ![c] = "intake"]
        /\ reminded' = [reminded EXCEPT ![c] = FALSE]
        /\ UNCHANGED <<open, booked, asked, source, row>>
     \/ /\ open[c] /\ ~(asked[c] /\ turn[c] = "upset")
        /\ ~(reminded[c] /\ turn[c] \in {"no", "refuse", "yes"})
        /\ asked' = [asked EXCEPT ![c] = FALSE]
        /\ \/ /\ stage[c] = "intake"
              /\ stage' = [stage EXCEPT ![c] = "over"]
              /\ booked' = [booked EXCEPT ![c] = TRUE]
              /\ row' = Credited(c)
           \/ /\ \E t \in Stages : (t = "moving" => booked[c]) /\ stage' = [stage EXCEPT ![c] = t]
              /\ UNCHANGED <<booked, row>>
        /\ UNCHANGED <<open, reminded, source>>
  /\ UNCHANGED <<clock, last, quiet, created, sent, part, told, sweepVars, reports,
                 crashes, ops>>

-----------------------------------------------------------------------------
(* Time and the office.                                                    *)

DayPasses ==
  /\ \E c \in Conversations : ~quiet[c]
  /\ quiet' = [c \in Conversations |-> TRUE]
  /\ UNCHANGED <<clock, last, open, stage, booked, turn, flagVars, rowVars, sweepVars, reports,
                 crashes, ops>>

\* cancel_pending_outbounds: the row of the outreach is left as it is.
Cancelled(c) == [k \in Keys |-> IF k[1] = c THEN Failing(part[k]) ELSE part[k]]

\* A person writes (register_manual_business_message), or turns the assistant off.
Silence(c) ==
  /\ open' = [open EXCEPT ![c] = FALSE]
  /\ part' = Cancelled(c)
  /\ \/ /\ clock < MaxClock
        /\ clock' = clock + 1 /\ last' = [last EXCEPT ![c] = clock + 1]
        /\ quiet' = [quiet EXCEPT ![c] = FALSE]
     \/ UNCHANGED <<clock, last, quiet>>
  /\ UNCHANGED <<stage, booked, turn, flagVars, row, created, sent, told, sweepVars,
                 reports, crashes>>

\* The window of a person's message passes, or the assistant is turned on.
Reopen(c) ==
  /\ ~open[c]
  /\ open' = [open EXCEPT ![c] = TRUE]
  /\ UNCHANGED <<clock, last, quiet, stage, booked, turn, flagVars, rowVars, sweepVars,
                 reports, crashes>>

\* The visit that was ahead is called off.
CallOff(c) ==
  /\ booked[c]
  /\ booked' = [booked EXCEPT ![c] = FALSE]
  /\ UNCHANGED <<clock, last, quiet, open, stage, turn, flagVars, rowVars, sweepVars,
                 reports, crashes>>

Office ==
  /\ ops < MaxOps
  /\ ops' = ops + 1
  /\ \E c \in Conversations : Silence(c) \/ Reopen(c) \/ CallOff(c)

Sweep(s) ==
  \/ SweepReads(s) \/ SweepCommits(s)
  \/ SweepRollsBack(s) \/ SweepEnqueues(s) \/ SweepDies(s)

Delivery(k, i) == MarkFailed(k, i) \/ MarkSent(k, i) \/ ReportFailed(k, i)

Customer(c) == Turn(c) \/ \E says \in Answers : Inbound(c, says)

Next ==
  \/ \E s \in Sweepers : Sweep(s)
  \/ \E k \in Keys, i \in Parts : Delivery(k, i)
  \/ \E c \in Conversations : Customer(c)
  \/ DayPasses
  \/ Office

Spec == Init /\ [][Next]_vars

-----------------------------------------------------------------------------
(* Properties.                                                             *)

\* A row that counts as sent, answered or accepted stands for messages the
\* customer got, all of them: two sweeps, a reminder cut short by an answer
\* or by the office, retries and late failures do not count as more than was
\* said (mark_sent, mark_outreach_response, confirm_booking).
OutcomeWasTold == \A k \in Keys :
  row[k] \in {"sent", "responded", "declined", "accepted"} => told[k] = PartsOf(k)

\* A row that was skipped because the customer wrote first is never completed
\* behind their answer (mark_outreach_response fails its pending messages).
SkippedStaysUntold == \A k \in Keys : row[k] = "skipped" => FinalPart(k) \notin told[k]

\* What became of an outreach is settled once: retries of its messages, a
\* second answer or another sweep do not reopen a row that was skipped,
\* declined, accepted or failed.
OutcomeStays ==
  [][\A k \in Keys : row[k] \in {"skipped", "declined", "accepted", "failed"}
                       => row'[k] = row[k]]_vars

\* What the code does not keep: nothing is sent after the customer answered
\* that was written before (a sweep and a webhook, or two rows at once).
SilentAfterAnswer ==
  [][\A k \in Keys : \A i \in told'[k] \ told[k] :
       IsReminder(k) \/ k[2] = last[k[1]]]_vars
=============================================================================

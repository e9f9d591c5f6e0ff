------------------------------- MODULE Outbox -------------------------------
(***************************************************************************)
(* What the outbox promises the customer, without tasks, workers or locks: *)
(* each message is delivered in its place of the sequence and never more   *)
(* often than it was granted; what was withdrawn is not delivered later;   *)
(* what was delivered is delivered again only after its failure was        *)
(* reported and a retry was left.                                          *)
(***************************************************************************)
EXTENDS Naturals

CONSTANTS
  Messages,
  NoMsg,
  Follow,         \* the next message of the same sequence, or NoMsg
  OptionalMsgs,   \* withdrawn without holding up what follows
  MaxRetries

VARIABLES
  state,          \* of a message: absent, waiting, out or dropped
  sent,           \* its deliveries
  retries         \* the retries it was granted

vars == <<state, sent, retries>>

States == {"absent", "waiting", "out", "dropped"}

Init ==
  /\ state = [m \in Messages |-> "absent"]
  /\ sent = [m \in Messages |-> 0]
  /\ retries = [m \in Messages |-> 0]

\* The messages of S are written, those of D are withdrawn.
Write(S, D) ==
  /\ \A m \in S : state[m] = "absent"
  /\ \A m \in D : state[m] = "waiting"
  /\ state' = [m \in Messages |-> IF m \in S THEN "waiting"
                                  ELSE IF m \in D THEN "dropped" ELSE state[m]]
  /\ UNCHANGED <<sent, retries>>

Settled(m) == sent[m] > 0 \/ (m \in OptionalMsgs /\ state[m] = "dropped")

Deliver(m) ==
  /\ state[m] = "waiting"
  /\ sent[m] <= retries[m]
  /\ \A n \in Messages : Follow[n] = m => Settled(n)
  /\ state' = [state EXCEPT ![m] = "out"]
  /\ sent' = [sent EXCEPT ![m] = @ + 1]
  /\ UNCHANGED retries

\* A send that failed before the provider took the message.
GrantRetry(m) ==
  /\ state[m] = "waiting"
  /\ retries[m] < MaxRetries
  /\ retries' = [retries EXCEPT ![m] = @ + 1]
  /\ UNCHANGED <<state, sent>>

\* News of a delivery, however late.
Confirm(m) ==
  /\ sent[m] > 0
  /\ state' = [state EXCEPT ![m] = "out"]
  /\ UNCHANGED <<sent, retries>>

\* The failure of a delivery.
Fail(m) ==
  /\ state[m] = "out"
  /\ \/ /\ retries[m] < MaxRetries
        /\ retries' = [retries EXCEPT ![m] = @ + 1]
        /\ state' = [state EXCEPT ![m] = "waiting"]
     \/ /\ state' = [state EXCEPT ![m] = "dropped"]
        /\ UNCHANGED retries
  /\ UNCHANGED sent

Next ==
  \/ \E S, D \in SUBSET Messages : Write(S, D)
  \/ \E m \in Messages : Deliver(m) \/ GrantRetry(m) \/ Confirm(m) \/ Fail(m)

Spec == Init /\ [][Next]_vars
=============================================================================

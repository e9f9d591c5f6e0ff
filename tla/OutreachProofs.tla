--------------------------- MODULE OutreachProofs ---------------------------
(***************************************************************************)
(* What becomes of an outreach is what the customer was told, and it       *)
(* stays: for every number of customers, sweeps, interactions, reports,    *)
(* crashes and operators.                                                  *)
(*                                                                         *)
(* Every step moves a row in one of six ways (Moves); the properties, and  *)
(* the invariants they need, are proved of the moves.  That an answer is   *)
(* taken for a row that is sent or waits rests on the lists of a           *)
(* conversation being finite: each has a last such row.                    *)
(***************************************************************************)
EXTENDS Outreach, SequenceTheorems, FiniteSetTheorems, WellFoundedInduction, TLAPS

-----------------------------------------------------------------------------
(* Rows and lists of rows.                                                 *)

\* A key is a conversation and a count.
LEMMA KeyFields ==
  ASSUME NEW k \in Keys
  PROVE  k[1] \in Conversations /\ k[2] \in 0 .. MaxClock /\ FinalPart(k) \in PartsOf(k)
         /\ PartsOf(k) \subseteq Parts
  BY DEF Keys, FinalPart, PartsOf, Parts, IsReminder

\* A nonempty set of positions has a last one.
LEMMA LastExists ==
  ASSUME NEW n \in Nat, NEW Q \in SUBSET (1 .. n), Q # {}
  PROVE  \E i \in Q : \A j \in Q : j <= i
<1> DEFINE T == {n - i : i \in Q}
<1>1. T \subseteq Nat /\ T # {}
  <2>1. \A i \in Q : n - i \in Nat
    OBVIOUS
  <2> QED BY <2>1
<1>2. PICK x \in T : \A y \in T : <<y, x>> \notin OpToRel(<, Nat)
  <2> HIDE DEF T
  <2> QED BY <1>1, NatLessThanWellFounded, WFMin
<1>3. PICK i \in Q : x = n - i
  BY <1>2
<1>4. ASSUME NEW j \in Q, j > i PROVE FALSE
  <2>1. n - j \in T /\ n - j \in Nat /\ x \in Nat /\ n - j < x
    BY <1>1, <1>3, <1>4
  <2>2. <<n - j, x>> \in OpToRel(<, Nat)
    BY <2>1 DEF OpToRel
  <2> QED BY <1>2, <2>1, <2>2
<1> QED BY <1>4

\* The last row of a list that has a status has it.
LEMMA LastHasStatus ==
  ASSUME NEW s \in Seq(Keys), NEW st, Has(s, st)
  PROVE  LastOf(s, st) \in DOMAIN s /\ row[s[LastOf(s, st)]] = st
<1> DEFINE Q == {i \in DOMAIN s : row[s[i]] = st}
<1>1. Len(s) \in Nat /\ DOMAIN s = 1 .. Len(s)
  BY LenProperties
<1>2. Q # {} /\ Q \in SUBSET (1 .. Len(s))
  BY <1>1 DEF Has
<1>3. PICK i \in Q : \A j \in Q : j <= i
  <2> HIDE DEF Q
  <2> QED BY <1>1, <1>2, LastExists
<1>4. \A j \in DOMAIN s : j > i => row[s[j]] # st
  BY <1>1, <1>3
<1> QED BY <1>3, <1>4 DEF LastOf

\* An answer is taken for rows of its conversation that are sent or wait.
LEMMA AnsweredRows ==
  ASSUME TypeOK, NEW c \in Conversations, NEW k \in Answered(c)
  PROVE  k \in Keys /\ row[k] \in {"sent", "pending"}
<1>1. sent[c] \in Seq(Keys) /\ created[c] \in Seq(Keys)
  BY DEF TypeOK
<1>2. CASE Has(sent[c], "sent")
  <2>1. k = sent[c][LastOf(sent[c], "sent")]
    BY <1>2 DEF Answered
  <2> QED BY <1>1, <1>2, <2>1, LastHasStatus, LenProperties, ElementOfSeq
<1>3. CASE ~Has(sent[c], "sent") /\ Has(created[c], "pending")
  <2>1. k = created[c][LastOf(created[c], "pending")]
    BY <1>3 DEF Answered
  <2> QED BY <1>1, <1>3, <2>1, LastHasStatus, LenProperties, ElementOfSeq
<1> QED BY <1>2, <1>3 DEF Answered

\* An order of finitely many rows is a list of them, each once.
LEMMA OrderingList ==
  ASSUME NEW S \in SUBSET Keys, IsFiniteSet(S), NEW q \in Orderings(S)
  PROVE  q \in Seq(S) /\ \A i, j \in DOMAIN q : q[i] = q[j] => i = j
<1>1. Cardinality(S) \in Nat
  BY FS_CardinalityType
<1>2. q \in [1 .. Cardinality(S) -> S] /\ \A x \in S : \E i \in 1 .. Cardinality(S) : q[i] = x
  BY DEF Orderings
<1>3. IsFiniteSet(1 .. Cardinality(S)) /\ Cardinality(1 .. Cardinality(S)) = Cardinality(S)
  BY <1>1, FS_Interval
<1>4. q \in Surjection(1 .. Cardinality(S), S)
  BY <1>2 DEF Surjection
<1>5. q \in Injection(1 .. Cardinality(S), S)
  BY <1>3, <1>4, FS_SurjSameCardinalityImpliesInj
<1>6. q \in Seq(S)
  BY <1>1, <1>2, SeqDef
<1> QED BY <1>2, <1>5, <1>6 DEF Injection, IsInjective

\* The rows a sweep makes for one conversation are finitely many.
LEMMA NewFinite ==
  ASSUME NEW K \in SUBSET Keys, NEW c \in Conversations
  PROVE  NewOf(K, c) \in SUBSET Keys /\ IsFiniteSet(NewOf(K, c))
<1>1. IsFiniteSet({c} \X (0 .. MaxClock))
  <2>1. MaxClock \in Int
    BY OutreachAssumption
  <2>2. IsFiniteSet(0 .. MaxClock)
    BY <2>1, FS_Interval
  <2>3. IsFiniteSet({c})
    BY FS_Singleton
  <2> QED BY <2>2, <2>3, FS_Product
<1>2. NewOf(K, c) \subseteq {c} \X (0 .. MaxClock)
  BY DEF NewOf, Keys
<1> QED BY <1>1, <1>2, FS_Subset DEF NewOf

-----------------------------------------------------------------------------
(* Types, in the parts a step touches.                                     *)

ChatOK ==
  /\ clock \in 1 .. MaxClock /\ last \in [Conversations -> 1 .. MaxClock]
  /\ quiet \in [Conversations -> BOOLEAN] /\ open \in [Conversations -> BOOLEAN]
  /\ booked \in [Conversations -> BOOLEAN] /\ stage \in [Conversations -> Stages]
  /\ turn \in [Conversations -> Answers \cup {"none"}]
FlagsOK ==
  /\ asked \in [Conversations -> BOOLEAN] /\ reminded \in [Conversations -> BOOLEAN]
  /\ source \in [Conversations -> BOOLEAN]
SweepOK ==
  /\ step \in [Sweepers -> {"idle", "insert", "enqueue"}]
  /\ made \in [Sweepers -> SUBSET Keys]
  /\ reports \in 0 .. MaxReports /\ crashes \in 0 .. MaxCrashes /\ ops \in 0 .. MaxOps
RowsOK ==
  /\ row \in [Keys -> RowStates]
  /\ part \in [Keys -> [Parts -> PartStates]]
  /\ told \in [Keys -> SUBSET Parts]
ListOK(q) ==
  /\ q \in [Conversations -> Seq(Keys)]
  /\ \A c \in Conversations : \A i, j \in DOMAIN q[c] :
       q[c][i][1] = c /\ (q[c][i] = q[c][j] => i = j)
ListsOK == ListOK(created) /\ ListOK(sent)

\* A row has the messages of its kind.
PartsInv == \A k \in Keys : \A i \in Parts :
  part[k][i] = "absent" <=> row[k] = "absent" \/ i \notin PartsOf(k)

LEMMA TypeParts ==
  TypeOK <=> /\ ChatOK /\ FlagsOK /\ SweepOK /\ RowsOK /\ ListsOK
             /\ \A k \in Keys : (row[k] = "absent") = (\A i \in Parts : part[k][i] = "absent")
<1>1. (\A f \in {quiet, open, booked, asked, reminded, source} : f \in [Conversations -> BOOLEAN])
      <=> /\ quiet \in [Conversations -> BOOLEAN] /\ open \in [Conversations -> BOOLEAN]
          /\ booked \in [Conversations -> BOOLEAN] /\ asked \in [Conversations -> BOOLEAN]
          /\ reminded \in [Conversations -> BOOLEAN] /\ source \in [Conversations -> BOOLEAN]
  BY Zenon
<1>2. (\A q \in {created, sent} : ListOK(q)) <=> ListsOK
  BY Zenon DEF ListsOK
<1> QED BY <1>1, <1>2 DEF TypeOK, ChatOK, FlagsOK, SweepOK, RowsOK, ListOK

\* What is said of the messages includes what the type invariant says of them.
LEMMA PartsType ==
  PartsInv => \A k \in Keys : (row[k] = "absent") = (\A i \in Parts : part[k][i] = "absent")
<1> SUFFICES ASSUME PartsInv, NEW k \in Keys
             PROVE  row[k] = "absent" <=> \A i \in Parts : part[k][i] = "absent"
  OBVIOUS
<1>1. FinalPart(k) \in PartsOf(k) /\ FinalPart(k) \in Parts
  BY KeyFields
<1> QED BY <1>1 DEF PartsInv

Typed == ChatOK /\ FlagsOK /\ SweepOK /\ RowsOK /\ ListsOK

\* The conversations and the flags keep their types.
LEMMA ChatStep == Typed /\ [Next]_vars => ChatOK' /\ FlagsOK'
<1> SUFFICES ASSUME Typed, [Next]_vars PROVE ChatOK' /\ FlagsOK'
  OBVIOUS
<1> USE DEF Typed, ChatOK, FlagsOK
<1>1. MaxClock \in Nat \ {0}
  BY OutreachAssumption
<1>2. ASSUME NEW s \in Sweepers, Sweep(s) PROVE ChatOK' /\ FlagsOK'
  BY <1>2 DEF Sweep, SweepReads, SweepCommits, SweepRollsBack, SweepEnqueues, SweepDies,
              chatVars, flagVars
<1>3. ASSUME NEW k \in Keys, NEW i \in Parts, Delivery(k, i) PROVE ChatOK' /\ FlagsOK'
  <2>1. k[1] \in Conversations
    BY KeyFields
  <2> QED BY <1>3, <2>1 DEF Delivery, MarkFailed, MarkSent, ReportFailed, chatVars, flagVars
<1>4. ASSUME NEW c \in Conversations, Turn(c) PROVE ChatOK' /\ FlagsOK'
  <2>1. /\ stage' = stage \/ \E t \in Stages : stage' = [stage EXCEPT ![c] = t]
        /\ open' = open \/ open' = [open EXCEPT ![c] = FALSE]
        /\ booked' = booked \/ booked' = [booked EXCEPT ![c] = TRUE]
    BY <1>4 DEF Turn, Stages
  <2>2. /\ asked' = asked \/ asked' = [asked EXCEPT ![c] = FALSE]
        /\ reminded' = reminded \/ reminded' = [reminded EXCEPT ![c] = FALSE]
        /\ source' = source \/ source' = [source EXCEPT ![c] = FALSE]
    BY <1>4 DEF Turn, flagVars
  <2>3. turn' = [turn EXCEPT ![c] = "none"] /\ UNCHANGED <<clock, last, quiet>>
    BY <1>4 DEF Turn
  <2>4. ChatOK'
    BY <2>1, <2>3
  <2>5. FlagsOK'
    BY <2>2
  <2> QED BY <2>4, <2>5
<1>5. ASSUME NEW c \in Conversations, NEW says \in Answers, Inbound(c, says)
      PROVE  ChatOK' /\ FlagsOK'
  <2>1. clock + 1 \in 1 .. MaxClock
    BY <1>1, <1>5 DEF Inbound
  <2>2. "other" \in Answers
    BY DEF Answers
  <2>3. FlagsOK'
    BY <1>5 DEF Inbound, flagVars
  <2> QED BY <1>5, <2>1, <2>2, <2>3 DEF Inbound
<1>6. CASE DayPasses
  BY <1>6 DEF DayPasses, flagVars
<1>7. CASE Office
  <2>1. ASSUME NEW c \in Conversations, Silence(c) PROVE ChatOK' /\ FlagsOK'
    <3>1. clock < MaxClock => clock + 1 \in 1 .. MaxClock
      BY <1>1
    <3> QED BY <2>1, <3>1 DEF Silence, flagVars
  <2>2. ASSUME NEW c \in Conversations, Reopen(c) \/ CallOff(c) PROVE ChatOK' /\ FlagsOK'
    BY <2>2 DEF Reopen, CallOff, flagVars
  <2> QED BY <1>7, <2>1, <2>2 DEF Office
<1>8. CASE UNCHANGED vars
  BY <1>8 DEF vars, chatVars, flagVars
<1> QED BY <1>2, <1>3, <1>4, <1>5, <1>6, <1>7, <1>8 DEF Next, Customer

\* So do the sweeps and the bounds.
LEMMA SweepStep == Typed /\ [Next]_vars => SweepOK'
<1> SUFFICES ASSUME Typed, [Next]_vars PROVE SweepOK'
  OBVIOUS
<1> USE DEF Typed, SweepOK
<1>1. MaxClock \in Nat /\ MaxReports \in Nat /\ MaxCrashes \in Nat /\ MaxOps \in Nat
      /\ Served \subseteq Conversations
  BY OutreachAssumption
<1>2. ASSUME NEW s \in Sweepers, SweepReads(s) PROVE SweepOK'
  <2>1. \A c \in Conversations : <<c, last[c]>> \in Keys /\ <<c, 0>> \in Keys
    BY <1>1 DEF ChatOK, Keys
  <2>2. Silent \subseteq Conversations /\ DueForCleaning \subseteq Conversations
    BY <1>1 DEF Silent, DueForCleaning
  <2>3. \A S \in SUBSET Silent, D \in SUBSET DueForCleaning :
          {k \in {<<c, last[c]>> : c \in {d \in S : stage[d] = "intake"}} : ~Exists(k)}
            \cup {k \in {<<c, 0>> : c \in D} : ~Exists(k)} \in SUBSET Keys
    BY <2>1, <2>2
  <2>4. \E new \in SUBSET Keys : made' = [made EXCEPT ![s] = new]
    BY <1>2, <2>3 DEF SweepReads
  <2> QED BY <1>2, <2>4 DEF SweepReads
<1>3. ASSUME NEW s \in Sweepers,
             SweepCommits(s) \/ SweepRollsBack(s) \/ SweepEnqueues(s) \/ SweepDies(s)
      PROVE  SweepOK'
  <2>1. CASE SweepCommits(s)
    BY <2>1 DEF SweepCommits
  <2>2. CASE SweepRollsBack(s)
    BY <2>2 DEF SweepRollsBack, SweepEnds
  <2>3. CASE SweepEnqueues(s)
    BY <2>3 DEF SweepEnqueues, SweepEnds
  <2>4. CASE SweepDies(s)
    BY <1>1, <2>4 DEF SweepDies, SweepEnds
  <2> QED BY <1>3, <2>1, <2>2, <2>3, <2>4
<1>4. ASSUME NEW k \in Keys, NEW i \in Parts, Delivery(k, i) PROVE SweepOK'
  BY <1>1, <1>4 DEF Delivery, MarkFailed, MarkSent, ReportFailed, sweepVars
<1>5. ASSUME NEW c \in Conversations, Customer(c) PROVE SweepOK'
  BY <1>5 DEF Customer, Turn, Inbound, sweepVars
<1>6. CASE DayPasses \/ UNCHANGED vars
  BY <1>6 DEF DayPasses, vars, sweepVars
<1>7. CASE Office
  BY <1>1, <1>7 DEF Office, Silence, Reopen, CallOff, sweepVars
<1> QED BY <1>2, <1>3, <1>4, <1>5, <1>6, <1>7 DEF Next, Sweep

-----------------------------------------------------------------------------
(* What a step does to a row.                                              *)

\* A message that is not sent fails, the first one gets its task, one that
\* was sent is retried or fails; none appears or disappears.
Drifts(k) == \A i \in Parts :
  \/ part'[k][i] = part[k][i]
  \/ part[k][i] \in Unsent /\ part'[k][i] = "failed"
  \/ i = 0 /\ part[k][i] = "pending" /\ part'[k][i] = "queued"
  \/ part[k][i] = "sent" /\ part'[k][i] \in {"queued", "failed"}

Rests(k) == row'[k] = row[k] /\ told'[k] = told[k] /\ Drifts(k)
Born(k) ==
  /\ row[k] = "absent" /\ row'[k] = "pending" /\ told'[k] = told[k]
  /\ part'[k] = [i \in Parts |-> IF i \in PartsOf(k) THEN "pending" ELSE "absent"]
Falls(k) == row[k] = "pending" /\ row'[k] = "failed" /\ told'[k] = told[k] /\ Drifts(k)
SentOn(k, i) ==
  /\ part[k][i] = "queued"
  /\ part'[k] = [j \in Parts |-> IF j = i THEN "sent"
                   ELSE IF j > i /\ part[k][j] = "pending" THEN "queued" ELSE part[k][j]]
  /\ told'[k] = told[k] \cup {i}
  /\ row'[k] = IF Settles(k, i) /\ Waits(k) THEN "sent" ELSE row[k]
Withdraws(k) ==
  /\ row[k] = "pending" /\ row'[k] = "skipped" /\ told'[k] = told[k]
  /\ part'[k] = Failing(part[k])
Concludes(k) ==
  /\ row[k] \in {"sent", "responded"} /\ row'[k] \in {"responded", "declined", "accepted"}
  /\ told'[k] = told[k] /\ part'[k] = part[k]

Moves(k) == \/ Rests(k) \/ Born(k) \/ Falls(k) \/ Withdraws(k) \/ Concludes(k)
            \/ \E i \in Parts : SentOn(k, i)

\* A row whose variables a step leaves alone rests.
LEMMA Resting ==
  ASSUME NEW k \in Keys, row'[k] = row[k], told'[k] = told[k], part'[k] = part[k]
  PROVE  Moves(k)
  BY DEF Moves, Rests, Drifts

LEMMA SweepMoves ==
  ASSUME Typed, NEW s \in Sweepers, Sweep(s)
  PROVE  RowsOK' /\ \A k \in Keys : Moves(k)
<1> USE DEF Typed, RowsOK
<1>1. CASE SweepReads(s) \/ SweepRollsBack(s) \/ SweepDies(s)
  <2>1. UNCHANGED rowVars
    BY <1>1 DEF SweepReads, SweepRollsBack, SweepDies
  <2> QED BY <2>1, Resting DEF rowVars
<1>2. CASE SweepCommits(s)
  <2>1. /\ row' = [k \in Keys |-> IF k \in made[s] THEN "pending" ELSE row[k]]
        /\ part' = [k \in Keys |-> IF k \in made[s]
                      THEN [i \in Parts |-> IF i \in PartsOf(k) THEN "pending" ELSE "absent"]
                      ELSE part[k]]
        /\ told' = told /\ \A k \in made[s] : row[k] = "absent"
    BY <1>2 DEF SweepCommits, Collides, Exists
  <2>2. RowsOK'
    BY <2>1 DEF RowStates, PartStates
  <2>3. ASSUME NEW k \in Keys PROVE Moves(k)
    <3>1. CASE k \in made[s]
      BY <2>1, <3>1 DEF Moves, Born
    <3>2. CASE k \notin made[s]
      BY <2>1, <3>2, Resting
    <3> QED BY <3>1, <3>2
  <2> QED BY <2>2, <2>3
<1>3. CASE SweepEnqueues(s)
  <2>1. /\ part' = [k \in Keys |-> IF k \in made[s] /\ part[k][0] = "pending"
                      THEN [part[k] EXCEPT ![0] = "queued"] ELSE part[k]]
        /\ UNCHANGED <<row, told>>
    BY <1>3 DEF SweepEnqueues
  <2>2. \A k \in Keys : Rests(k)
    BY <2>1 DEF Rests, Drifts, Parts
  <2>3. RowsOK'
    BY <2>1 DEF PartStates
  <2> QED BY <2>2, <2>3 DEF Moves
<1> QED BY <1>1, <1>2, <1>3 DEF Sweep

LEMMA DeliveryMoves ==
  ASSUME Typed, NEW k \in Keys, NEW i \in Parts, Delivery(k, i)
  PROVE  RowsOK' /\ \A x \in Keys : Moves(x)
<1> USE DEF Typed, RowsOK
<1>1. CASE MarkFailed(k, i)
  <2>1. RowsOK'
    BY <1>1 DEF MarkFailed, RowStates, PartStates
  <2>2. \A x \in Keys \ {k} : Moves(x)
    BY <1>1, Resting DEF MarkFailed
  <2>3. Rests(k) \/ Falls(k)
    BY <1>1 DEF MarkFailed, Rests, Falls, Drifts, Waits, Unsent
  <2> QED BY <2>1, <2>2, <2>3 DEF Moves
<1>2. CASE MarkSent(k, i)
  <2>1. /\ part[k][i] = "queued"
        /\ part' = [part EXCEPT ![k] = [j \in Parts |-> IF j = i THEN "sent"
             ELSE IF j > i /\ part[k][j] = "pending" THEN "queued" ELSE part[k][j]]]
        /\ told' = [told EXCEPT ![k] = told[k] \cup {i}]
        /\ row' = IF Settles(k, i) /\ Waits(k) THEN [row EXCEPT ![k] = "sent"] ELSE row
    BY <1>2 DEF MarkSent
  <2>2. RowsOK'
    BY <2>1 DEF RowStates, PartStates
  <2>3. \A x \in Keys \ {k} : Moves(x)
    BY <2>1, Resting
  <2>4. SentOn(k, i)
    BY <2>1 DEF SentOn
  <2> QED BY <2>2, <2>3, <2>4 DEF Moves
<1>3. CASE ReportFailed(k, i)
  <2>1. RowsOK'
    BY <1>3 DEF ReportFailed, PartStates
  <2>2. \A x \in Keys : Rests(x)
    BY <1>3 DEF ReportFailed, Rests, Drifts
  <2> QED BY <2>1, <2>2 DEF Moves
<1> QED BY <1>1, <1>2, <1>3 DEF Delivery

LEMMA CustomerMoves ==
  ASSUME TypeOK, Typed, NEW c \in Conversations, Customer(c)
  PROVE  RowsOK' /\ \A k \in Keys : Moves(k)
<1> USE DEF Typed, RowsOK
<1>1. CASE Turn(c)
  <2>1. (row' = row \/ row' = Credited(c)) /\ part' = part /\ told' = told
    BY <1>1 DEF Turn
  <2>2. <<c, 0>> \in Keys
    BY OutreachAssumption DEF Keys
  <2>3. RowsOK'
    BY <2>1, <2>2 DEF Credited, RowStates
  <2>4. ASSUME NEW k \in Keys PROVE Moves(k)
    <3>1. CASE row'[k] = row[k]
      BY <2>1, <3>1, Resting
    <3>2. CASE row'[k] # row[k]
      BY <2>1, <2>2, <3>2 DEF Credited, Concludes, Moves
    <3> QED BY <3>1, <3>2
  <2> QED BY <2>3, <2>4
<1>2. ASSUME NEW says \in Answers, Inbound(c, says)
      PROVE  RowsOK' /\ \A k \in Keys : Moves(k)
  <2>1. /\ part' = [k \in Keys |-> IF k \in Answered(c) /\ row[k] = "pending"
                      THEN Failing(part[k]) ELSE part[k]]
        /\ row' = [k \in Keys |-> IF k \in Answered(c) THEN After(k, says) ELSE row[k]]
        /\ told' = told
    BY <1>2 DEF Inbound, Withdrawn
  <2>2. RowsOK'
    BY <2>1 DEF RowStates, PartStates, After, Failing, Unsent
  <2>3. ASSUME NEW k \in Keys PROVE Moves(k)
    <3>1. CASE k \notin Answered(c)
      BY <2>1, <3>1, Resting
    <3>2. CASE k \in Answered(c) /\ row[k] = "pending"
      BY <2>1, <3>2 DEF Moves, Withdraws, After
    <3>3. CASE k \in Answered(c) /\ row[k] = "sent"
      BY <2>1, <3>3 DEF Moves, Concludes, After
    <3> QED BY <3>1, <3>2, <3>3, AnsweredRows
  <2> QED BY <2>2, <2>3
<1> QED BY <1>1, <1>2 DEF Customer

LEMMA RowStep ==
  TypeOK /\ Typed /\ [Next]_vars => RowsOK' /\ \A k \in Keys : Moves(k)
<1> SUFFICES ASSUME TypeOK, Typed, [Next]_vars PROVE RowsOK' /\ \A k \in Keys : Moves(k)
  OBVIOUS
<1>1. CASE DayPasses \/ UNCHANGED vars
  BY <1>1, Resting DEF DayPasses, vars, rowVars, Typed, RowsOK
<1>2. CASE Office
  <2>1. (part' = part \/ \E c \in Conversations : part' = Cancelled(c)) /\ UNCHANGED <<row, told>>
    BY <1>2 DEF Office, Silence, Reopen, CallOff, rowVars
  <2>2. \A k \in Keys : Rests(k)
    BY <2>1 DEF Typed, RowsOK, Cancelled, Failing, Rests, Drifts
  <2>3. RowsOK'
    BY <2>1 DEF Typed, RowsOK, Cancelled, Failing, PartStates
  <2> QED BY <2>2, <2>3 DEF Moves
<1> QED BY <1>1, <1>2, SweepMoves, DeliveryMoves, CustomerMoves DEF Next

-----------------------------------------------------------------------------
(* What the messages of a row say of it.                                   *)

\* The last message waits for the first; when it was sent the row is settled.
ToldInv == \A k \in Keys :
  /\ told[k] \subseteq PartsOf(k)
  /\ \A i \in Parts : part[k][i] = "sent" => i \in told[k]
  /\ part[k][1] \in {"queued", "sent"} => 0 \in told[k]
  /\ FinalPart(k) \in told[k] => row[k] \notin {"absent", "pending"}

\* The last message of a row that was skipped is never tried again.
SkipInv == \A k \in Keys : row[k] = "skipped" => part[k][FinalPart(k)] = "failed"

\* Rows are listed once they exist, and as sent once they are.
ListInv == \A c \in Conversations :
  /\ \A i \in DOMAIN created[c] : row[created[c][i]] # "absent"
  /\ \A i \in DOMAIN sent[c] : row[sent[c][i]] \notin {"absent", "pending"}

LEMMA PartsStep == RowsOK /\ PartsInv /\ (\A k \in Keys : Moves(k)) => PartsInv'
<1> SUFFICES ASSUME RowsOK, PartsInv, NEW k \in Keys, Moves(k), NEW j \in Parts
             PROVE  part'[k][j] = "absent" <=> row'[k] = "absent" \/ j \notin PartsOf(k)
  BY DEF PartsInv
<1>1. part[k][j] = "absent" <=> row[k] = "absent" \/ j \notin PartsOf(k)
  BY DEF PartsInv
<1>2. CASE Rests(k) \/ Falls(k)
  BY <1>1, <1>2 DEF Rests, Falls, Drifts, Unsent
<1>3. CASE Born(k)
  BY <1>3 DEF Born
<1>4. CASE Withdraws(k) \/ Concludes(k)
  BY <1>1, <1>4 DEF Withdraws, Concludes, Failing, Unsent
<1>5. ASSUME NEW i \in Parts, SentOn(k, i)
      PROVE  part'[k][j] = "absent" <=> row'[k] = "absent" \/ j \notin PartsOf(k)
  <2>1. row[k] # "absent" /\ i \in PartsOf(k)
    BY <1>5 DEF PartsInv, SentOn
  <2> QED BY <1>1, <1>5, <2>1 DEF SentOn
<1> QED BY <1>2, <1>3, <1>4, <1>5 DEF Moves

LEMMA ToldStep == RowsOK /\ PartsInv /\ ToldInv /\ (\A k \in Keys : Moves(k)) => ToldInv'
<1> SUFFICES ASSUME RowsOK, PartsInv, ToldInv, NEW k \in Keys, Moves(k)
             PROVE  /\ told'[k] \subseteq PartsOf(k)
                    /\ \A i \in Parts : part'[k][i] = "sent" => i \in told'[k]
                    /\ part'[k][1] \in {"queued", "sent"} => 0 \in told'[k]
                    /\ FinalPart(k) \in told'[k] => row'[k] \notin {"absent", "pending"}
  BY DEF ToldInv
<1> USE DEF Parts
<1>1. /\ told[k] \subseteq PartsOf(k)
      /\ \A i \in Parts : part[k][i] = "sent" => i \in told[k]
      /\ part[k][1] \in {"queued", "sent"} => 0 \in told[k]
      /\ FinalPart(k) \in told[k] => row[k] \notin {"absent", "pending"}
  BY DEF ToldInv
<1>2. CASE Rests(k) \/ Falls(k)
  BY <1>1, <1>2 DEF Rests, Falls, Drifts, Unsent
<1>3. CASE Born(k)
  BY <1>1, <1>3 DEF Born
<1>4. CASE Withdraws(k) \/ Concludes(k)
  BY <1>1, <1>4 DEF Withdraws, Concludes, Failing, Unsent
<1>5. ASSUME NEW i \in Parts, SentOn(k, i)
      PROVE  /\ told'[k] \subseteq PartsOf(k)
             /\ \A j \in Parts : part'[k][j] = "sent" => j \in told'[k]
             /\ part'[k][1] \in {"queued", "sent"} => 0 \in told'[k]
             /\ FinalPart(k) \in told'[k] => row'[k] \notin {"absent", "pending"}
  <2>1. row[k] # "absent" /\ i \in PartsOf(k)
    BY <1>5 DEF PartsInv, SentOn
  <2>2. part'[k][1] \in {"queued", "sent"} => 0 \in told'[k]
    BY <1>1, <1>5 DEF SentOn
  <2>3. i = FinalPart(k) => row'[k] \notin {"absent", "pending"}
    BY <1>5, <2>1 DEF SentOn, Settles, Waits
  <2> QED BY <1>1, <1>5, <2>1, <2>2, <2>3 DEF SentOn
<1> QED BY <1>2, <1>3, <1>4, <1>5 DEF Moves

LEMMA SkipStep == RowsOK /\ SkipInv /\ PartsInv /\ ToldInv /\ (\A k \in Keys : Moves(k)) => SkipInv'
<1> SUFFICES ASSUME RowsOK, SkipInv, PartsInv, ToldInv, NEW k \in Keys, Moves(k), row'[k] = "skipped"
             PROVE  part'[k][FinalPart(k)] = "failed"
  BY DEF SkipInv
<1>1. row[k] = "skipped" => part[k][FinalPart(k)] = "failed"
  BY DEF SkipInv
<1>2. FinalPart(k) \in Parts
  BY KeyFields
<1>3. CASE Rests(k)
  BY <1>1, <1>2, <1>3 DEF Rests, Drifts, Unsent
<1>4. ~Born(k) /\ ~Falls(k) /\ ~Concludes(k)
  BY DEF Born, Falls, Concludes
<1>5. CASE Withdraws(k)
  <2>1. part[k][FinalPart(k)] \notin {"absent", "sent"}
    BY <1>2, <1>5, KeyFields DEF Withdraws, PartsInv, ToldInv
  <2>2. part[k][FinalPart(k)] \in PartStates
    BY <1>2 DEF RowsOK
  <2> QED BY <1>2, <1>5, <2>1, <2>2 DEF Withdraws, Failing, Unsent, PartStates
<1>6. ASSUME NEW i \in Parts, SentOn(k, i) PROVE part'[k][FinalPart(k)] = "failed"
  <2>1. row[k] = "skipped" /\ part[k][FinalPart(k)] = "failed"
    BY <1>1, <1>6 DEF SentOn
  <2> QED BY <1>2, <1>6, <2>1 DEF SentOn
<1> QED BY <1>3, <1>4, <1>5, <1>6 DEF Moves

-----------------------------------------------------------------------------
(* The lists of a conversation.                                            *)

\* Rows that are new to a list, each once, keep it a list of rows, each once.
LEMMA ListGrows ==
  ASSUME NEW c \in Conversations, NEW s \in Seq(Keys), NEW t \in Seq(Keys),
         \A i, j \in DOMAIN s : s[i][1] = c /\ (s[i] = s[j] => i = j),
         \A i, j \in DOMAIN t : t[i][1] = c /\ (t[i] = t[j] => i = j),
         \A i \in DOMAIN s, j \in DOMAIN t : s[i] # t[j]
  PROVE  /\ s \o t \in Seq(Keys)
         /\ \A i, j \in DOMAIN (s \o t) :
              (s \o t)[i][1] = c /\ ((s \o t)[i] = (s \o t)[j] => i = j)
         /\ \A i \in DOMAIN (s \o t) :
              (\E j \in DOMAIN s : (s \o t)[i] = s[j]) \/ (\E j \in DOMAIN t : (s \o t)[i] = t[j])
<1> DEFINE m == Len(s)  n == Len(t)  u == s \o t
<1>1. /\ m \in Nat /\ n \in Nat /\ DOMAIN s = 1 .. m /\ DOMAIN t = 1 .. n
      /\ u \in Seq(Keys) /\ Len(u) = m + n /\ DOMAIN u = 1 .. m + n
  BY LenProperties, ConcatProperties
<1>2. \A i \in 1 .. m + n : u[i] = IF i <= m THEN s[i] ELSE t[i - m]
  BY ConcatProperties
<1>3. \A i \in 1 .. m + n : IF i <= m THEN i \in 1 .. m ELSE i - m \in 1 .. n
  BY <1>1
<1> HIDE DEF m, n, u
<1>4. ASSUME NEW i \in DOMAIN u, NEW j \in DOMAIN u
      PROVE  u[i][1] = c /\ (u[i] = u[j] => i = j)
  <2>1. i \in Int /\ j \in Int /\ m \in Int
    BY <1>1
  <2>2. CASE i <= m /\ j <= m
    BY <1>1, <1>2, <1>3, <2>2
  <2>3. CASE i <= m /\ ~(j <= m)
    <3>1. u[i] = s[i] /\ u[j] = t[j - m] /\ i \in DOMAIN s /\ j - m \in DOMAIN t
      BY <1>1, <1>2, <1>3, <2>3
    <3> QED BY <3>1
  <2>4. CASE ~(i <= m) /\ j <= m
    <3>1. u[j] = s[j] /\ u[i] = t[i - m] /\ j \in DOMAIN s /\ i - m \in DOMAIN t
      BY <1>1, <1>2, <1>3, <2>4
    <3> QED BY <3>1
  <2>5. CASE ~(i <= m) /\ ~(j <= m)
    <3>1. u[i] = t[i - m] /\ u[j] = t[j - m] /\ i - m \in DOMAIN t /\ j - m \in DOMAIN t
      BY <1>1, <1>2, <1>3, <2>5
    <3>2. u[i][1] = c /\ (u[i] = u[j] => i - m = j - m)
      BY <3>1
    <3> QED BY <2>1, <3>2
  <2> QED BY <2>2, <2>3, <2>4, <2>5
<1>5. \A i \in DOMAIN u : (\E j \in DOMAIN s : u[i] = s[j]) \/ (\E j \in DOMAIN t : u[i] = t[j])
  BY <1>1, <1>2, <1>3
<1> QED BY <1>1, <1>4, <1>5 DEF u

\* A step adds rows to one list: those a sweep made, or the one that was sent.
LEMMA ListStep ==
  TypeOK /\ Typed /\ PartsInv /\ ListInv /\ [Next]_vars => ListsOK' /\ ListInv'
<1> SUFFICES ASSUME TypeOK, Typed, PartsInv, ListInv, [Next]_vars PROVE ListsOK' /\ ListInv'
  OBVIOUS
<1> USE DEF Typed
<1>1. /\ created \in [Conversations -> Seq(Keys)] /\ sent \in [Conversations -> Seq(Keys)]
      /\ \A c \in Conversations :
           /\ \A i \in DOMAIN created[c] : created[c][i] \in Keys
           /\ \A i \in DOMAIN sent[c] : sent[c][i] \in Keys
  BY LenProperties, ElementOfSeq DEF ListsOK, ListOK
<1>2. \A k \in Keys : /\ row[k] # "absent" => row'[k] # "absent"
                      /\ row[k] \notin {"absent", "pending"} => row'[k] \notin {"absent", "pending"}
  BY RowStep DEF Moves, Rests, Born, Falls, Withdraws, Concludes, SentOn
<1>3. CASE UNCHANGED <<created, sent>>
  BY <1>1, <1>2, <1>3 DEF ListsOK, ListOK, ListInv
<1>4. ASSUME NEW s \in Sweepers, SweepCommits(s) PROVE ListsOK' /\ ListInv'
  <2>1. sent' = sent /\ \A k \in made[s] : row[k] = "absent" /\ row'[k] = "pending"
    BY <1>4 DEF SweepCommits, Collides, Exists, SweepOK, RowsOK
  <2>2. made[s] \in SUBSET Keys
    BY DEF SweepOK
  <2>3. PICK q : /\ \A c \in Conversations : q[c] \in Orderings(NewOf(made[s], c))
                 /\ created' = [c \in Conversations |-> created[c] \o q[c]]
    BY <1>4 DEF SweepCommits
  <2>4. ASSUME NEW c \in Conversations
        PROVE  /\ created'[c] \in Seq(Keys)
               /\ \A i, j \in DOMAIN created'[c] :
                    created'[c][i][1] = c /\ (created'[c][i] = created'[c][j] => i = j)
               /\ \A i \in DOMAIN created'[c] : row'[created'[c][i]] # "absent"
    <3>1. NewOf(made[s], c) \in SUBSET Keys /\ IsFiniteSet(NewOf(made[s], c))
      BY <2>2, NewFinite
    <3>2. q[c] \in Seq(NewOf(made[s], c)) /\ \A i, j \in DOMAIN q[c] : q[c][i] = q[c][j] => i = j
      BY <2>3, <3>1, OrderingList
    <3>3. \A i \in DOMAIN q[c] : q[c][i] \in made[s] /\ q[c][i][1] = c
      BY <3>2, LenProperties, ElementOfSeq DEF NewOf
    <3>4. q[c] \in Seq(Keys)
      BY <2>2, <3>1, <3>2, SeqDef
    <3>5. \A i \in DOMAIN created[c] : row[created[c][i]] # "absent"
      BY DEF ListInv
    <3>6. \A i \in DOMAIN created[c], j \in DOMAIN q[c] : created[c][i] # q[c][j]
      BY <2>1, <3>3, <3>5
    <3>7. \A i, j \in DOMAIN created[c] :
            created[c][i][1] = c /\ (created[c][i] = created[c][j] => i = j)
      BY DEF ListsOK, ListOK
    <3>8. created[c] \in Seq(Keys) /\ created'[c] = created[c] \o q[c]
      BY <1>1, <2>3
    <3>9. /\ created'[c] \in Seq(Keys)
          /\ \A i, j \in DOMAIN created'[c] :
               created'[c][i][1] = c /\ (created'[c][i] = created'[c][j] => i = j)
          /\ \A i \in DOMAIN created'[c] :
               \/ \E j \in DOMAIN created[c] : created'[c][i] = created[c][j]
               \/ \E j \in DOMAIN q[c] : created'[c][i] = q[c][j]
      <4>1. \A i, j \in DOMAIN q[c] : q[c][i][1] = c /\ (q[c][i] = q[c][j] => i = j)
        BY <3>2, <3>3
      <4> DEFINE x == created[c]  y == q[c]
      <4>2. /\ x \in Seq(Keys) /\ y \in Seq(Keys)
            /\ \A i, j \in DOMAIN x : x[i][1] = c /\ (x[i] = x[j] => i = j)
            /\ \A i, j \in DOMAIN y : y[i][1] = c /\ (y[i] = y[j] => i = j)
            /\ \A i \in DOMAIN x, j \in DOMAIN y : x[i] # y[j]
        BY <3>4, <3>6, <3>7, <3>8, <4>1
      <4> HIDE DEF x, y
      <4>3. /\ x \o y \in Seq(Keys)
            /\ \A i, j \in DOMAIN (x \o y) :
                 (x \o y)[i][1] = c /\ ((x \o y)[i] = (x \o y)[j] => i = j)
            /\ \A i \in DOMAIN (x \o y) :
                 (\E j \in DOMAIN x : (x \o y)[i] = x[j]) \/ (\E j \in DOMAIN y : (x \o y)[i] = y[j])
        BY ONLY <4>2, c \in Conversations, ListGrows
      <4>4. created'[c] = x \o y
        BY <3>8 DEF x, y
      <4> QED BY <4>3, <4>4 DEF x, y
    <3>10. \A i \in DOMAIN created'[c] : row'[created'[c][i]] # "absent"
      BY <1>1, <1>2, <2>1, <3>3, <3>5, <3>9
    <3> QED BY <3>9, <3>10
  <2>5. ListOK(sent)' /\ \A c \in Conversations :
          \A i \in DOMAIN sent'[c] : row'[sent'[c][i]] \notin {"absent", "pending"}
    BY <1>1, <1>2, <2>1 DEF ListsOK, ListOK, ListInv
  <2>6. created' \in [Conversations -> Seq(Keys)]
    BY <2>3, <2>4
  <2> QED BY <2>4, <2>5, <2>6 DEF ListsOK, ListOK, ListInv
<1>5. ASSUME NEW k \in Keys, NEW i \in Parts, MarkSent(k, i) PROVE ListsOK' /\ ListInv'
  <2> DEFINE c == k[1]
  <2>1. created' = created /\ c \in Conversations
    BY <1>5, KeyFields DEF MarkSent
  <2>2. CASE ~(Settles(k, i) /\ Waits(k))
    BY <1>3, <1>5, <2>2 DEF MarkSent
  <2>3. CASE Settles(k, i) /\ Waits(k)
    <3>1. sent' = [sent EXCEPT ![c] = Append(sent[c], k)]
      BY <1>5, <2>3 DEF MarkSent
    <3>2. row[k] = "pending" /\ row'[k] = "sent"
      BY <1>5, <2>3 DEF MarkSent, Waits, RowsOK
    <3>3. sent[c] \in Seq(Keys) /\ Append(sent[c], k) = sent[c] \o <<k>>
      BY <1>1, <2>1, AppendIsConcat
    <3>4. /\ \A x \in DOMAIN sent[c] : row[sent[c][x]] \notin {"absent", "pending"}
          /\ \A x, y \in DOMAIN sent[c] :
               sent[c][x][1] = c /\ (sent[c][x] = sent[c][y] => x = y)
      BY <2>1 DEF ListInv, ListsOK, ListOK
    <3>5. <<k>> \in Seq(Keys) /\ DOMAIN <<k>> = {1} /\ <<k>>[1] = k
      OBVIOUS
    <3>6. \A x \in DOMAIN sent[c], y \in DOMAIN <<k>> : sent[c][x] # <<k>>[y]
      BY <3>2, <3>4, <3>5
    <3>7. \A x, y \in DOMAIN <<k>> : <<k>>[x][1] = c /\ (<<k>>[x] = <<k>>[y] => x = y)
      BY <3>5
    <3>8. sent'[c] = sent[c] \o <<k>> /\ \A d \in Conversations \ {c} : sent'[d] = sent[d]
      BY <1>1, <2>1, <3>1, <3>3
    <3>9. /\ sent'[c] \in Seq(Keys)
          /\ \A x, y \in DOMAIN sent'[c] :
               sent'[c][x][1] = c /\ (sent'[c][x] = sent'[c][y] => x = y)
          /\ \A x \in DOMAIN sent'[c] :
               (\E y \in DOMAIN sent[c] : sent'[c][x] = sent[c][y])
               \/ (\E y \in DOMAIN <<k>> : sent'[c][x] = <<k>>[y])
      <4> HIDE DEF c
      <4> QED BY <2>1, <3>3, <3>4, <3>5, <3>6, <3>7, <3>8, ListGrows
    <3>10. \A x \in DOMAIN sent'[c] : row'[sent'[c][x]] \notin {"absent", "pending"}
      BY <1>1, <1>2, <2>1, <3>2, <3>4, <3>5, <3>9
    <3>11. sent' \in [Conversations -> Seq(Keys)]
      BY <1>1, <2>1, <3>1, <3>8, <3>9
    <3>12. ListOK(sent)'
      <4>1. \A d \in Conversations \ {c} : \A x, y \in DOMAIN sent'[d] :
              sent'[d][x][1] = d /\ (sent'[d][x] = sent'[d][y] => x = y)
        BY <3>8 DEF ListsOK, ListOK
      <4> QED BY <3>9, <3>11, <4>1 DEF ListOK
    <3>13. ListOK(created)'
      BY <2>1 DEF ListsOK, ListOK
    <3>14. ListInv'
      BY <1>1, <1>2, <2>1, <3>8, <3>10 DEF ListInv
    <3> QED BY <3>12, <3>13, <3>14 DEF ListsOK
  <2> QED BY <2>2, <2>3
<1>6. ASSUME NEW s \in Sweepers, Sweep(s) PROVE ListsOK' /\ ListInv'
  <2>1. SweepCommits(s) \/ UNCHANGED <<created, sent>>
    BY <1>6 DEF Sweep, SweepReads, SweepRollsBack, SweepEnqueues, SweepDies, rowVars
  <2> QED BY <1>3, <1>4, <2>1
<1>7. ASSUME NEW k \in Keys, NEW i \in Parts, Delivery(k, i) PROVE ListsOK' /\ ListInv'
  <2>1. MarkSent(k, i) \/ UNCHANGED <<created, sent>>
    BY <1>7 DEF Delivery, MarkFailed, ReportFailed
  <2> QED BY <1>3, <1>5, <2>1
<1>8. CASE (\E c \in Conversations : Customer(c)) \/ DayPasses \/ Office \/ UNCHANGED vars
  <2>1. UNCHANGED <<created, sent>>
    BY <1>8 DEF Customer, Turn, Inbound, DayPasses, Office, Silence, Reopen, CallOff, vars, rowVars
  <2> QED BY <1>3, <2>1
<1> QED BY <1>6, <1>7, <1>8 DEF Next

-----------------------------------------------------------------------------
(* The invariant and the theorems.                                         *)

Inv == Typed /\ PartsInv /\ ToldInv /\ SkipInv /\ ListInv

LEMMA InvTyped == Inv => TypeOK
  BY TypeParts, PartsType DEF Inv, Typed

LEMMA InvInit == Init => Inv
<1> SUFFICES ASSUME Init PROVE Inv
  OBVIOUS
<1>1. MaxClock \in Nat \ {0} /\ MaxReports \in Nat /\ MaxCrashes \in Nat /\ MaxOps \in Nat
  BY OutreachAssumption
<1>2. ChatOK /\ FlagsOK
  BY <1>1 DEF Init, ChatOK, FlagsOK, Stages, Answers
<1>3. SweepOK /\ RowsOK
  BY <1>1 DEF Init, SweepOK, RowsOK, RowStates, PartStates
<1>4. ListsOK /\ ListInv
  <2>1. << >> \in Seq(Keys) /\ DOMAIN << >> = {}
    OBVIOUS
  <2> QED BY <2>1 DEF Init, ListsOK, ListOK, ListInv
<1>5. PartsInv /\ ToldInv /\ SkipInv
  BY DEF Init, PartsInv, ToldInv, SkipInv, Parts
<1> QED BY <1>2, <1>3, <1>4, <1>5 DEF Inv, Typed

LEMMA InvStep == Inv /\ [Next]_vars => Inv'
<1> SUFFICES ASSUME Inv, [Next]_vars PROVE Inv'
  OBVIOUS
<1>1. TypeOK /\ Typed
  BY InvTyped DEF Inv
<1>2. ChatOK' /\ FlagsOK' /\ SweepOK'
  BY <1>1, ChatStep, SweepStep
<1>3. RowsOK' /\ \A k \in Keys : Moves(k)
  BY <1>1, RowStep
<1>4. ListsOK' /\ ListInv'
  BY <1>1, ListStep DEF Inv
<1>5. PartsInv' /\ ToldInv' /\ SkipInv'
  BY <1>3, PartsStep, ToldStep, SkipStep DEF Inv, Typed
<1> QED BY <1>2, <1>3, <1>4, <1>5 DEF Inv, Typed

\* A row that is settled as sent has all its messages with the customer, and
\* what is settled after that only reads it.
LEMMA OutcomeStep == Inv /\ OutcomeWasTold /\ [Next]_vars => OutcomeWasTold'
<1> SUFFICES ASSUME Inv, OutcomeWasTold, [Next]_vars, NEW k \in Keys,
                    row'[k] \in {"sent", "responded", "declined", "accepted"}
             PROVE  told'[k] = PartsOf(k)
  BY DEF OutcomeWasTold
<1>1. Moves(k) /\ RowsOK
  BY RowStep, InvTyped DEF Inv, Typed
<1>2. row[k] \in {"sent", "responded", "declined", "accepted"} => told[k] = PartsOf(k)
  BY DEF OutcomeWasTold
<1>3. CASE Rests(k) \/ Concludes(k)
  BY <1>2, <1>3 DEF Rests, Concludes
<1>4. ~Born(k) /\ ~Falls(k) /\ ~Withdraws(k)
  BY DEF Born, Falls, Withdraws
<1>5. ASSUME NEW i \in Parts, SentOn(k, i) PROVE told'[k] = PartsOf(k)
  <2>1. told[k] \subseteq PartsOf(k) /\ i \in PartsOf(k)
    BY <1>5 DEF Inv, ToldInv, PartsInv, SentOn
  <2>2. CASE row'[k] = row[k]
    BY <1>2, <1>5, <2>1, <2>2 DEF SentOn
  <2>3. CASE row'[k] # row[k]
    <3>1. i = FinalPart(k)
      BY <1>5, <2>3 DEF SentOn, Settles
    <3>2. part[k][1] = "queued" => 0 \in told[k]
      BY DEF Inv, ToldInv
    <3> QED BY <1>5, <2>1, <3>1, <3>2 DEF SentOn, PartsOf, FinalPart, Parts
  <2> QED BY <2>2, <2>3
<1> QED BY <1>1, <1>3, <1>4, <1>5 DEF Moves

\* A row that is skipped had its last message still to go, and it has failed.
LEMMA SkippedStep == Inv /\ SkippedStaysUntold /\ [Next]_vars => SkippedStaysUntold'
<1> SUFFICES ASSUME Inv, SkippedStaysUntold, [Next]_vars, NEW k \in Keys, row'[k] = "skipped"
             PROVE  FinalPart(k) \notin told'[k]
  BY DEF SkippedStaysUntold
<1>1. Moves(k)
  BY RowStep, InvTyped DEF Inv
<1>2. row[k] \in {"pending", "skipped"} => FinalPart(k) \notin told[k]
  BY DEF SkippedStaysUntold, Inv, ToldInv
<1>3. CASE Rests(k) \/ Withdraws(k)
  BY <1>2, <1>3 DEF Rests, Withdraws
<1>4. ~Born(k) /\ ~Falls(k) /\ ~Concludes(k)
  BY DEF Born, Falls, Concludes
<1>5. ASSUME NEW i \in Parts, SentOn(k, i) PROVE FinalPart(k) \notin told'[k]
  <2>1. row[k] = "skipped" /\ part[k][FinalPart(k)] = "failed"
    BY <1>5 DEF SentOn, Inv, SkipInv
  <2> QED BY <1>2, <1>5, <2>1 DEF SentOn
<1> QED BY <1>1, <1>3, <1>4, <1>5 DEF Moves

\* No move leaves a row that was skipped, declined, accepted or failed.
LEMMA StaysStep ==
  Inv /\ [Next]_vars => \A k \in Keys :
    row[k] \in {"skipped", "declined", "accepted", "failed"} => row'[k] = row[k]
<1> SUFFICES ASSUME Inv, [Next]_vars, NEW k \in Keys,
                    row[k] \in {"skipped", "declined", "accepted", "failed"}
             PROVE  row'[k] = row[k]
  OBVIOUS
<1>1. Moves(k)
  BY RowStep, InvTyped DEF Inv
<1> QED BY <1>1 DEF Moves, Rests, Born, Falls, Withdraws, Concludes, SentOn, Settles, Waits

LEMMA Invariance == Spec => []Inv
<1>1. QED
  BY InvInit, InvStep, PTL DEF Spec

\* Types, one row of a key, lists without repetition, messages of rows that
\* exist (models/domain.py, automation/lifecycle.py).
THEOREM OutreachTyped == Spec => []TypeOK
<1>1. QED
  BY InvTyped, Invariance, PTL

\* What counts as sent, answered or accepted was said in full (mark_sent,
\* mark_outreach_response, confirm_booking).
THEOREM OutcomesAreTold == Spec => []OutcomeWasTold
<1>1. Init => OutcomeWasTold
  BY DEF Init, OutcomeWasTold
<1>2. QED
  BY <1>1, OutcomeStep, Invariance, PTL DEF Spec

\* A row that was skipped is never completed (mark_outreach_response).
THEOREM SkippedAreUntold == Spec => []SkippedStaysUntold
<1>1. Init => SkippedStaysUntold
  BY DEF Init, SkippedStaysUntold
<1>2. QED
  BY <1>1, SkippedStep, Invariance, PTL DEF Spec

\* What became of an outreach is settled once (mark_sent, mark_failed,
\* mark_outreach_response, confirm_booking).
THEOREM OutcomesStay == Spec => OutcomeStays
<1>1. Inv /\ [Next]_vars
        => [\A k \in Keys : row[k] \in {"skipped", "declined", "accepted", "failed"}
                              => row'[k] = row[k]]_vars
  BY StaysStep
<1>2. QED
  BY <1>1, Invariance, PTL DEF Spec, OutcomeStays
=============================================================================

---------------------------- MODULE SignupProofs ----------------------------
(* The connection of a business is whole and is kept, for every number of  *)
(* requests, attempts, rows, browser events and crashes.                   *)
EXTENDS Signup, SequenceTheorems, TLAPS

-----------------------------------------------------------------------------
(* Rows of connections.                                                    *)

GoodRow(c) == c \in Rows /\ (c.id = 0 <=> c.status = "none")

\* A failure leaves the row there is, and one that is connected or absent as
\* it was; it never leaves a row pending.
LEMMA BlamedRow ==
  ASSUME NEW c, GoodRow(c)
  PROVE  /\ GoodRow(Blamed(c)) /\ Blamed(c).id = c.id
         /\ Blamed(c).status # "pending"
         /\ c.status = "connected" => Blamed(c) = c
         /\ Blamed(c).status = "connected" => Blamed(c) = c
<1>1. CASE Spared(c)
  BY <1>1 DEF Blamed, Spared, GoodRow
<1>2. CASE ~Spared(c)
  <2>1. Blamed(c) = [c EXCEPT !.status = "error"]
    BY <1>2 DEF Blamed
  <2>2. c.status # "connected" /\ c.status # "none"
    BY <1>2 DEF Spared
  <2>3. Blamed(c) \in Rows /\ Blamed(c).id = c.id /\ Blamed(c).status = "error"
    BY <2>1 DEF GoodRow, Rows, Statuses
  <2>4. QED
    BY <2>2, <2>3 DEF GoodRow
<1>3. QED
  BY <1>1, <1>2

\* Disconnecting.
LEMMA EmptiedRow ==
  ASSUME NEW c, GoodRow(c), c.status # "none"
  PROVE  GoodRow(Emptied(c)) /\ Emptied(c).id = c.id /\ Emptied(c).status = "disconnected"
  BY DEF Emptied, GoodRow, Rows, Statuses, Writers

\* A new row follows the one that is gone.
LEMMA NextRow ==
  ASSUME NEW c, GoodRow(c), c.id < MaxRows, NEW m \in Modes
  PROVE  /\ GoodRow(NewRow(c, m)) /\ NewRow(c, m).id = c.id + 1
         /\ NewRow(c, m).status = "pending"
  BY SignupAssumption DEF NewRow, GoodRow, Rows, Statuses, Modes, Writers

\* A signup begins with a row that is pending.
LEMMA BegunRow ==
  ASSUME NEW c, GoodRow(c), MayBegin(c)
  PROVE  GoodRow(Begun(c)) /\ c.id <= Begun(c).id /\ Begun(c).id # 0 /\ Begun(c).status = "pending"
<1>1. CASE Absent(c)
  <2>1. c.id < MaxRows /\ "coexistence" \in Modes
    BY <1>1 DEF MayBegin, Modes
  <2>2. Begun(c) = NewRow(c, "coexistence")
    BY <1>1 DEF Begun
  <2>3. QED
    BY <2>1, <2>2, NextRow, SignupAssumption DEF GoodRow, Rows
<1>2. CASE ~Absent(c)
  <2>1. c.status \in {"pending", "error"}
    BY <1>2 DEF Absent, MayBegin, GoodRow, Rows, Statuses
  <2>2. CASE c.status = "error"
    <3>1. Begun(c) = [c EXCEPT !.status = "pending", !.ids = Nobody, !.cred = Nobody]
      BY <1>2, <2>2 DEF Begun
    <3>2. Begun(c) \in Rows /\ Begun(c).id = c.id /\ Begun(c).status = "pending"
      BY <3>1 DEF GoodRow, Rows, Statuses, Writers
    <3>3. QED
      BY <3>2, <2>2, SignupAssumption DEF GoodRow, Rows
  <2>3. CASE c.status = "pending"
    BY <1>2, <2>3, SignupAssumption DEF Begun, GoodRow, Rows
  <2>4. QED
    BY <2>1, <2>2, <2>3
<1>3. QED
  BY <1>1, <1>2

\* A completion connects what there is, or a new row.
LEMMA CompletedRow ==
  ASSUME NEW c, GoodRow(c), NEW m \in Modes, NEW r \in Requests,
         Absent(c) => c.id < MaxRows
  PROVE  /\ GoodRow(Completed(c, m, r)) /\ c.id <= Completed(c, m, r).id
         /\ Completed(c, m, r).status = "connected" /\ Completed(c, m, r).mode = m
         /\ Completed(c, m, r).ids = r /\ Completed(c, m, r).cred = r
<1> DEFINE b == IF Absent(c) THEN NewRow(c, m) ELSE c
<1>1. GoodRow(b) /\ c.id <= b.id /\ b.status # "none"
  <2>1. CASE Absent(c)
    BY <2>1, NextRow, SignupAssumption DEF GoodRow, Rows
  <2>2. CASE ~Absent(c)
    BY <2>2, SignupAssumption DEF GoodRow, Rows, Absent
  <2>3. QED
    BY <2>1, <2>2
<1>2. Completed(c, m, r) = [b EXCEPT !.status = "connected", !.mode = m, !.ids = r, !.cred = r]
  BY DEF Completed
<1> HIDE DEF b
<1>3. /\ Completed(c, m, r) \in Rows /\ Completed(c, m, r).id = b.id
      /\ Completed(c, m, r).status = "connected" /\ Completed(c, m, r).mode = m
      /\ Completed(c, m, r).ids = r /\ Completed(c, m, r).cred = r
  BY <1>1, <1>2 DEF GoodRow, Rows, Statuses, Writers
<1>4. QED
  BY <1>1, <1>3 DEF GoodRow

-----------------------------------------------------------------------------
(* Lists of attempts.                                                      *)

\* The attempts of the first n rows, at most one of them active.
GoodAttempts(as, n) ==
  /\ as \in Seq(Attempts) /\ Len(as) <= MaxAttempts
  /\ \A a, b \in ActiveOnes(as) : a = b
  /\ \A a \in DOMAIN as : as[a].conn <= n

\* An interval has one length.
LEMMA OneLength ==
  ASSUME NEW m \in Nat, NEW n \in Nat, 1 .. m = 1 .. n
  PROVE  m = n
<1>1. ASSUME m > n PROVE FALSE
  <2>1. m \in 1 .. m
    BY <1>1
  <2>2. m \in 1 .. n
    BY <2>1
  <2>3. QED
    BY <1>1, <2>2
<1>2. ASSUME n > m PROVE FALSE
  <2>1. n \in 1 .. n
    BY <1>2
  <2>2. n \in 1 .. m
    BY <2>1
  <2>3. QED
    BY <1>2, <2>2
<1>3. QED
  BY <1>1, <1>2

\* What is appended to leaves the rest in its place.
LEMMA AppendKeeps ==
  ASSUME NEW S, NEW s \in Seq(S), NEW e \in S
  PROVE  \A i \in 1 .. Len(s) : Append(s, e)[i] = s[i]
  BY AppendProperties

\* A list with the places of another one.
LEMMA SameLength ==
  ASSUME NEW S, NEW as \in Seq(S), NEW T, NEW bs \in [DOMAIN as -> T]
  PROVE  bs \in Seq(T) /\ Len(bs) = Len(as) /\ DOMAIN bs = DOMAIN as
<1>1. Len(as) \in Nat /\ DOMAIN as = 1 .. Len(as)
  BY LenProperties
<1>2. bs \in [1 .. Len(as) -> T]
  BY <1>1
<1>3. bs \in Seq(T)
  BY <1>1, <1>2, SeqDef
<1>4. Len(bs) \in Nat /\ DOMAIN bs = 1 .. Len(bs)
  BY <1>3, LenProperties
<1>5. 1 .. Len(bs) = 1 .. Len(as)
  BY <1>1, <1>2, <1>4
<1>6. Len(bs) = Len(as)
  BY <1>1, <1>4, <1>5, OneLength
<1>7. QED
  BY <1>1, <1>3, <1>4, <1>6

\* A list whose attempts keep their row, and of which none becomes active.
LEMMA GoodChange ==
  ASSUME NEW as, NEW n, GoodAttempts(as, n), NEW bs \in [DOMAIN as -> Attempts],
         \A a \in DOMAIN as : bs[a].conn = as[a].conn,
         \A a \in DOMAIN as : bs[a].state \in Active => as[a].state \in Active
  PROVE  GoodAttempts(bs, n) /\ ActiveOnes(bs) \subseteq ActiveOnes(as) /\ Len(bs) = Len(as)
<1>1. bs \in Seq(Attempts) /\ Len(bs) = Len(as) /\ DOMAIN bs = DOMAIN as
  BY SameLength DEF GoodAttempts
<1>2. ActiveOnes(bs) \subseteq ActiveOnes(as)
  BY <1>1 DEF ActiveOnes
<1>3. QED
  BY <1>1, <1>2 DEF GoodAttempts

\* One attempt changes.
LEMMA GoodUpdate ==
  ASSUME NEW as, NEW n, GoodAttempts(as, n), NEW a \in DOMAIN as, NEW u \in Attempts,
         u.conn = as[a].conn, u.state \in Active => as[a].state \in Active
  PROVE  /\ GoodAttempts([as EXCEPT ![a] = u], n) /\ Len([as EXCEPT ![a] = u]) = Len(as)
         /\ ActiveOnes([as EXCEPT ![a] = u]) \subseteq ActiveOnes(as)
<1> DEFINE bs == [as EXCEPT ![a] = u]
<1>1. as \in [DOMAIN as -> Attempts]
  BY LenProperties DEF GoodAttempts
<1>2. /\ bs \in [DOMAIN as -> Attempts]
      /\ \A b \in DOMAIN as : bs[b] = IF b = a THEN u ELSE as[b]
  BY <1>1
<1> HIDE DEF bs
<1>3. GoodAttempts(bs, n) /\ ActiveOnes(bs) \subseteq ActiveOnes(as) /\ Len(bs) = Len(as)
  BY <1>2, GoodChange
<1>4. QED
  BY <1>3 DEF bs

\* An attempt ends; what is not in the list is not changed.
LEMMA GoodFinish ==
  ASSUME NEW as, NEW n, GoodAttempts(as, n), NEW a, NEW s \in Terminal
  PROVE  /\ GoodAttempts(Finished(as, a, s), n) /\ Len(Finished(as, a, s)) = Len(as)
         /\ ActiveOnes(Finished(as, a, s)) \subseteq ActiveOnes(as)
<1>1. as \in [DOMAIN as -> Attempts]
  BY LenProperties DEF GoodAttempts
<1>2. CASE a \in DOMAIN as
  <2> DEFINE u == [as[a] EXCEPT !.state = s, !.due = TRUE]
  <2>1. u \in Attempts /\ u.conn = as[a].conn /\ u.state = s
    BY <1>1, <1>2 DEF Attempts
  <2>2. Finished(as, a, s) = [as EXCEPT ![a] = u]
    BY <1>1, <1>2 DEF Finished
  <2>3. s \notin Active
    BY DEF Terminal, Active
  <2> HIDE DEF u
  <2>4. u.state \in Active => as[a].state \in Active
    BY <2>1, <2>3
  <2>5. /\ GoodAttempts([as EXCEPT ![a] = u], n) /\ Len([as EXCEPT ![a] = u]) = Len(as)
        /\ ActiveOnes([as EXCEPT ![a] = u]) \subseteq ActiveOnes(as)
    BY <1>2, <2>1, <2>4, GoodUpdate
  <2>6. QED
    BY <2>2, <2>5
<1>3. CASE a \notin DOMAIN as
  <2>1. Finished(as, a, s) = as
    BY <1>1, <1>3 DEF Finished
  <2>2. QED
    BY <2>1
<1>4. QED
  BY <1>2, <1>3

\* Attempts whose time is over expire.
LEMMA GoodReconciled ==
  ASSUME NEW as, NEW n, GoodAttempts(as, n)
  PROVE  /\ GoodAttempts(Reconciled(as), n) /\ Len(Reconciled(as)) = Len(as)
         /\ ActiveOnes(Reconciled(as)) = {a \in ActiveOnes(as) : ~as[a].due}
         /\ \A a \in DOMAIN as : Reconciled(as)[a].conn = as[a].conn
         /\ DOMAIN Reconciled(as) = DOMAIN as
<1>1. as \in [DOMAIN as -> Attempts]
  BY LenProperties DEF GoodAttempts
<1>2. ASSUME NEW a \in DOMAIN as
      PROVE  /\ Reconciled(as)[a] \in Attempts /\ Reconciled(as)[a].conn = as[a].conn
             /\ Reconciled(as)[a].state \in Active <=> a \in ActiveOnes(as) /\ ~as[a].due
  <2>1. CASE a \in Overdue(as)
    <3>1. Reconciled(as)[a] = [as[a] EXCEPT !.state = "expired"]
      BY <1>2, <2>1 DEF Reconciled
    <3>2. a \in ActiveOnes(as) /\ as[a].due
      BY <2>1 DEF Overdue
    <3>3. "expired" \in Terminal /\ "expired" \notin Active
      BY DEF Terminal, Active
    <3>4. /\ Reconciled(as)[a] \in Attempts /\ Reconciled(as)[a].conn = as[a].conn
          /\ Reconciled(as)[a].state = "expired"
      BY <1>1, <1>2, <3>1, <3>3 DEF Attempts
    <3>5. QED
      BY <3>2, <3>3, <3>4
  <2>2. CASE a \notin Overdue(as)
    <3>1. Reconciled(as)[a] = as[a]
      BY <1>2, <2>2 DEF Reconciled
    <3>2. ~(a \in ActiveOnes(as) /\ as[a].due)
      BY <2>2 DEF Overdue
    <3>3. a \in ActiveOnes(as) <=> as[a].state \in Active
      BY <1>2 DEF ActiveOnes
    <3>4. QED
      BY <1>1, <1>2, <3>1, <3>2, <3>3
  <2>3. QED
    BY <2>1, <2>2
<1>3. Reconciled(as) \in [DOMAIN as -> Attempts]
  <2>1. DOMAIN Reconciled(as) = DOMAIN as
    BY DEF Reconciled
  <2>2. Reconciled(as) = [a \in DOMAIN as |-> Reconciled(as)[a]]
    BY DEF Reconciled
  <2>3. QED
    BY <1>2, <2>2
<1>4. GoodAttempts(Reconciled(as), n) /\ Len(Reconciled(as)) = Len(as)
  <2>1. \A a \in DOMAIN as : Reconciled(as)[a].state \in Active => as[a].state \in Active
    BY <1>2 DEF ActiveOnes
  <2>2. QED
    BY <1>2, <1>3, <2>1, GoodChange
<1>5. DOMAIN Reconciled(as) = DOMAIN as
  BY DEF Reconciled
<1>6. ActiveOnes(Reconciled(as)) = {a \in ActiveOnes(as) : ~as[a].due}
  <2>1. \A a : a \in ActiveOnes(Reconciled(as))
              <=> a \in DOMAIN as /\ Reconciled(as)[a].state \in Active
    BY <1>5 DEF ActiveOnes
  <2>2. \A a : a \in ActiveOnes(as) => a \in DOMAIN as
    BY DEF ActiveOnes
  <2>3. QED
    BY <1>2, <2>1, <2>2
<1>7. QED
  BY <1>2, <1>4, <1>5, <1>6

\* A signup takes up the attempt for its row, or starts one and ends the other.
LEMMA GoodStarted ==
  ASSUME NEW c, GoodRow(c), c.id # 0, NEW as, NEW n, GoodAttempts(as, n),
         n \in Nat, n <= c.id, Len(Started(as, c)) <= MaxAttempts
  PROVE  GoodAttempts(Started(as, c), c.id)
<1>c. c.id \in 1 .. MaxRows
  BY SignupAssumption DEF GoodRow, Rows
<1>1. as \in [DOMAIN as -> Attempts] /\ DOMAIN as = 1 .. Len(as) /\ Len(as) \in Nat
  BY LenProperties DEF GoodAttempts
<1>2. \A a \in DOMAIN as : as[a].conn \in 1 .. MaxRows /\ as[a].conn <= c.id
  <2>1. \A a \in DOMAIN as : as[a].conn \in 1 .. MaxRows
    BY <1>1 DEF Attempts
  <2>2. \A a \in DOMAIN as : as[a].conn <= n
    BY DEF GoodAttempts
  <2>3. \A i \in 1 .. MaxRows : i <= n => i <= c.id
    BY <1>c, SignupAssumption
  <2>4. QED
    BY <2>1, <2>2, <2>3
<1>3. CASE Continues(as, c)
  BY <1>2, <1>3 DEF Started, GoodAttempts
<1>4. CASE ~Continues(as, c)
  <2> DEFINE ss == Superseded(as)
             o == Opened(c.id)
             bs == Append(ss, o)
  <2>1. Started(as, c) = bs
    BY <1>4 DEF Started
  <2>2. ASSUME NEW a \in DOMAIN as
        PROVE  ss[a] \in Attempts /\ ss[a].conn = as[a].conn /\ ss[a].state \notin Active
    <3>1. CASE as[a].state \in Active
      <4>1. ss[a] = [as[a] EXCEPT !.state = "superseded", !.due = TRUE]
        BY <2>2, <3>1 DEF Superseded
      <4>2. "superseded" \in Terminal /\ "superseded" \notin Active
        BY DEF Terminal, Active
      <4>3. QED
        BY <1>1, <2>2, <4>1, <4>2 DEF Attempts
    <3>2. CASE as[a].state \notin Active
      BY <1>1, <2>2, <3>2 DEF Superseded
    <3>3. QED
      BY <3>1, <3>2
  <2>3. ss \in [DOMAIN as -> Attempts]
    <3>1. ss = [a \in DOMAIN as |-> ss[a]]
      BY DEF Superseded
    <3>2. QED
      BY <2>2, <3>1
  <2> HIDE DEF ss
  <2>4. ss \in Seq(Attempts) /\ Len(ss) = Len(as) /\ DOMAIN ss = 1 .. Len(as)
    BY <1>1, <2>3, SameLength DEF GoodAttempts
  <2>5. o \in Attempts /\ o.conn = c.id
    BY <1>c DEF Opened, Attempts, Active
  <2> HIDE DEF o
  <2>6. /\ bs \in Seq(Attempts) /\ Len(bs) = Len(ss) + 1
        /\ bs[Len(ss) + 1] = o
        /\ \A a \in 1 .. Len(ss) : bs[a] = ss[a]
    <3>1. bs \in Seq(Attempts)
      BY <2>4, <2>5, AppendProperties
    <3>2. Len(bs) = Len(ss) + 1
      BY <2>4, <2>5, AppendProperties
    <3>3. bs[Len(ss) + 1] = o
      BY <2>4, <2>5, AppendProperties
    <3>4. \A a \in 1 .. Len(ss) : bs[a] = ss[a]
      BY <2>4, <2>5, AppendKeeps
    <3>5. QED
      BY <3>1, <3>2, <3>3, <3>4
  <2>7. DOMAIN bs = 1 .. Len(ss) + 1
    BY <2>6, LenProperties
  <2> HIDE DEF bs
  <2>8. ASSUME NEW a \in DOMAIN bs
        PROVE  \/ a \in DOMAIN as /\ bs[a] = ss[a]
               \/ a = Len(ss) + 1 /\ bs[a] = o
    <3>1. CASE a = Len(ss) + 1
      BY <2>6, <3>1
    <3>2. CASE a # Len(ss) + 1
      <4>1. a \in 1 .. Len(ss)
        <5> DEFINE k == Len(ss)
        <5>1. k \in Nat /\ a \in 1 .. k + 1 /\ a # k + 1
          BY <1>1, <2>4, <2>7, <2>8, <3>2
        <5> HIDE DEF k
        <5>2. a \in 1 .. k
          BY <5>1
        <5>3. QED
          BY <5>2 DEF k
      <4>2. QED
        BY <1>1, <2>4, <2>6, <4>1
    <3>3. QED
      BY <3>1, <3>2
  <2>9. \A a \in ActiveOnes(bs) : a = Len(ss) + 1
    BY <2>2, <2>8 DEF ActiveOnes
  <2>10. \A a \in DOMAIN bs : bs[a].conn <= c.id
    <3>1. c.id <= c.id
      BY <1>c, SignupAssumption
    <3>2. QED
      BY <1>2, <2>2, <2>5, <2>8, <3>1
  <2>11. QED
    BY <2>1, <2>6, <2>9, <2>10 DEF GoodAttempts
<1>5. QED
  BY <1>3, <1>4

\* What a stage makes of an attempt is an attempt for the same row.
LEMMA RecordedAttempt ==
  ASSUME NEW t \in Attempts, NEW stage, NEW code \in BOOLEAN, NEW waba \in BOOLEAN
  PROVE  Recorded(t, stage, code, waba) \in Attempts /\ Recorded(t, stage, code, waba).conn = t.conn
<1> DEFINE u == [t EXCEPT !.code = @ \/ code \/ stage = "callback", !.waba = @ \/ waba]
           s == StateAfter(u, stage)
           d == IF s \in Terminal THEN TRUE ELSE u.due /\ stage \notin Refreshing
<1>1. (t.code \/ code \/ stage = "callback") \in BOOLEAN /\ (t.waba \/ waba) \in BOOLEAN
  OBVIOUS
<1>2. u \in Attempts /\ u.conn = t.conn
  BY <1>1 DEF Attempts
<1> HIDE DEF u
<1>3. s \in Active \cup Terminal
  BY <1>2 DEF StateAfter, Attempts, Active, Terminal
<1>4. Recorded(t, stage, code, waba) = [u EXCEPT !.state = s, !.due = d]
  BY DEF Recorded, u
<1>5. d \in BOOLEAN
  BY <1>2 DEF Attempts
<1> HIDE DEF s, d
<1>6. QED
  BY <1>2, <1>3, <1>4, <1>5 DEF Attempts

-----------------------------------------------------------------------------
(* The invariant.                                                          *)

ReqOK == req \in [Requests -> [kind: Kinds, at: Places, attempt: 0 .. MaxAttempts, found: BOOLEAN]]
CountsOK == stranded \in BOOLEAN /\ events \in 0 .. MaxEvents /\ crashes \in 0 .. MaxCrashes

\* A connection that works was made by one request, which is over; who
\* leaves an exclusive connection has a row.
Made ==
  /\ conn.status = "connected" =>
       /\ conn.ids \in Requests /\ conn.cred = conn.ids
       /\ req[conn.ids].kind = conn.mode /\ req[conn.ids].at = "done"
  /\ \A q \in Requests : req[q].kind = "leave" => conn.id # 0

Inv == /\ GoodRow(conn) /\ GoodAttempts(attempts, conn.id) /\ ReqOK /\ CountsOK
       /\ Made /\ PendingHasAttempt

\* The invariant is the type invariant and two facts more.
LEMMA InvTyped == Inv <=> TypeOK /\ Made /\ PendingHasAttempt
  BY DEF Inv, TypeOK, GoodRow, GoodAttempts, ReqOK, CountsOK

\* What a step does not do to a connection that works (ConnectionIsKept).
Keeps == conn.status = "connected" =>
  \/ conn'.status = "disconnected"
  \/ conn'.status = "connected" /\ (conn'.ids = conn.ids \/ conn'.mode # conn.mode)

\* Requests that were born stay what they are, and those that are over stay so.
Kept == \A q \in Requests :
  /\ req[q].at # "unborn" =>
       req'[q].kind = req[q].kind /\ (req[q].at = "done" => req'[q].at = "done")
  /\ req'[q].kind = "leave" => req[q].kind = "leave" \/ conn.id # 0

\* At the start there is nothing.
LEMMA InvInit == Init => Inv
<1> SUFFICES ASSUME Init PROVE Inv
  OBVIOUS
<1>1. GoodRow(conn) /\ conn.status = "none"
  BY SignupAssumption DEF Init, NoRow, GoodRow, Rows, Statuses, Modes, Writers
<1>2. GoodAttempts(attempts, conn.id)
  <2>1. attempts = <<>> /\ attempts \in Seq(Attempts) /\ Len(attempts) = 0
    BY EmptySeq DEF Init
  <2>2. DOMAIN attempts = {}
    BY <2>1
  <2>3. QED
    BY <2>1, <2>2, SignupAssumption DEF GoodAttempts, ActiveOnes
<1>3. ReqOK /\ CountsOK
  <2> DEFINE new == [kind |-> "coexistence", at |-> "unborn", attempt |-> 0, found |-> FALSE]
  <2>1. new \in [kind: Kinds, at: Places, attempt: 0 .. MaxAttempts, found: BOOLEAN]
    BY SignupAssumption DEF Kinds, Places
  <2>2. req = [r \in Requests |-> new]
    BY DEF Init
  <2> HIDE DEF new
  <2>3. ReqOK
    BY <2>1, <2>2 DEF ReqOK
  <2>4. CountsOK
    <3>1. events \in 0 .. MaxEvents /\ crashes \in 0 .. MaxCrashes
      BY SignupAssumption DEF Init
    <3>2. stranded \in BOOLEAN
      BY DEF Init
    <3>3. QED
      BY <3>1, <3>2 DEF CountsOK
  <2>5. QED
    BY <2>3, <2>4
<1>4. Made /\ PendingHasAttempt
  BY <1>1 DEF Init, Made, PendingHasAttempt, Orphan
<1>5. QED
  BY <1>1, <1>2, <1>3, <1>4 DEF Inv

\* Attempts of the first rows are attempts of more rows.
LEMMA Widen ==
  ASSUME NEW as, NEW n \in Nat, NEW k \in Nat, n <= k, GoodAttempts(as, n)
  PROVE  GoodAttempts(as, k)
<1>1. ASSUME NEW a \in DOMAIN as
      PROVE  as[a].conn <= k
  <2>1. as[a] \in Attempts
    BY LenProperties DEF GoodAttempts
  <2>2. as[a].conn \in 1 .. MaxRows
    BY <2>1 DEF Attempts
  <2> DEFINE x == as[a].conn
  <2>3. x \in 1 .. MaxRows /\ x <= n
    BY <2>2 DEF GoodAttempts
  <2> HIDE DEF x
  <2>4. x <= k
    BY <2>3, SignupAssumption
  <2>5. QED
    BY <2>4 DEF x
<1>2. QED
  BY <1>1 DEF GoodAttempts

\* A request that is not over goes on.
LEMMA Going ==
  ASSUME ReqOK, NEW r \in Requests, req[r].at # "done",
         (\E p \in Places : Goes(r, p)) \/ Ends(r)
  PROVE  ReqOK' /\ Kept
<1>1. CASE \E p \in Places : Goes(r, p)
  <2>1. PICK p \in Places : Goes(r, p)
    BY <1>1
  <2>2. /\ req' = [req EXCEPT ![r] = [req[r] EXCEPT !.at = p]]
        /\ [req[r] EXCEPT !.at = p] \in [kind: Kinds, at: Places, attempt: 0 .. MaxAttempts, found: BOOLEAN]
    BY <2>1 DEF Goes, ReqOK
  <2>3. QED
    BY <2>2 DEF ReqOK, Kept
<1>2. CASE Ends(r)
  <2> DEFINE over == [kind |-> req[r].kind, at |-> "done", attempt |-> 0, found |-> FALSE]
  <2>1. over \in [kind: Kinds, at: Places, attempt: 0 .. MaxAttempts, found: BOOLEAN]
    BY SignupAssumption DEF ReqOK, Places
  <2>2. req' = [req EXCEPT ![r] = over]
    BY <1>2 DEF Ends, ReqOK
  <2>3. QED
    BY <2>1, <2>2 DEF ReqOK, Kept
<1>3. QED
  BY <1>1, <1>2

\* A request begins.
LEMMA Born ==
  ASSUME ReqOK, NEW r \in Requests, req[r].at = "unborn",
         NEW k \in Kinds, NEW p \in Places, NEW a \in 0 .. MaxAttempts, NEW f \in BOOLEAN,
         req' = [req EXCEPT ![r] = [kind |-> k, at |-> p, attempt |-> a, found |-> f]],
         k = "leave" => conn.id # 0
  PROVE  ReqOK' /\ Kept
  BY DEF ReqOK, Kept

\* The row stays, or a failure is written to it.
LEMMA RowStays ==
  ASSUME Inv, conn' = conn \/ conn' = Blamed(conn), Kept
  PROVE  GoodRow(conn)' /\ conn'.id = conn.id /\ Made' /\ Keeps
<1>1. GoodRow(conn') /\ conn'.id = conn.id
  BY BlamedRow DEF Inv
<1>2. conn'.status = "connected" \/ conn.status = "connected" => conn' = conn
  BY BlamedRow DEF Inv
<1>3. Made'
  BY <1>1, <1>2 DEF Inv, Made, Kept
<1>4. Keeps
  BY <1>2 DEF Keeps
<1>5. QED
  BY <1>1, <1>3, <1>4 DEF GoodRow

\* A row that has an active attempt keeps it.
LEMMA AttemptStays ==
  ASSUME PendingHasAttempt, stranded => stranded',
         conn'.status = "pending" =>
           /\ conn.status = "pending" /\ conn'.id = conn.id
           /\ \A b \in ActiveOnes(attempts) : attempts[b].conn = conn.id =>
                b \in ActiveOnes(attempts)' /\ attempts'[b].conn = attempts[b].conn
  PROVE  PendingHasAttempt'
  BY DEF PendingHasAttempt, Orphan, Continues

\* Nothing but the requests moves.
LEMMA OnlyRequests ==
  ASSUME Inv, UNCHANGED <<conn, attempts, stranded>>, ReqOK', CountsOK', Kept
  PROVE  Inv' /\ Keeps
<1>1. GoodRow(conn)' /\ Made' /\ Keeps
  BY RowStays
<1>2. GoodAttempts(attempts, conn.id)' /\ PendingHasAttempt'
  BY DEF Inv, GoodAttempts, ActiveOnes, PendingHasAttempt, Orphan, Continues
<1>3. QED
  BY <1>1, <1>2 DEF Inv

-----------------------------------------------------------------------------
(* One lemma per step of the panel.                                        *)

LEMMA BeginAttemptStep ==
  ASSUME Inv, NEW k, BeginAttempt(k)
  PROVE  Inv' /\ Keeps
<1> DEFINE as == Reconciled(attempts)
           c1 == IF Overdue(attempts) # {} THEN Blamed(conn) ELSE conn
           c2 == IF c1.status = "pending" /\ ActiveOnes(as) = {} THEN Blamed(c1) ELSE c1
           c3 == Begun(c2)
           as3 == IF k # 0 THEN as ELSE Started(as, c3)
<1>1. /\ MayBegin(c2) /\ Len(as3) <= MaxAttempts /\ conn' = c3 /\ attempts' = as3
      /\ stranded' = (stranded \/ Orphan(c3, as3))
      /\ UNCHANGED <<req, events, crashes>>
  BY Zenon DEF BeginAttempt
<1>2. GoodRow(c1) /\ c1.id = conn.id /\ (conn.status = "connected" => c1 = conn)
  BY BlamedRow DEF Inv
<1> HIDE DEF c1
<1>3. GoodRow(c2) /\ c2.id = conn.id /\ (conn.status = "connected" => c2 = conn)
  BY <1>2, BlamedRow
<1> HIDE DEF c2
<1>4. conn.status # "connected"
  BY <1>1, <1>3 DEF MayBegin
<1>5. GoodRow(c3) /\ conn.id <= c3.id /\ c3.id # 0 /\ c3.status = "pending"
  BY <1>1, <1>3, BegunRow
<1> HIDE DEF c3
<1>n. conn.id \in Nat /\ c3.id \in Nat
  BY <1>5, SignupAssumption DEF Inv, GoodRow, Rows
<1>6. GoodAttempts(as, conn.id)
  BY GoodReconciled DEF Inv
<1> HIDE DEF as
<1>7. GoodAttempts(as3, c3.id)
  <2>1. CASE k # 0
    BY <1>5, <1>6, <1>n, <2>1, Widen
  <2>2. CASE k = 0
    BY <1>1, <1>5, <1>6, <1>n, <2>2, GoodStarted
  <2>3. QED
    BY <2>1, <2>2
<1> HIDE DEF as3
<1>8. GoodRow(conn)' /\ GoodAttempts(attempts, conn.id)'
  BY <1>1, <1>5, <1>7 DEF GoodRow, GoodAttempts, ActiveOnes
<1>9. Made' /\ Keeps
  BY <1>1, <1>4, <1>5 DEF Made, Keeps
<1>10. PendingHasAttempt'
  BY <1>1 DEF PendingHasAttempt, Orphan, Continues, ActiveOnes
<1>11. stranded' \in BOOLEAN
  BY <1>1, Zenon DEF Orphan, Inv, CountsOK
<1>12. ReqOK' /\ CountsOK'
  BY <1>1, <1>11 DEF Inv, ReqOK, CountsOK
<1>13. QED
  BY <1>8, <1>9, <1>10, <1>12 DEF Inv

\* Attempts expire and the failure is written to the row.
LEMMA Expiring ==
  ASSUME Inv, attempts' = Reconciled(attempts), conn' = Blamed(conn),
         UNCHANGED <<req, stranded>>, CountsOK'
  PROVE  Inv' /\ Keeps
<1>1. GoodRow(conn)' /\ conn'.id = conn.id /\ Made' /\ Keeps
  BY RowStays DEF Kept
<1>2. GoodAttempts(attempts', conn.id)
  BY GoodReconciled DEF Inv
<1>3. GoodAttempts(attempts, conn.id)'
  BY <1>1, <1>2 DEF GoodAttempts, ActiveOnes
<1>4. PendingHasAttempt'
  BY BlamedRow DEF Inv, PendingHasAttempt, Orphan
<1>5. QED
  BY <1>1, <1>3, <1>4 DEF Inv, ReqOK

\* One active attempt changes, and the row stays.
LEMMA Changing ==
  ASSUME Inv, NEW a \in ActiveOnes(attempts), NEW u \in Attempts, u.conn = attempts[a].conn,
         attempts' = [attempts EXCEPT ![a] = u],
         UNCHANGED <<conn, req>>, CountsOK',
         \/ u.state \in Active /\ stranded' = stranded
         \/ stranded' = (stranded \/ Orphan(conn', attempts'))
  PROVE  Inv' /\ Keeps
<1>1. GoodRow(conn)' /\ conn'.id = conn.id /\ Made' /\ Keeps
  BY RowStays DEF Kept
<1>a. a \in DOMAIN attempts /\ attempts[a].state \in Active
  BY DEF ActiveOnes
<1>2. GoodAttempts(attempts', conn.id)
  BY <1>a, GoodUpdate DEF Inv
<1>3. GoodAttempts(attempts, conn.id)'
  BY <1>1, <1>2 DEF GoodAttempts, ActiveOnes
<1>4. PendingHasAttempt'
  <2>1. CASE u.state \in Active /\ stranded' = stranded
    <3>1. ASSUME NEW b \in ActiveOnes(attempts)
          PROVE  b \in ActiveOnes(attempts)' /\ attempts'[b].conn = attempts[b].conn
      <4>1. attempts'[b] = IF b = a THEN u ELSE attempts[b]
        BY DEF ActiveOnes
      <4>2. DOMAIN attempts' = DOMAIN attempts
        OBVIOUS
      <4>3. QED
        BY <2>1, <4>1, <4>2 DEF ActiveOnes
    <3>2. QED
      BY <2>1, <3>1, AttemptStays DEF Inv
  <2>2. CASE stranded' = (stranded \/ Orphan(conn', attempts'))
    BY <2>2 DEF PendingHasAttempt, Orphan, Continues, ActiveOnes
  <2>3. QED
    BY <2>1, <2>2
<1>5. QED
  BY <1>1, <1>3, <1>4 DEF Inv, ReqOK

LEMMA TelemetryStep ==
  ASSUME Inv, NEW a, NEW stage, Telemetry(a, stage)
  PROVE  Inv' /\ Keeps
<1>1. a \in ActiveOnes(attempts) /\ attempts[a] \in Attempts
  <2>1. a \in ActiveOnes(attempts)
    BY DEF Telemetry, TheActive
  <2>2. attempts \in [DOMAIN attempts -> Attempts]
    BY LenProperties DEF Inv, GoodAttempts
  <2>3. QED
    BY <2>1, <2>2 DEF ActiveOnes
<1>2. events' \in 0 .. MaxEvents
  BY SignupAssumption DEF Telemetry, Inv, CountsOK
<1>3. UNCHANGED <<req, crashes>>
  BY DEF Telemetry
<1>4. CASE attempts[a].due
  <2>1. attempts' = Reconciled(attempts) /\ conn' = Blamed(conn) /\ UNCHANGED stranded
    BY <1>4 DEF Telemetry
  <2>2. CountsOK'
    BY <1>2, <1>3, <2>1 DEF Inv, CountsOK
  <2>3. QED
    BY <1>3, <2>1, <2>2, Expiring
<1>5. CASE ~attempts[a].due
  <2>1. PICK code \in BOOLEAN, waba \in BOOLEAN :
          attempts' = [attempts EXCEPT ![a] = Recorded(attempts[a], stage, code, waba)]
    BY <1>1, <1>5 DEF Telemetry, ActiveOnes
  <2>2. UNCHANGED conn
    BY <1>5 DEF Telemetry
  <2>3. stranded' = (stranded \/ Orphan(conn', attempts'))
    BY <1>5, <2>2 DEF Telemetry
  <2>4. stranded' \in BOOLEAN
    BY <2>3 DEF Orphan, Inv, CountsOK
  <2>5. CountsOK'
    BY <1>2, <1>3, <2>4 DEF Inv, CountsOK
  <2>6. /\ Recorded(attempts[a], stage, code, waba) \in Attempts
        /\ Recorded(attempts[a], stage, code, waba).conn = attempts[a].conn
    BY <1>1, RecordedAttempt
  <2>7. QED
    BY <1>1, <1>3, <2>1, <2>2, <2>3, <2>5, <2>6, Changing
<1>6. QED
  BY <1>4, <1>5

LEMMA RedirectStartStep ==
  ASSUME Inv, NEW a, RedirectStart(a)
  PROVE  Inv' /\ Keeps
<1> DEFINE u == Recorded(attempts[a], "login_opened", FALSE, FALSE)
<1>1. a \in ActiveOnes(attempts) /\ attempts[a] \in Attempts
  <2>1. a \in ActiveOnes(attempts)
    BY DEF RedirectStart, TheActive
  <2>2. attempts \in [DOMAIN attempts -> Attempts]
    BY LenProperties DEF Inv, GoodAttempts
  <2>3. QED
    BY <2>1, <2>2 DEF ActiveOnes
<1>2. u \in Attempts /\ u.conn = attempts[a].conn
  BY <1>1, RecordedAttempt
<1>3. u.state \in Active
  BY <1>1 DEF Recorded, StateAfter, Attempts, Active
<1>4. attempts' = [attempts EXCEPT ![a] = u]
  BY <1>1 DEF RedirectStart, ActiveOnes
<1>5. UNCHANGED <<conn, req, stranded>> /\ CountsOK'
  BY SignupAssumption DEF RedirectStart, Inv, CountsOK
<1> HIDE DEF u
<1>6. QED
  BY <1>1, <1>2, <1>3, <1>4, <1>5, Changing

LEMMA ElapseStep ==
  ASSUME Inv, Elapse
  PROVE  Inv' /\ Keeps
<1>1. PICK a \in ActiveOnes(attempts) : attempts' = [attempts EXCEPT ![a].due = TRUE]
  BY DEF Elapse
<1> DEFINE u == [attempts[a] EXCEPT !.due = TRUE]
<1>2. attempts[a] \in Attempts /\ a \in DOMAIN attempts /\ attempts[a].state \in Active
  <2>1. attempts \in [DOMAIN attempts -> Attempts]
    BY LenProperties DEF Inv, GoodAttempts
  <2>2. QED
    BY <2>1 DEF ActiveOnes
<1>3. u \in Attempts /\ u.conn = attempts[a].conn /\ u.state = attempts[a].state
  BY <1>2 DEF Attempts
<1>4. attempts' = [attempts EXCEPT ![a] = u]
  BY <1>1, <1>2
<1>5. UNCHANGED <<conn, req, stranded>> /\ CountsOK'
  BY DEF Elapse, Inv, CountsOK
<1> HIDE DEF u
<1>6. QED
  BY <1>2, <1>3, <1>4, <1>5, Changing

LEMMA AssetsStep ==
  ASSUME Inv, NEW a, Assets(a)
  PROVE  Inv' /\ Keeps
<1> DEFINE u == [attempts[a] EXCEPT !.waba = TRUE, !.state = "assets_received", !.due = FALSE]
<1>1. UNCHANGED <<req, stranded>> /\ CountsOK'
  BY SignupAssumption DEF Assets, Inv, CountsOK
<1>2. /\ GoodRow(conn)' /\ conn'.id = conn.id /\ conn'.status = conn.status
      /\ conn.status = "connected" => conn' = conn
  <2>1. CASE UNCHANGED conn
    BY <2>1 DEF Inv, GoodRow
  <2>2. CASE conn' = [conn EXCEPT !.ids = Browser] /\ ~Late(conn)
    BY <2>2 DEF Late, Inv, GoodRow, Rows, Writers
  <2>3. QED
    BY <2>1, <2>2 DEF Assets
<1>3. Made' /\ Keeps
  BY <1>1, <1>2 DEF Inv, Made, Keeps
<1>4. /\ GoodAttempts(attempts', conn.id)
      /\ \A b \in ActiveOnes(attempts) :
           b \in ActiveOnes(attempts)' /\ attempts'[b].conn = attempts[b].conn
  <2>1. CASE a = 0
    BY <2>1 DEF Assets, Inv, ActiveOnes
  <2>2. CASE a # 0
    <3>1. a \in DOMAIN attempts /\ attempts[a].state \in Active
      BY <2>2 DEF Assets, TheActive, ActiveOnes
    <3>2. attempts[a] \in Attempts
      BY <3>1, LenProperties DEF Inv, GoodAttempts
    <3>3. u \in Attempts /\ u.conn = attempts[a].conn /\ u.state \in Active
      BY <3>2 DEF Attempts, Active
    <3>4. attempts' = [attempts EXCEPT ![a] = u]
      BY <2>2, <3>1 DEF Assets, Refreshed
    <3> HIDE DEF u
    <3>5. GoodAttempts(attempts', conn.id)
      BY <3>1, <3>3, <3>4, GoodUpdate DEF Inv
    <3>6. /\ DOMAIN attempts' = DOMAIN attempts
          /\ \A b \in DOMAIN attempts : attempts'[b] = IF b = a THEN u ELSE attempts[b]
      BY <3>4
    <3>7. QED
      BY <3>1, <3>3, <3>5, <3>6 DEF ActiveOnes
  <2>3. QED
    BY <2>1, <2>2
<1>5. GoodAttempts(attempts, conn.id)'
  BY <1>2, <1>4 DEF GoodAttempts, ActiveOnes
<1>6. PendingHasAttempt'
  BY <1>1, <1>2, <1>4, AttemptStays DEF Inv
<1>7. QED
  BY <1>1, <1>2, <1>3, <1>5, <1>6 DEF Inv, ReqOK

LEMMA RedirectRefusedStep ==
  ASSUME Inv, NEW a, RedirectRefused(a)
  PROVE  Inv' /\ Keeps
<1>1. /\ attempts' = Finished(attempts, a, "authorization_incomplete") /\ conn' = Blamed(conn)
      /\ UNCHANGED <<req, stranded>> /\ CountsOK'
  BY SignupAssumption DEF RedirectRefused, Inv, CountsOK
<1>2. GoodRow(conn)' /\ conn'.id = conn.id /\ Made' /\ Keeps
  BY <1>1, RowStays DEF Kept
<1>3. GoodAttempts(attempts', conn.id)
  BY <1>1, GoodFinish DEF Inv, Terminal
<1>4. GoodAttempts(attempts, conn.id)'
  BY <1>2, <1>3 DEF GoodAttempts, ActiveOnes
<1>5. PendingHasAttempt'
  BY <1>1, BlamedRow DEF Inv, PendingHasAttempt, Orphan
<1>6. QED
  BY <1>1, <1>2, <1>4, <1>5 DEF Inv, ReqOK

LEMMA LookStep ==
  ASSUME Inv, Look
  PROVE  Inv' /\ Keeps
<1>1. /\ attempts' = Reconciled(attempts) /\ conn' = Blamed(conn)
      /\ UNCHANGED <<req, stranded>> /\ CountsOK'
  BY DEF Look, Inv, CountsOK
<1>2. QED
  BY <1>1, Expiring

\* The sweep spares a row that none of the attempts is for: its own is not due.
LEMMA SweepStep ==
  ASSUME Inv, Sweep
  PROVE  Inv' /\ Keeps
<1>1. attempts' = Reconciled(attempts) /\ UNCHANGED <<req, stranded>> /\ CountsOK'
  BY DEF Sweep, Inv, CountsOK
<1>2. CASE \E a \in Due : attempts[a].conn = conn.id
  <2>1. conn' = Blamed(conn)
    BY <1>2 DEF Sweep
  <2>2. QED
    BY <1>1, <2>1, Expiring
<1>3. CASE ~ \E a \in Due : attempts[a].conn = conn.id
  <2>1. conn' = conn
    BY <1>3 DEF Sweep
  <2>2. GoodRow(conn)' /\ Made' /\ Keeps
    BY <1>1, <2>1, RowStays DEF Kept
  <2>3. /\ GoodAttempts(Reconciled(attempts), conn.id)
        /\ ActiveOnes(Reconciled(attempts)) = {a \in ActiveOnes(attempts) : ~attempts[a].due}
        /\ \A a \in DOMAIN attempts : Reconciled(attempts)[a].conn = attempts[a].conn
    BY GoodReconciled DEF Inv
  <2>4. GoodAttempts(attempts, conn.id)'
    BY <1>1, <2>1, <2>3 DEF GoodAttempts, ActiveOnes
  <2>5. ActiveOnes(attempts)' = {a \in ActiveOnes(attempts) : ~attempts[a].due}
    BY <1>1, <2>3 DEF ActiveOnes
  <2>6. ASSUME NEW b \in ActiveOnes(attempts), attempts[b].conn = conn.id
        PROVE  b \in ActiveOnes(attempts)' /\ attempts'[b].conn = attempts[b].conn
    <3>1. b \in DOMAIN attempts
      BY DEF ActiveOnes
    <3>2. ~attempts[b].due
      BY <1>3, <2>6 DEF Due, Overdue
    <3>3. QED
      BY <1>1, <2>3, <2>5, <3>1, <3>2
  <2>7. PendingHasAttempt'
    BY <1>1, <2>1, <2>6, AttemptStays DEF Inv
  <2>8. QED
    BY <1>1, <2>2, <2>4, <2>7 DEF Inv, ReqOK
<1>4. QED
  BY <1>2, <1>3

LEMMA DisconnectStep ==
  ASSUME Inv, Disconnect
  PROVE  Inv' /\ Keeps
<1>1. /\ conn' = Emptied(conn) /\ conn.status # "none"
      /\ UNCHANGED <<attempts, req, stranded>> /\ CountsOK'
  BY DEF Disconnect, Absent, Inv, CountsOK
<1>2. GoodRow(conn') /\ conn'.id = conn.id /\ conn'.status = "disconnected"
  BY <1>1, EmptiedRow DEF Inv
<1>3. GoodRow(conn)' /\ GoodAttempts(attempts, conn.id)'
  BY <1>1, <1>2 DEF Inv, GoodRow, GoodAttempts, ActiveOnes
<1>4. Made' /\ PendingHasAttempt' /\ Keeps
  BY <1>1, <1>2 DEF Inv, Made, PendingHasAttempt, Orphan, Keeps
<1>5. QED
  BY <1>1, <1>3, <1>4 DEF Inv, ReqOK

-----------------------------------------------------------------------------
(* Requests that call Meta.                                                *)

LEMMA BeginsStep ==
  ASSUME Inv, NEW r \in Requests, Begins(r)
  PROVE  Inv' /\ Keeps
<1>1. UNCHANGED <<conn, attempts, stranded, events, crashes>>
  BY DEF Begins, BeginCompletion, BeginApiOnly, BeginLeave
<1>2. ReqOK' /\ Kept
  <2>1. ASSUME NEW a \in 0 .. Len(attempts), BeginCompletion(r, a)
        PROVE  ReqOK' /\ Kept
    <3>1. a \in 0 .. MaxAttempts
      <4> DEFINE n == Len(attempts)
      <4>1. n \in Nat /\ n <= MaxAttempts /\ a \in 0 .. n
        BY <2>1, LenProperties DEF Inv, GoodAttempts
      <4> HIDE DEF n
      <4>2. QED
        BY <4>1, SignupAssumption
    <3>2. QED
      BY <2>1, <3>1, Born DEF BeginCompletion, Inv, Kinds, Places
  <2>2. ASSUME BeginApiOnly(r)
        PROVE  ReqOK' /\ Kept
    <3>1. (conn.id # 0) \in BOOLEAN /\ 0 \in 0 .. MaxAttempts
      BY SignupAssumption
    <3>2. QED
      BY <2>2, <3>1, Born DEF BeginApiOnly, Inv, Kinds, Places
  <2>3. ASSUME BeginLeave(r)
        PROVE  ReqOK' /\ Kept
    <3>1. 0 \in 0 .. MaxAttempts
      BY SignupAssumption
    <3>2. conn.id # 0
      BY <2>3 DEF BeginLeave, Inv, GoodRow
    <3>3. QED
      BY <2>3, <3>1, <3>2, Born DEF BeginLeave, Inv, Kinds, Places
  <2>4. QED
    BY <2>1, <2>2, <2>3 DEF Begins
<1>3. CountsOK'
  BY <1>1 DEF Inv, CountsOK
<1>4. QED
  BY <1>1, <1>2, <1>3, OnlyRequests

\* Locks are taken, failures found, a transaction is ended by the database:
\* nothing is written.
LEMMA WaitingStep ==
  ASSUME Inv, NEW r \in Requests,
         LockRow(r) \/ LockAttempt(r) \/ Fail(r) \/ Blame(r) \/ Victim(r) \/ Die(r)
  PROVE  Inv' /\ Keeps
<1>1. req[r].at # "done"
  BY DEF LockRow, LockAttempt, Fail, Blame, Victim, Die, HoldsRow, HoldsAttempt
<1>2. ReqOK' /\ Kept
  <2>1. CASE LockRow(r)
    <3>1. CASE conn.status = "connected"
      BY <1>1, <2>1, <3>1, Going DEF LockRow, Inv
    <3>2. CASE conn.status # "connected"
      <4> DEFINE waits == [req[r] EXCEPT !.at = "row", !.found = conn.id # 0]
      <4>1. (conn.id # 0) \in BOOLEAN
        OBVIOUS
      <4>2. /\ waits \in [kind: Kinds, at: Places, attempt: 0 .. MaxAttempts, found: BOOLEAN]
            /\ waits.kind = req[r].kind
        BY <4>1 DEF Inv, ReqOK, Places
      <4>3. req' = [req EXCEPT ![r] = waits]
        BY <2>1, <3>2 DEF LockRow, Inv, ReqOK
      <4> HIDE DEF waits
      <4>4. QED
        BY <1>1, <4>2, <4>3 DEF Inv, ReqOK, Kept
    <3>3. QED
      BY <3>1, <3>2
  <2>2. CASE LockAttempt(r) \/ Fail(r) \/ Blame(r) \/ Victim(r) \/ Die(r)
    <3>1. (\E p \in Places : Goes(r, p)) \/ Ends(r)
      BY <2>2 DEF LockAttempt, Fail, Blame, Victim, Die, Places
    <3>2. QED
      BY <1>1, <3>1, Going DEF Inv
  <2>3. QED
    BY <2>1, <2>2
<1>3. UNCHANGED <<conn, attempts, stranded>>
  BY DEF LockRow, LockAttempt, Fail, Blame, Victim, Die
<1>4. CountsOK'
  BY SignupAssumption DEF LockRow, LockAttempt, Fail, Blame, Victim, Die, Inv, CountsOK
<1>5. QED
  BY <1>2, <1>3, <1>4, OnlyRequests

\* The row of a connection that works in the same mode is not taken.
LEMMA CompleteStep ==
  ASSUME Inv, NEW r \in Requests, Complete(r)
  PROVE  Inv' /\ Keeps
<1> DEFINE m == req[r].kind
           a == req[r].attempt
<1>1. /\ m \in Modes /\ ~Refuses(conn, m) /\ (Absent(conn) => conn.id < MaxRows)
      /\ conn' = Completed(conn, m, r) /\ Ends(r) /\ req[r].at = "provider"
      /\ attempts' = IF a = 0 THEN attempts ELSE Finished(attempts, a, "connected")
      /\ UNCHANGED <<stranded, events, crashes>>
  BY DEF Complete
<1>2. /\ GoodRow(conn') /\ conn.id <= conn'.id /\ conn'.status = "connected"
      /\ conn'.mode = m /\ conn'.ids = r /\ conn'.cred = r
  BY <1>1, CompletedRow DEF Inv
<1>3. ReqOK' /\ req'[r].kind = m /\ req'[r].at = "done"
  <2>1. ReqOK'
    BY <1>1, Going DEF Inv
  <2>2. QED
    BY <1>1, <2>1 DEF Ends, Inv, ReqOK
<1>4. Made'
  <2>1. conn'.id # 0
    BY <1>2 DEF GoodRow
  <2>2. QED
    BY <1>2, <1>3, <2>1 DEF Made
<1>5. Keeps
  BY <1>1, <1>2 DEF Keeps, Refuses
<1>6. GoodAttempts(attempts, conn.id)'
  <2>1. GoodAttempts(attempts', conn.id)
    BY <1>1, GoodFinish DEF Inv, Terminal
  <2>2. conn.id \in Nat /\ conn'.id \in Nat
    BY <1>2, SignupAssumption DEF Inv, GoodRow, Rows
  <2>3. GoodAttempts(attempts', conn'.id)
    BY <1>2, <2>1, <2>2, Widen
  <2>4. QED
    BY <2>3 DEF GoodAttempts, ActiveOnes
<1>7. PendingHasAttempt'
  BY <1>2 DEF PendingHasAttempt, Orphan
<1>8. QED
  BY <1>1, <1>2, <1>3, <1>4, <1>5, <1>6, <1>7 DEF Inv, GoodRow, CountsOK

LEMMA LeaveStep ==
  ASSUME Inv, NEW r \in Requests, Leave(r)
  PROVE  Inv' /\ Keeps
<1>1. /\ req[r].at = "provider" /\ req[r].kind = "leave" /\ Ends(r)
      /\ conn' = Emptied(conn) /\ UNCHANGED <<attempts, stranded, events, crashes>>
  BY DEF Leave
<1>2. conn.id # 0
  BY <1>1 DEF Inv, Made
<1>3. GoodRow(conn') /\ conn'.id = conn.id /\ conn'.status = "disconnected"
  BY <1>1, <1>2, EmptiedRow DEF Inv, GoodRow
<1>4. GoodRow(conn)' /\ GoodAttempts(attempts, conn.id)'
  BY <1>1, <1>3 DEF Inv, GoodRow, GoodAttempts, ActiveOnes
<1>5. Made' /\ PendingHasAttempt' /\ Keeps
  BY <1>2, <1>3 DEF Made, PendingHasAttempt, Orphan, Keeps
<1>6. ReqOK' /\ CountsOK'
  BY <1>1, Going DEF Inv, CountsOK
<1>7. QED
  BY <1>4, <1>5, <1>6 DEF Inv

\* A failure is written to the attempt and to the row.
LEMMA RecordFailureStep ==
  ASSUME Inv, NEW r \in Requests, RecordFailure(r)
  PROVE  Inv' /\ Keeps
<1> DEFINE a == req[r].attempt
<1>1. /\ req[r].at = "blamed" /\ Ends(r) /\ conn' = Blamed(conn)
      /\ attempts' = IF a = 0 THEN attempts ELSE Finished(attempts, a, "failed")
      /\ UNCHANGED <<stranded, events, crashes>>
  BY DEF RecordFailure
<1>2. ReqOK' /\ Kept
  BY <1>1, Going DEF Inv
<1>3. GoodRow(conn)' /\ conn'.id = conn.id /\ Made' /\ Keeps
  BY <1>1, <1>2, RowStays
<1>4. GoodAttempts(attempts', conn.id)
  BY <1>1, GoodFinish DEF Inv, Terminal
<1>5. GoodAttempts(attempts, conn.id)'
  BY <1>3, <1>4 DEF GoodAttempts, ActiveOnes
<1>6. PendingHasAttempt'
  BY <1>1, BlamedRow DEF Inv, PendingHasAttempt, Orphan
<1>7. QED
  BY <1>1, <1>2, <1>3, <1>5, <1>6 DEF Inv, CountsOK

-----------------------------------------------------------------------------
(* The theorems.                                                           *)

\* Every step keeps the invariant, and the connection that works.
LEMMA InvStep == Inv /\ [Next]_vars => Inv' /\ (Keeps \/ UNCHANGED vars)
<1> SUFFICES ASSUME Inv, [Next]_vars
             PROVE  Inv' /\ (Keeps \/ UNCHANGED vars)
  OBVIOUS
<1>1. ASSUME NEW a \in 0 .. Len(attempts), Panel(a)
      PROVE  Inv' /\ Keeps
  BY <1>1, BeginAttemptStep, AssetsStep, RedirectStartStep, RedirectRefusedStep, TelemetryStep
     DEF Panel
<1>2. CASE Look \/ Sweep \/ Disconnect \/ Elapse
  BY <1>2, LookStep, SweepStep, DisconnectStep, ElapseStep
<1>3. ASSUME NEW r \in Requests, Begins(r) \/ Proceeds(r) \/ Die(r)
      PROVE  Inv' /\ Keeps
  BY <1>3, BeginsStep, WaitingStep, CompleteStep, LeaveStep, RecordFailureStep DEF Proceeds
<1>4. CASE UNCHANGED vars
  <2>1. GoodRow(conn)' /\ GoodAttempts(attempts, conn.id)' /\ ReqOK' /\ CountsOK'
    BY <1>4 DEF vars, Inv, GoodRow, GoodAttempts, ActiveOnes, ReqOK, CountsOK
  <2>2. Made' /\ PendingHasAttempt'
    BY <1>4 DEF vars, Inv, Made, PendingHasAttempt, Orphan, Continues, ActiveOnes
  <2>3. QED
    BY <1>4, <2>1, <2>2 DEF Inv
<1>5. QED
  BY <1>1, <1>2, <1>3, <1>4 DEF Next

\* The invariant holds always.
LEMMA Invariance == Spec => []Inv
<1>1. Inv /\ [Next]_vars => Inv'
  BY InvStep
<1>2. QED
  BY InvInit, <1>1, PTL DEF Spec

\* Types, one active attempt at most, and attempts for rows that exist
\* (models/whatsapp_onboarding.py, models/domain.py).
THEOREM SignupTyped == Spec => []TypeOK
<1>1. Inv => TypeOK
  BY InvTyped
<1>2. QED
  BY <1>1, Invariance, PTL

\* What sends and receives is one completion's (complete_provider_onboarding).
THEOREM ConnectionsAreWhole == Spec => []ConnectedIsWhole
<1>1. Inv => ConnectedIsWhole
  BY DEF Inv, Made, ConnectedIsWhole
<1>2. QED
  BY <1>1, Invariance, PTL

\* A row is pending for an attempt, but for the two causes the model names
\* (mark_onboarding_error, reconcile_due_onboarding_attempts).
THEOREM PendingIsAttempted == Spec => []PendingHasAttempt
<1>1. Inv => PendingHasAttempt
  BY DEF Inv
<1>2. QED
  BY <1>1, Invariance, PTL

\* No failure, expiry, event or second completion takes a connection that
\* works (mark_onboarding_error, complete_provider_onboarding).
THEOREM ConnectionsAreKept == Spec => ConnectionIsKept
<1>1. Inv /\ [Next]_vars => [Keeps]_vars
  BY InvStep
<1>2. QED
  BY <1>1, Invariance, PTL DEF Spec, ConnectionIsKept, Keeps
=============================================================================

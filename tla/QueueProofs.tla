---------------------------- MODULE QueueProofs ----------------------------
(***************************************************************************)
(* Proofs about Queue for any consumers, messages and limits: attempts are *)
(* spent exactly, only handled messages are done, and the queue implements *)
(* at-least-once delivery.                                                 *)
(***************************************************************************)
EXTENDS Queue, FiniteSetTheorems, TLAPS

Row == [status : Status, attempts : Nat, dedup : DedupKeys \cup {None},
        lapsed : BOOLEAN, holder : Consumers \cup {None}]

Con == [pc : {"recv", "ack", "nack", "down"}, stream : BOOLEAN,
        claim : SUBSET Messages, todo : SUBSET Messages, buf : Seq(Messages),
        cur : Messages \cup {0}]

\* The backlog is finite, so its size is a number.
LEMMA BacklogIsCounted == Cardinality(Backlog) \in Nat
<1>1. IsFiniteSet(Messages)
  BY QueueAssumption, FS_Interval DEF Messages
<1>2. IsFiniteSet(Backlog)
  BY <1>1, FS_Subset DEF Backlog, InStatus
<1> QED
  BY <1>2, FS_CardinalityType

\* What the statements make of a row is a row.
LEMMA RowsAreTyped ==
  ASSUME NEW row \in Row
  PROVE  /\ Returned(row) \in Row
         /\ [row EXCEPT !.status = "done", !.lapsed = FALSE, !.holder = None] \in Row
         /\ [row EXCEPT !.status = "purged"] \in Row
         /\ [row EXCEPT !.holder = None] \in Row
         /\ [row EXCEPT !.lapsed = TRUE] \in Row
         /\ [row EXCEPT !.status = "pending", !.attempts = 0] \in Row
         /\ \A c \in Consumers :
              [row EXCEPT !.status = "processing", !.lapsed = FALSE,
                          !.attempts = row.attempts + 1, !.holder = c] \in Row
         /\ \A k \in DedupKeys \cup {None} :
              [NoRow EXCEPT !.status = "pending", !.dedup = k] \in Row
<1> USE DEF Row, Status
<1>1. Returned(row) \in Row
  BY ZenonT(40) DEF Returned
<1>2. [row EXCEPT !.status = "done", !.lapsed = FALSE, !.holder = None] \in Row
  BY ZenonT(40)
<1>3. [row EXCEPT !.status = "purged"] \in Row /\ [row EXCEPT !.holder = None] \in Row
  OBVIOUS
<1>4. [row EXCEPT !.lapsed = TRUE] \in Row
  BY ZenonT(40)
<1>5. [row EXCEPT !.status = "pending", !.attempts = 0] \in Row
  BY ZenonT(40)
<1>6. \A c \in Consumers :
        [row EXCEPT !.status = "processing", !.lapsed = FALSE,
                    !.attempts = row.attempts + 1, !.holder = c] \in Row
  <2> SUFFICES ASSUME NEW c \in Consumers
               PROVE  [row EXCEPT !.status = "processing", !.lapsed = FALSE,
                         !.attempts = row.attempts + 1, !.holder = c] \in Row
    BY ZenonT(40)
  <2> DEFINE r1 == [row EXCEPT !.status = "processing"]
             r2 == [r1 EXCEPT !.lapsed = FALSE]
             r3 == [r2 EXCEPT !.attempts = row.attempts + 1]
             r4 == [r3 EXCEPT !.holder = c]
  <2>1. row.attempts + 1 \in Nat
    OBVIOUS
  <2>2. r1 \in Row
    OBVIOUS
  <2> HIDE DEF r1
  <2>3. r2 \in Row
    BY <2>2, ZenonT(40)
  <2> HIDE DEF r2
  <2>4. r3 \in Row
    BY <2>1, <2>3
  <2> HIDE DEF r3
  <2>5. r4 \in Row
    BY <2>4
  <2> HIDE DEF Row, Status
  <2> QED
    BY <2>5 DEF r1, r2, r3
<1>7. \A k \in DedupKeys \cup {None} : [NoRow EXCEPT !.status = "pending", !.dedup = k] \in Row
  BY ZenonT(40) DEF NoRow
<1> QED
  BY <1>1, <1>2, <1>3, <1>4, <1>5, <1>6, <1>7, ZenonT(40)

LEMMA NackTyped ==
  ASSUME rows \in [Messages -> Row], NEW ms, NackAll(ms)
  PROVE  rows' \in [Messages -> Row]
BY RowsAreTyped, ZenonT(40) DEF NackAll

LEMMA AckTyped ==
  ASSUME rows \in [Messages -> Row], NEW m \in Messages, AckRow(m)
  PROVE  rows' \in [Messages -> Row]
<1>1. [rows[m] EXCEPT !.status = "done", !.lapsed = FALSE, !.holder = None] \in Row
  BY RowsAreTyped, ZenonT(40)
<1> QED
  BY <1>1 DEF AckRow, Row

-----------------------------------------------------------------------------
\* A message that is to be acknowledged has been handled; what is reported is a
\* message.
Reports ==
  \A c \in Consumers :
    /\ cons[c].pc \in {"ack", "nack"} => cons[c].cur \in Messages
    /\ cons[c].pc = "ack" => cons[c].cur \in handled

\* Only messages that were enqueued are on their way to a handler.
Known ==
  \A c \in Consumers :
    /\ \A m \in cons[c].todo : rows[m].status # "absent"
    /\ \A i \in 1 .. Len(cons[c].buf) : rows[cons[c].buf[i]].status # "absent"

Typed ==
  /\ rows \in [Messages -> Row]
  /\ cons \in [Consumers -> Con]
  /\ inflight \in [Consumers -> Nat]
  /\ depth \in Nat /\ revivals \in Nat
  /\ handled \subseteq Messages

\* The inductive invariant.
QueueInv == Typed /\ Reports /\ Known /\ AttemptsAreSpent /\ DoneWasHandled

\* The ways a row may go.
RowStep(m) ==
  LET old == rows[m]
      new == rows'[m]
  IN \/ new.status = old.status /\ new.attempts = old.attempts
     \/ old.status \in {"absent", "dead"} /\ new.status = "pending" /\ new.attempts = 0
     \/ /\ old.status = "pending" /\ new.status = "processing"
        /\ new.attempts = old.attempts + 1
     \/ /\ old.status = "processing" /\ new.attempts = old.attempts
        /\ new.status = IF old.attempts >= MaxAttempts THEN "dead" ELSE "pending"
     \/ old.status = "processing" /\ new.status = "done" /\ m \in handled
     \/ old.status = "done" /\ new.status = "purged"

\* A nack returns or parks rows in processing and touches no other.
LEMMA NackSteps ==
  ASSUME rows \in [Messages -> Row], NEW ms, NackAll(ms)
  PROVE  \A m \in Messages : RowStep(m)
BY ZenonT(40) DEF NackAll, Returned, RowStep, Row

\* An acknowledged row is done, when a handler succeeded with its message.
LEMMA AckSteps ==
  ASSUME rows \in [Messages -> Row], NEW n \in Messages, AckRow(n), n \in handled
  PROVE  \A m \in Messages : RowStep(m)
<1> SUFFICES ASSUME NEW m \in Messages PROVE RowStep(m)
  OBVIOUS
<1>1. CASE m # n \/ rows[n].status # "processing"
  <2>1. rows'[m] = rows[m]
    BY <1>1 DEF AckRow
  <2> QED
    BY <2>1 DEF RowStep
<1>2. CASE m = n /\ rows[n].status = "processing"
  <2>1. rows'[m].status = "done"
    BY <1>2 DEF AckRow, Row
  <2> QED
    BY <1>2, <2>1 DEF RowStep
<1> QED
  BY <1>1, <1>2

\* The consumer a row remembers plays no part in where the row goes.
LEMMA ForgetSteps ==
  ASSUME rows \in [Messages -> Row], NEW cs, Forget(cs)
  PROVE  rows' \in [Messages -> Row] /\ \A m \in Messages : RowStep(m)
<1>1. rows' \in [Messages -> Row]
  BY RowsAreTyped, ZenonT(40) DEF Forget
<1>2. \A m \in Messages : rows'[m].status = rows[m].status /\ rows'[m].attempts = rows[m].attempts
  BY DEF Forget, Row
<1> QED
  BY <1>1, <1>2 DEF RowStep

\* Rows that do not change.
LEMMA SameRows ==
  ASSUME rows' = rows
  PROVE  \A m \in Messages : RowStep(m)
BY DEF RowStep

-----------------------------------------------------------------------------
\* Every step takes rows only the ways of RowStep.
LEMMA RowsNext ==
  ASSUME QueueInv, [Next]_vars
  PROVE  rows' \in [Messages -> Row] /\ \A m \in Messages : RowStep(m)
<1>0. rows \in [Messages -> Row] /\ cons \in [Consumers -> Con]
  BY DEF QueueInv, Typed
<1>1. ASSUME NEW n \in Messages, NEW k \in DedupKeys \cup {None}, Enqueue(n, k)
      PROVE  rows' \in [Messages -> Row] /\ \A m \in Messages : RowStep(m)
  <2>1. rows[n].status = "absent"
    BY <1>1 DEF Enqueue, InStatus
  <2>2. rows' = [rows EXCEPT ![n] = [NoRow EXCEPT !.status = "pending", !.dedup = k]]
    BY <1>1 DEF Enqueue
  <2>3. [NoRow EXCEPT !.status = "pending", !.dedup = k] \in Row
    BY <1>0, RowsAreTyped, ZenonT(40)
  <2>4. rows'[n].status = "pending" /\ rows'[n].attempts = 0
    BY <1>0, <2>2 DEF NoRow
  <2>5. \A m \in Messages : m # n => rows'[m] = rows[m]
    BY <1>0, <2>2
  <2> QED
    BY <1>0, <2>1, <2>2, <2>3, <2>4, <2>5 DEF RowStep
<1>2. ASSUME NEW n \in Messages, RetryDead(n)
      PROVE  rows' \in [Messages -> Row] /\ \A m \in Messages : RowStep(m)
  <2>1. rows' = [rows EXCEPT ![n] = [rows[n] EXCEPT !.status = "pending", !.attempts = 0]]
    BY <1>0, <1>2, ZenonT(40) DEF RetryDead
  <2>2. [rows[n] EXCEPT !.status = "pending", !.attempts = 0] \in Row
    BY <1>0, RowsAreTyped, ZenonT(40)
  <2>3. rows[n].status = "dead" /\ rows'[n].status = "pending" /\ rows'[n].attempts = 0
    BY <1>0, <1>2, <2>1 DEF RetryDead, Row
  <2>4. \A m \in Messages : m # n => rows'[m] = rows[m]
    BY <1>0, <2>1
  <2> QED
    BY <1>0, <2>1, <2>2, <2>3, <2>4 DEF RowStep
<1>3. ASSUME NEW n \in Messages, Lapse(n)
      PROVE  rows' \in [Messages -> Row] /\ \A m \in Messages : RowStep(m)
  <2>1. rows' = [rows EXCEPT ![n] = [rows[n] EXCEPT !.lapsed = TRUE]]
    BY <1>0, <1>3 DEF Lapse
  <2>2. [rows[n] EXCEPT !.lapsed = TRUE] \in Row
    BY <1>0, RowsAreTyped, ZenonT(40)
  <2>3. \A m \in Messages : rows'[m].status = rows[m].status /\ rows'[m].attempts = rows[m].attempts
    BY <1>0, <2>1 DEF Row
  <2> QED
    BY <1>0, <2>1, <2>2, <2>3 DEF RowStep
<1>4. CASE ReapExpired
  BY <1>0, <1>4, NackTyped, NackSteps DEF ReapExpired
<1>5. CASE PurgeDone
  <2>1. PICK ms \in SUBSET InStatus({"done"}) :
          rows' = [m \in Messages |->
                     IF m \in ms THEN [rows[m] EXCEPT !.status = "purged"] ELSE rows[m]]
    BY <1>5 DEF PurgeDone
  <2>2. rows' \in [Messages -> Row]
    BY <1>0, <2>1, RowsAreTyped, ZenonT(40)
  <2>3. \A m \in ms : rows[m].status = "done" /\ rows'[m].status = "purged"
    BY <1>0, <2>1 DEF InStatus, Row
  <2>4. \A m \in Messages \ ms : rows'[m] = rows[m]
    BY <2>1
  <2> QED
    BY <2>2, <2>3, <2>4 DEF RowStep
<1>6. ASSUME NEW c \in Consumers, Claim(c)
      PROVE  rows' \in [Messages -> Row] /\ \A m \in Messages : RowStep(m)
  <2>1. PICK ms \in SUBSET InStatus({"pending"}) :
          rows' = [m \in Messages |->
                     IF m \in ms
                     THEN [rows[m] EXCEPT !.status = "processing", !.lapsed = FALSE,
                             !.attempts = rows[m].attempts + 1, !.holder = c]
                     ELSE rows[m]]
    BY <1>6, ZenonT(40) DEF Claim
  <2>2. rows' \in [Messages -> Row]
    BY <1>0, <2>1, RowsAreTyped, ZenonT(40)
  <2>3. \A m \in ms : /\ rows[m].status = "pending" /\ rows'[m].status = "processing"
                       /\ rows'[m].attempts = rows[m].attempts + 1
    BY <1>0, <2>1, ZenonT(40) DEF InStatus, Row
  <2>4. \A m \in Messages \ ms : rows'[m] = rows[m]
    BY <2>1, ZenonT(40)
  <2> QED
    BY <2>2, <2>3, <2>4 DEF RowStep
<1>7. ASSUME NEW c \in Consumers, DeliverFails(c) \/ Nack(c)
      PROVE  rows' \in [Messages -> Row] /\ \A m \in Messages : RowStep(m)
  BY <1>0, <1>7, NackTyped, NackSteps, SameRows DEF DeliverFails, Nack
<1>8. ASSUME NEW c \in Consumers, Ack(c) \/ AckFails(c)
      PROVE  rows' \in [Messages -> Row] /\ \A m \in Messages : RowStep(m)
  <2>1. cons[c].cur \in Messages /\ cons[c].cur \in handled
    BY <1>8 DEF Ack, AckFails, QueueInv, Reports
  <2> QED
    BY <1>0, <1>8, <2>1, AckTyped, AckSteps, SameRows DEF Ack, AckFails
<1>9. ASSUME NEW c \in Consumers, Connect(c)
      PROVE  rows' \in [Messages -> Row] /\ \A m \in Messages : RowStep(m)
  BY <1>0, <1>9, ForgetSteps DEF Connect
<1>10. CASE CoreRestart
  BY <1>0, <1>10, ForgetSteps DEF CoreRestart
<1>11. ASSUME NEW c \in Consumers,
              \/ HandlerOk(c) \/ HandlerFails(c) \/ RecvFails(c) \/ Deliver(c)
              \/ StreamBreaks(c) \/ Crash(c)
       PROVE  rows' = rows
  BY <1>11, ZenonT(40) DEF HandlerOk, HandlerFails, EndHandler, RecvFails, Deliver, StreamBreaks, Crash
<1>12. Measure \/ UNCHANGED vars => rows' = rows
  BY DEF Measure, vars
<1> QED
  BY <1>0, <1>1, <1>2, <1>3, <1>4, <1>5, <1>6, <1>7, <1>8, <1>9, <1>10, <1>11, <1>12, SameRows
     DEF Next, SdkStep, StreamStep

-----------------------------------------------------------------------------
\* A row that exists goes on existing.
LEMMA StillThere ==
  ASSUME QueueInv, [Next]_vars, NEW m \in Messages, rows[m].status # "absent"
  PROVE  rows'[m].status # "absent"
BY RowsNext DEF RowStep

\* A consumer whose loop has ended, or that starts again, has its type.
LEMMA ConsAreTyped ==
  ASSUME NEW con \in Con
  PROVE  /\ Ended(con) \in Con /\ Down \in Con
         /\ [Down EXCEPT !.pc = "recv", !.stream = TRUE] \in Con
         /\ [con EXCEPT !.stream = FALSE] \in Con
         /\ [con EXCEPT !.claim = {}, !.todo = {}] \in Con
         /\ [con EXCEPT !.pc = "recv", !.cur = 0] \in Con
<1> USE DEF Con
<1>1. Down \in Con
  BY DEF Down
<1>2. Ended(con) \in Con
  <2> DEFINE c1 == [con EXCEPT !.pc = "down"]
             c2 == [c1 EXCEPT !.stream = FALSE]
             c3 == [c2 EXCEPT !.buf = <<>>]
             c4 == [c3 EXCEPT !.cur = 0]
  <2>1. c1 \in Con
    OBVIOUS
  <2> HIDE DEF c1
  <2>2. c2 \in Con
    BY <2>1, ZenonT(40)
  <2> HIDE DEF c2
  <2>3. c3 \in Con
    <3>1. \A b \in Seq(Messages) : [c2 EXCEPT !.buf = b] \in Con
      BY <2>2, ZenonT(40)
    <3>2. <<>> \in Seq(Messages)
      OBVIOUS
    <3> QED
      BY <3>1, <3>2, ZenonT(40)
  <2> HIDE DEF c3
  <2>4. c4 \in Con
    BY <2>3
  <2> HIDE DEF Con
  <2> QED
    BY <2>4 DEF Ended, c1, c2, c3
<1>3. [Down EXCEPT !.pc = "recv", !.stream = TRUE] \in Con
  <2> DEFINE d1 == [Down EXCEPT !.pc = "recv"]
             d2 == [d1 EXCEPT !.stream = TRUE]
  <2>1. d1 \in Con
    BY <1>1
  <2> HIDE DEF d1
  <2>2. d2 \in Con
    BY <2>1, ZenonT(40)
  <2> HIDE DEF Con
  <2> QED
    BY <2>2 DEF d1
<1>4. [con EXCEPT !.stream = FALSE] \in Con
  BY ZenonT(40)
<1>5. [con EXCEPT !.claim = {}, !.todo = {}] \in Con
  BY ZenonT(40)
<1>6. [con EXCEPT !.pc = "recv", !.cur = 0] \in Con
  BY ZenonT(40)
<1> QED
  BY <1>1, <1>2, <1>3, <1>4, <1>5, <1>6, ZenonT(40)

\* What Reports and Known say of one consumer.
ConOk(con, hs, rs) ==
  /\ con.pc \in {"ack", "nack"} => con.cur \in Messages
  /\ con.pc = "ack" => con.cur \in hs
  /\ \A m \in con.todo : rs[m].status # "absent"
  /\ \A i \in 1 .. Len(con.buf) : rs[con.buf[i]].status # "absent"

\* The parts of a consumer only shrink when it stops or starts a loop.
LEMMA QuietCons ==
  ASSUME NEW con \in Con, NEW hs, NEW rs, ConOk(con, hs, rs)
  PROVE  /\ ConOk(Ended(con), hs, rs) /\ ConOk(Down, hs, rs)
         /\ ConOk([Down EXCEPT !.pc = "recv", !.stream = TRUE], hs, rs)
         /\ ConOk([con EXCEPT !.stream = FALSE], hs, rs)
         /\ ConOk([con EXCEPT !.claim = {}, !.todo = {}], hs, rs)
         /\ ConOk([con EXCEPT !.pc = "recv", !.cur = 0], hs, rs)
<1>1. ConOk(Down, hs, rs) /\ ConOk([Down EXCEPT !.pc = "recv", !.stream = TRUE], hs, rs)
  BY DEF ConOk, Down
<1>2. ConOk(Ended(con), hs, rs)
  BY DEF ConOk, Ended, Con
<1>3. ConOk([con EXCEPT !.stream = FALSE], hs, rs)
  BY DEF ConOk, Con
<1>4. ConOk([con EXCEPT !.claim = {}, !.todo = {}], hs, rs)
  BY DEF ConOk, Con
<1>5. ConOk([con EXCEPT !.pc = "recv", !.cur = 0], hs, rs)
  BY DEF ConOk, Con
<1> QED
  BY <1>1, <1>2, <1>3, <1>4, <1>5

\* The end of a handler: the head of the buffer becomes the message to report.
LEMMA HandlerCon ==
  ASSUME NEW con \in Con, NEW hs, NEW rs, ConOk(con, hs, rs), con.buf # <<>>,
         NEW pc \in {"ack", "nack"},
         NEW new, new = [con EXCEPT !.pc = pc, !.cur = Head(con.buf), !.buf = Tail(con.buf)]
  PROVE  /\ new \in Con /\ Head(con.buf) \in Messages
         /\ rs[Head(con.buf)].status # "absent"
         /\ ConOk(new, hs \cup {Head(con.buf)}, rs)
         /\ pc = "nack" => ConOk(new, hs, rs)
<1>1. con.buf \in Seq(Messages) /\ con.todo \in SUBSET Messages
  BY DEF Con
<1>2. /\ Head(con.buf) = con.buf[1] /\ Head(con.buf) \in Messages
      /\ Len(con.buf) \in Nat /\ Len(con.buf) >= 1
      /\ Tail(con.buf) \in Seq(Messages) /\ Len(Tail(con.buf)) = Len(con.buf) - 1
      /\ \A i \in 1 .. (Len(con.buf) - 1) : Tail(con.buf)[i] = con.buf[i + 1]
  BY <1>1
<1>3. new \in Con
  BY <1>2, ZenonT(40) DEF Con
<1>4. new.pc = pc /\ new.cur = Head(con.buf) /\ new.buf = Tail(con.buf) /\ new.todo = con.todo
  BY DEF Con
<1>5. \A i \in 1 .. Len(con.buf) : rs[con.buf[i]].status # "absent"
  BY DEF ConOk
<1>6. \A i \in 1 .. Len(Tail(con.buf)) : rs[Tail(con.buf)[i]].status # "absent"
  <2> TAKE i \in 1 .. Len(Tail(con.buf))
  <2>1. i + 1 \in 1 .. Len(con.buf) /\ Tail(con.buf)[i] = con.buf[i + 1]
    BY <1>2
  <2> QED
    BY <1>5, <2>1
<1>7. rs[Head(con.buf)].status # "absent"
  BY <1>2, <1>5
<1> QED
  BY <1>2, <1>3, <1>4, <1>6, <1>7 DEF ConOk

\* A message that is delivered is at the end of the buffer.
LEMMA DeliverCon ==
  ASSUME NEW con \in Con, NEW hs, NEW rs, ConOk(con, hs, rs), NEW m \in con.todo,
         NEW claim \in SUBSET Messages,
         NEW new, new = [con EXCEPT !.todo = @ \ {m}, !.buf = Append(@, m), !.claim = claim]
  PROVE  new \in Con /\ ConOk(new, hs, rs)
<1>1. con.buf \in Seq(Messages) /\ con.todo \in SUBSET Messages /\ m \in Messages
  BY DEF Con
<1>2. /\ Append(con.buf, m) \in Seq(Messages) /\ Len(Append(con.buf, m)) = Len(con.buf) + 1
      /\ Len(con.buf) \in Nat
      /\ \A i \in 1 .. Len(con.buf) : Append(con.buf, m)[i] = con.buf[i]
      /\ Append(con.buf, m)[Len(con.buf) + 1] = m
  BY <1>1
<1>3. /\ new.pc = con.pc /\ new.cur = con.cur /\ new.buf = Append(con.buf, m)
      /\ new.todo = con.todo \ {m}
  BY DEF Con
<1>4. new \in Con
  BY <1>1, <1>2, ZenonT(40) DEF Con
<1>5. \A i \in 1 .. Len(new.buf) : rs[new.buf[i]].status # "absent"
  BY <1>2, <1>3 DEF ConOk
<1> QED
  BY <1>3, <1>4, <1>5 DEF ConOk

\* What is known of a consumer stays true of it when the rest of the state moves.
LEMMA LaterOk ==
  ASSUME QueueInv, [Next]_vars, NEW con \in Con, NEW hs, ConOk(con, hs, rows)
  PROVE  ConOk(con, hs, rows')
<1>1. con.todo \in SUBSET Messages /\ con.buf \in Seq(Messages)
  BY DEF Con
<1>2. \A m \in con.todo : rows'[m].status # "absent"
  BY <1>1, StillThere DEF ConOk
<1>3. \A i \in 1 .. Len(con.buf) : con.buf[i] \in Messages
  BY <1>1
<1>4. \A i \in 1 .. Len(con.buf) : rows'[con.buf[i]].status # "absent"
  BY <1>3, StillThere DEF ConOk
<1> QED
  BY <1>2, <1>4 DEF ConOk

\* One consumer changes: it keeps its type, and so do the others.
LEMMA OneConsumer ==
  ASSUME QueueInv, [Next]_vars, NEW c \in Consumers, NEW new \in Con,
         cons' = [cons EXCEPT ![c] = new],
         handled \subseteq handled', ConOk(new, handled', rows)
  PROVE  /\ cons' \in [Consumers -> Con]
         /\ \A d \in Consumers : ConOk(cons'[d], handled', rows')
<1>1. cons \in [Consumers -> Con]
  BY DEF QueueInv, Typed
<1>2. cons' \in [Consumers -> Con]
  BY <1>1
<1>3. ASSUME NEW d \in Consumers PROVE ConOk(cons'[d], handled', rows')
  <2>1. cons'[d] = IF d = c THEN new ELSE cons[d]
    BY <1>1
  <2>2. ConOk(cons[d], handled, rows)
    BY DEF QueueInv, Reports, Known, ConOk
  <2>3. ConOk(cons[d], handled', rows)
    BY <2>2 DEF ConOk
  <2>4. cons'[d] \in Con /\ ConOk(cons'[d], handled', rows)
    BY <1>1, <2>1, <2>3
  <2> QED
    BY <2>4, LaterOk
<1> QED
  BY <1>2, <1>3

\* No consumer changes.
LEMMA NoConsumer ==
  ASSUME QueueInv, [Next]_vars, cons' = cons, handled' = handled
  PROVE  /\ cons' \in [Consumers -> Con]
         /\ \A d \in Consumers : ConOk(cons'[d], handled', rows')
<1>1. cons \in [Consumers -> Con]
  BY DEF QueueInv, Typed
<1>2. \A d \in Consumers : ConOk(cons[d], handled, rows)
  BY DEF QueueInv, Reports, Known, ConOk
<1> QED
  BY <1>1, <1>2, LaterOk

\* Every step keeps the consumers and the set of handled messages in order.
LEMMA ConsNext ==
  ASSUME QueueInv, [Next]_vars
  PROVE  /\ cons' \in [Consumers -> Con]
         /\ \A d \in Consumers : ConOk(cons'[d], handled', rows')
         /\ handled \subseteq handled' /\ handled' \subseteq Messages
<1> DEFINE Goal == /\ cons' \in [Consumers -> Con]
                   /\ \A d \in Consumers : ConOk(cons'[d], handled', rows')
                   /\ handled \subseteq handled' /\ handled' \subseteq Messages
<1>0. /\ cons \in [Consumers -> Con] /\ handled \subseteq Messages
      /\ \A c \in Consumers : ConOk(cons[c], handled, rows)
  BY DEF QueueInv, Typed, Reports, Known, ConOk
<1>1. ASSUME NEW c \in Consumers,
             \/ Ack(c) \/ AckFails(c) \/ Nack(c) \/ RecvFails(c) \/ Crash(c)
             \/ DeliverFails(c) \/ StreamBreaks(c) \/ Connect(c)
      PROVE  Goal
  <2>1. handled' = handled
    BY <1>1 DEF Ack, AckFails, Nack, RecvFails, Crash, DeliverFails, StreamBreaks, Connect
  <2>2. PICK new \in { Ended(cons[c]), [Down EXCEPT !.pc = "recv", !.stream = TRUE],
                       [cons[c] EXCEPT !.stream = FALSE],
                       [cons[c] EXCEPT !.claim = {}, !.todo = {}],
                       [cons[c] EXCEPT !.pc = "recv", !.cur = 0] } :
          cons' = [cons EXCEPT ![c] = new]
    <3>1. CASE Ack(c)
      BY <1>0, <3>1, ZenonT(40) DEF Ack
    <3>2. CASE Nack(c)
      BY <1>0, <3>2, ZenonT(40) DEF Nack
    <3>3. CASE AckFails(c) \/ RecvFails(c) \/ Crash(c)
      BY <1>0, <3>3 DEF AckFails, RecvFails, Crash
    <3>4. CASE DeliverFails(c)
      BY <1>0, <3>4, ZenonT(40) DEF DeliverFails
    <3>5. CASE StreamBreaks(c)
      BY <1>0, <3>5 DEF StreamBreaks
    <3>6. CASE Connect(c)
      BY <1>0, <3>6 DEF Connect
    <3> QED
      BY <1>1, <3>1, <3>2, <3>3, <3>4, <3>5, <3>6
  <2>3. new \in Con /\ ConOk(new, handled, rows)
    <3> DEFINE con == cons[c]
    <3>1. con \in Con /\ ConOk(con, handled, rows)
      BY <1>0
    <3>2. new \in { Ended(con), [Down EXCEPT !.pc = "recv", !.stream = TRUE],
                   [con EXCEPT !.stream = FALSE], [con EXCEPT !.claim = {}, !.todo = {}],
                   [con EXCEPT !.pc = "recv", !.cur = 0] }
      OBVIOUS
    <3> HIDE DEF con
    <3>3. \A x \in { Ended(con), [Down EXCEPT !.pc = "recv", !.stream = TRUE],
                   [con EXCEPT !.stream = FALSE], [con EXCEPT !.claim = {}, !.todo = {}],
                   [con EXCEPT !.pc = "recv", !.cur = 0] } : x \in Con
      BY <3>1, ConsAreTyped, Zenon
    <3>4. \A x \in { Ended(con), [Down EXCEPT !.pc = "recv", !.stream = TRUE],
                   [con EXCEPT !.stream = FALSE], [con EXCEPT !.claim = {}, !.todo = {}],
                   [con EXCEPT !.pc = "recv", !.cur = 0] } : ConOk(x, handled, rows)
      <4>1. /\ ConOk(Ended(con), handled, rows)
            /\ ConOk([Down EXCEPT !.pc = "recv", !.stream = TRUE], handled, rows)
            /\ ConOk([con EXCEPT !.stream = FALSE], handled, rows)
            /\ ConOk([con EXCEPT !.claim = {}, !.todo = {}], handled, rows)
            /\ ConOk([con EXCEPT !.pc = "recv", !.cur = 0], handled, rows)
        BY <3>1, QuietCons, ZenonT(40)
      <4> QED
        BY <4>1, Zenon
    <3> QED
      BY <3>2, <3>3, <3>4, Zenon
  <2> QED
    BY <1>0, <2>1, <2>2, <2>3, OneConsumer, ZenonT(40)
<1>2. ASSUME NEW c \in Consumers, HandlerOk(c) \/ HandlerFails(c)
      PROVE  Goal
  <2>1. PICK pc \in {"ack", "nack"} :
          /\ cons[c].buf # <<>>
          /\ cons' = [cons EXCEPT ![c] = [cons[c] EXCEPT !.pc = pc, !.cur = Head(cons[c].buf),
                                                         !.buf = Tail(cons[c].buf)]]
          /\ \/ handled' = handled \cup {Head(cons[c].buf)}
             \/ pc = "nack" /\ handled' = handled
    BY <1>0, <1>2, ZenonT(40) DEF HandlerOk, HandlerFails, EndHandler
  <2> DEFINE new == [cons[c] EXCEPT !.pc = pc, !.cur = Head(cons[c].buf), !.buf = Tail(cons[c].buf)]
  <2>2. cons[c] \in Con /\ ConOk(cons[c], handled, rows)
    BY <1>0
  <2>3. /\ new \in Con /\ Head(cons[c].buf) \in Messages
        /\ ConOk(new, handled \cup {Head(cons[c].buf)}, rows)
        /\ pc = "nack" => ConOk(new, handled, rows)
    BY <2>1, <2>2, HandlerCon, ZenonT(40)
  <2>4. handled \subseteq handled' /\ handled' \subseteq Messages /\ ConOk(new, handled', rows)
    BY <1>0, <2>1, <2>3, ZenonT(40)
  <2> HIDE DEF new
  <2>5. cons' = [cons EXCEPT ![c] = new]
    BY <2>1 DEF new
  <2> QED
    BY <2>3, <2>4, <2>5, OneConsumer, ZenonT(40)
<1>3. ASSUME NEW c \in Consumers, Deliver(c)
      PROVE  Goal
  <2>1. PICK m \in cons[c].todo :
          cons' = [cons EXCEPT ![c].todo = @ \ {m}, ![c].buf = Append(@, m),
                     ![c].claim = IF cons[c].todo = {m} THEN {} ELSE @]
    BY <1>3, ZenonT(40) DEF Deliver
  <2> DEFINE claim == IF cons[c].todo = {m} THEN {} ELSE cons[c].claim
             new == [cons[c] EXCEPT !.todo = @ \ {m}, !.buf = Append(@, m), !.claim = claim]
  <2>2. cons[c] \in Con /\ ConOk(cons[c], handled, rows) /\ handled' = handled
    BY <1>0, <1>3 DEF Deliver
  <2>3. claim \in SUBSET Messages
    BY <2>2 DEF Con
  <2>4. cons' = [cons EXCEPT ![c] = new]
    BY <1>0, <2>1, ZenonT(40)
  <2> HIDE DEF claim
  <2>5. new \in Con /\ ConOk(new, handled, rows)
    BY <2>2, <2>3, DeliverCon, ZenonT(40)
  <2> HIDE DEF new
  <2> QED
    BY <1>0, <2>2, <2>4, <2>5, OneConsumer, ZenonT(40)
<1>4. ASSUME NEW c \in Consumers, Claim(c)
      PROVE  Goal
  <2>1. PICK ms \in SUBSET InStatus({"pending"}) :
          cons' = [cons EXCEPT ![c].claim = ms, ![c].todo = ms]
    BY <1>4, ZenonT(40) DEF Claim
  <2> DEFINE new == [cons[c] EXCEPT !.claim = ms, !.todo = ms]
  <2>2. cons[c] \in Con /\ ConOk(cons[c], handled, rows) /\ handled' = handled
    BY <1>0, <1>4, ZenonT(40) DEF Claim
  <2>3. ms \in SUBSET Messages /\ \A m \in ms : rows[m].status # "absent"
    BY DEF InStatus
  <2>4. cons' = [cons EXCEPT ![c] = new]
    BY <1>0, <2>1, ZenonT(40)
  <2>5. new \in Con
    BY <2>2, <2>3, ZenonT(40) DEF Con
  <2>6. ConOk(new, handled, rows)
    BY <2>2, <2>3 DEF ConOk, Con
  <2> HIDE DEF new
  <2> QED
    BY <1>0, <2>2, <2>4, <2>5, <2>6, OneConsumer, ZenonT(40)
<1>5. ASSUME CoreRestart
      PROVE  Goal
  <2>1. handled' = handled /\ cons' = [c \in Consumers |-> Down]
    BY <1>5 DEF CoreRestart
  <2>2. ASSUME NEW d \in Consumers PROVE cons'[d] \in Con /\ ConOk(cons'[d], handled', rows')
    <3>1. Down \in Con /\ ConOk(Down, handled, rows)
      BY <1>0, ConsAreTyped, QuietCons, ZenonT(40)
    <3>2. ConOk(Down, handled, rows')
      BY <3>1, LaterOk
    <3> QED
      BY <2>1, <3>1, <3>2
  <2> QED
    BY <1>0, <2>1, <2>2
<1>6. ASSUME \/ \E m \in Messages, k \in DedupKeys \cup {None} : Enqueue(m, k)
             \/ \E m \in Messages : RetryDead(m) \/ Lapse(m)
             \/ Measure \/ ReapExpired \/ PurgeDone \/ UNCHANGED vars
      PROVE  Goal
  <2>1. cons' = cons /\ handled' = handled
    BY <1>6, ZenonT(40) DEF Enqueue, RetryDead, Lapse, Measure, ReapExpired, PurgeDone, vars
  <2> QED
    BY <1>0, <2>1, NoConsumer
<1> QED
  BY <1>1, <1>2, <1>3, <1>4, <1>5, <1>6 DEF Next, SdkStep, StreamStep

-----------------------------------------------------------------------------
\* The counters stay natural numbers.
LEMMA CountersNext ==
  ASSUME QueueInv, [Next]_vars
  PROVE  inflight' \in [Consumers -> Nat] /\ depth' \in Nat /\ revivals' \in Nat
<1>0. inflight \in [Consumers -> Nat] /\ depth \in Nat /\ revivals \in Nat
  BY DEF QueueInv, Typed
<1>1. ASSUME NEW c \in Consumers, LeftFlight(c) PROVE inflight' \in [Consumers -> Nat]
  BY <1>0, <1>1 DEF LeftFlight
<1>2. ASSUME NEW c \in Consumers,
             Ack(c) \/ AckFails(c) \/ Nack(c) \/ Deliver(c) \/ Connect(c)
      PROVE  inflight' \in [Consumers -> Nat] /\ depth' = depth /\ revivals' = revivals
  <2>1. CASE Ack(c)
    BY <1>0, <1>1, <2>1 DEF Ack
  <2>2. CASE AckFails(c)
    BY <1>0, <1>1, <2>2 DEF AckFails
  <2>3. CASE Nack(c)
    BY <1>0, <1>1, <2>3 DEF Nack
  <2>4. CASE Deliver(c)
    BY <1>0, <2>4 DEF Deliver
  <2>5. CASE Connect(c)
    BY <1>0, <2>5 DEF Connect
  <2> QED
    BY <1>2, <2>1, <2>2, <2>3, <2>4, <2>5
<1>3. ASSUME NEW c \in Consumers,
             \/ HandlerOk(c) \/ HandlerFails(c) \/ RecvFails(c) \/ Crash(c)
             \/ DeliverFails(c) \/ StreamBreaks(c) \/ Claim(c)
      PROVE  UNCHANGED <<inflight, depth, revivals>>
  BY <1>3, ZenonT(40) DEF HandlerOk, HandlerFails, EndHandler, RecvFails, Crash, DeliverFails,
     StreamBreaks, Claim
<1>4. CASE CoreRestart
  BY <1>0, <1>4 DEF CoreRestart
<1>5. CASE Measure
  BY <1>0, <1>5, BacklogIsCounted DEF Measure
<1>6. ASSUME \/ \E m \in Messages, k \in DedupKeys \cup {None} : Enqueue(m, k)
             \/ \E m \in Messages : RetryDead(m) \/ Lapse(m)
             \/ ReapExpired \/ PurgeDone \/ UNCHANGED vars
      PROVE  inflight' = inflight /\ depth' = depth /\ revivals' \in Nat
  <2>1. ASSUME NEW m \in Messages, RetryDead(m)
        PROVE  inflight' = inflight /\ depth' = depth /\ revivals' = revivals + 1
    BY <2>1 DEF RetryDead
  <2>2. ASSUME \/ \E m \in Messages, k \in DedupKeys \cup {None} : Enqueue(m, k)
               \/ \E m \in Messages : Lapse(m)
               \/ ReapExpired \/ PurgeDone \/ UNCHANGED vars
        PROVE  UNCHANGED <<inflight, depth, revivals>>
    BY <2>2, ZenonT(40) DEF Enqueue, Lapse, ReapExpired, PurgeDone, vars
  <2> QED
    BY <1>0, <1>6, <2>1, <2>2
<1> QED
  BY <1>0, <1>2, <1>3, <1>4, <1>5, <1>6 DEF Next, SdkStep, StreamStep

\* The initial state satisfies the invariant.
LEMMA QueueInitInv == Init => QueueInv
<1> SUFFICES ASSUME Init PROVE QueueInv
  OBVIOUS
<1>1. NoRow \in Row /\ NoRow.status = "absent"
  BY DEF NoRow, Row, Status
<1>2. Down \in Con /\ Down.pc = "down" /\ Down.todo = {} /\ Down.buf = <<>>
  BY DEF Down, Con
<1>3. Typed
  BY <1>1, <1>2 DEF Init, Typed
<1>4. \A m \in Messages : rows[m].status = "absent"
  BY <1>1 DEF Init
<1>5. Reports /\ Known
  BY <1>2 DEF Init, Reports, Known
<1>6. AttemptsAreSpent /\ DoneWasHandled
  BY <1>4 DEF AttemptsAreSpent, DoneWasHandled, InStatus
<1> QED
  BY <1>3, <1>5, <1>6 DEF QueueInv

\* Every step preserves it: rows go the ways of RowStep, and consumers are kept
\* in order.
LEMMA QueueNextInv == QueueInv /\ [Next]_vars => QueueInv'
<1> SUFFICES ASSUME QueueInv, [Next]_vars PROVE QueueInv'
  OBVIOUS
<1>1. rows' \in [Messages -> Row] /\ \A m \in Messages : RowStep(m)
  BY RowsNext
<1>2. /\ cons' \in [Consumers -> Con]
      /\ \A d \in Consumers : ConOk(cons'[d], handled', rows')
      /\ handled \subseteq handled' /\ handled' \subseteq Messages
  BY ConsNext
<1>3. Typed'
  BY <1>1, <1>2, CountersNext DEF Typed
<1>4. Reports' /\ Known'
  BY <1>2 DEF Reports, Known, ConOk
<1>5. AttemptsAreSpent'
  <2> SUFFICES ASSUME NEW m \in Messages
               PROVE  /\ rows'[m].status = "pending" => rows'[m].attempts < MaxAttempts
                      /\ rows'[m].status = "processing" => rows'[m].attempts \in 1 .. MaxAttempts
                      /\ rows'[m].status = "dead" => rows'[m].attempts = MaxAttempts
    BY DEF AttemptsAreSpent
  <2>1. rows[m].attempts \in Nat
    BY DEF QueueInv, Typed, Row
  <2> QED
    BY <1>1, <2>1, QueueAssumption DEF RowStep, QueueInv, AttemptsAreSpent
<1>6. DoneWasHandled'
  BY <1>1, <1>2 DEF RowStep, QueueInv, DoneWasHandled, InStatus
<1> QED
  BY <1>3, <1>4, <1>5, <1>6 DEF QueueInv

\* The inductive invariant holds in every reachable state.
THEOREM QueueInvariant == Spec => []QueueInv
BY QueueInitInv, QueueNextInv, PTL DEF Spec

\* No message is delivered more often than max_attempts, and none is parked
\* before, for every number of consumers and messages (queue.go:198, :284).
THEOREM AttemptsAreBounded == Spec => []AttemptsAreSpent
<1>1. QueueInv => AttemptsAreSpent
  BY DEF QueueInv
<1> QED
  BY <1>1, QueueInvariant, PTL

\* A message that is done was handled successfully, whatever was lost, late or
\* redelivered.
THEOREM DoneImpliesHandled == Spec => []DoneWasHandled
<1>1. QueueInv => DoneWasHandled
  BY DEF QueueInv
<1> QED
  BY <1>1, QueueInvariant, PTL

\* Attempts are within their limit and only handled messages are done, for any
\* number of consumers and messages (queue.go:15-25, :198, :284).
THEOREM DeliveryStaysBounded == Spec => []DeliveryIsBounded
BY AttemptsAreBounded, DoneImpliesHandled, PTL DEF DeliveryIsBounded

\* The variables keep their types.
THEOREM QueueIsTyped == Spec => []TypeOK
<1>1. QueueInv => TypeOK
  BY DEF QueueInv, Typed, TypeOK, Row, Con
<1> QED
  BY <1>1, QueueInvariant, PTL

-----------------------------------------------------------------------------
(* The refinement of AtLeastOnce.                                          *)

\* The phases of two states differ exactly where rows changed phase.
LEMMA PhasesMove ==
  ASSUME NEW ms \in SUBSET Messages, NEW from, NEW to, handled' = handled,
         \A m \in ms : Phase(m) = from /\ Phase(m)' = to,
         \A m \in Messages \ ms : Phase(m)' = Phase(m)
  PROVE  Promise!Move(ms, from, to)
BY DEF Promise!Move

\* Where no row changes phase and no handler succeeds, the promise stutters.
LEMMA PhasesStay ==
  ASSUME handled' = handled, \A m \in Messages : Phase(m)' = Phase(m)
  PROVE  UNCHANGED Promise!avars
BY DEF Promise!avars

\* A nack parks the rows that have no attempt left.
LEMMA NackParks ==
  ASSUME rows \in [Messages -> Row], NEW ms, NackAll(ms), handled' = handled
  PROVE  \E ps \in SUBSET Messages : Promise!Park(ps)
<1> DEFINE ps == {m \in Messages : rows[m].status = "processing" /\ rows'[m].status = "dead"}
<1>1. \A m \in ps : Phase(m) = "waiting" /\ Phase(m)' = "parked"
  BY DEF Phase
<1>2. \A m \in Messages : \/ rows'[m].status = rows[m].status
                          \/ /\ rows[m].status = "processing"
                             /\ rows'[m].status \in {"pending", "dead"}
  BY ZenonT(40) DEF NackAll, Returned, Row
<1>3. \A m \in Messages \ ps : Phase(m)' = Phase(m)
  BY <1>2 DEF Phase
<1>4. Promise!Move(ps, "waiting", "parked")
  BY <1>1, <1>3, PhasesMove
<1> QED
  BY <1>4 DEF Promise!Park

\* An acknowledgement finishes its message, or comes too late and does nothing.
LEMMA AckFinishes ==
  ASSUME rows \in [Messages -> Row], NEW n \in Messages, n \in handled, AckRow(n),
         handled' = handled
  PROVE  Promise!Finish(n) \/ UNCHANGED Promise!avars
<1>1. CASE rows[n].status = "processing"
  <2>1. rows'[n].status = "done" /\ \A m \in Messages \ {n} : rows'[m] = rows[m]
    BY <1>1 DEF AckRow, Row
  <2>2. Phase(n) = "waiting" /\ Phase(n)' = "finished"
    BY <1>1, <2>1 DEF Phase
  <2>3. \A m \in Messages \ {n} : Phase(m)' = Phase(m)
    BY <2>1 DEF Phase
  <2>4. Promise!Move({n}, "waiting", "finished")
    BY <2>2, <2>3, PhasesMove
  <2> QED
    BY <2>4 DEF Promise!Finish
<1>2. CASE rows[n].status # "processing"
  <2>1. rows' = rows
    BY <1>2 DEF AckRow
  <2> QED
    BY <2>1, PhasesStay DEF Phase
<1> QED
  BY <1>1, <1>2

\* Every step of the queue is a step of the promise, or none.
LEMMA QueueStepSimulates ==
  ASSUME QueueInv, [Next]_vars
  PROVE  [Promise!ANext]_(Promise!avars)
<1>0. /\ rows \in [Messages -> Row] /\ cons \in [Consumers -> Con]
      /\ \A c \in Consumers : ConOk(cons[c], handled, rows)
  BY DEF QueueInv, Typed, Reports, Known, ConOk
<1>1. ASSUME NEW n \in Messages, NEW k \in DedupKeys \cup {None}, Enqueue(n, k)
      PROVE  Promise!Accept(n)
  <2>1. /\ rows[n].status = "absent" /\ handled' = handled
        /\ rows' = [rows EXCEPT ![n] = [NoRow EXCEPT !.status = "pending", !.dedup = k]]
    BY <1>1 DEF Enqueue, InStatus
  <2>2. rows'[n].status = "pending" /\ \A m \in Messages \ {n} : rows'[m] = rows[m]
    BY <1>0, <2>1 DEF NoRow
  <2>3. Phase(n) = "new" /\ Phase(n)' = "waiting"
    BY <2>1, <2>2 DEF Phase
  <2>4. \A m \in Messages \ {n} : Phase(m)' = Phase(m)
    BY <2>2 DEF Phase
  <2> QED
    BY <2>1, <2>3, <2>4, PhasesMove DEF Promise!Accept
<1>2. ASSUME NEW n \in Messages, RetryDead(n)
      PROVE  Promise!Revive(n)
  <2>1. /\ rows[n].status = "dead" /\ handled' = handled
        /\ rows' = [rows EXCEPT ![n].status = "pending", ![n].attempts = 0]
    BY <1>2 DEF RetryDead
  <2>2. rows'[n].status = "pending" /\ \A m \in Messages \ {n} : rows'[m] = rows[m]
    BY <1>0, <2>1 DEF Row
  <2>3. Phase(n) = "parked" /\ Phase(n)' = "waiting"
    BY <2>1, <2>2 DEF Phase
  <2>4. \A m \in Messages \ {n} : Phase(m)' = Phase(m)
    BY <2>2 DEF Phase
  <2> QED
    BY <2>1, <2>3, <2>4, PhasesMove DEF Promise!Revive
<1>3. ASSUME NEW c \in Consumers, HandlerOk(c)
      PROVE  \E n \in Messages : Promise!Handle(n)
  <2> DEFINE n == Head(cons[c].buf)
  <2>1. cons[c] \in Con /\ cons[c].buf # <<>> /\ ConOk(cons[c], handled, rows)
    BY <1>0, <1>3 DEF HandlerOk, EndHandler
  <2>2. n \in Messages /\ rows[n].status # "absent"
    BY <2>1, HandlerCon, ZenonT(40)
  <2>3. handled' = handled \cup {n} /\ rows' = rows
    BY <1>3 DEF HandlerOk, EndHandler
  <2> HIDE DEF n
  <2>4. Phase(n) # "new" /\ [m \in Messages |-> Phase(m)]' = [m \in Messages |-> Phase(m)]
    BY <2>2, <2>3 DEF Phase
  <2> QED
    BY <2>2, <2>3, <2>4 DEF Promise!Handle
<1>4. ASSUME ReapExpired \/ \E c \in Consumers : DeliverFails(c) \/ Nack(c)
      PROVE  (\E ps \in SUBSET Messages : Promise!Park(ps)) \/ UNCHANGED Promise!avars
  <2>1. handled' = handled /\ (rows' = rows \/ \E ms : NackAll(ms))
    BY <1>4, ZenonT(40) DEF ReapExpired, DeliverFails, Nack
  <2>2. rows' = rows => UNCHANGED Promise!avars
    BY <2>1, PhasesStay DEF Phase
  <2> QED
    BY <1>0, <2>1, <2>2, NackParks
<1>5. ASSUME NEW c \in Consumers, Ack(c) \/ AckFails(c)
      PROVE  (\E n \in Messages : Promise!Finish(n)) \/ UNCHANGED Promise!avars
  <2>1. cons[c].cur \in Messages /\ cons[c].cur \in handled
    BY <1>0, <1>5 DEF Ack, AckFails, ConOk
  <2>2. handled' = handled /\ (rows' = rows \/ AckRow(cons[c].cur))
    BY <1>5 DEF Ack, AckFails
  <2>3. rows' = rows => UNCHANGED Promise!avars
    BY <2>2, PhasesStay DEF Phase
  <2> QED
    BY <1>0, <2>1, <2>2, <2>3, AckFinishes
<1>6. ASSUME handled' = handled,
             \A m \in Messages :
               \/ rows'[m].status = rows[m].status
               \/ rows[m].status = "pending" /\ rows'[m].status = "processing"
               \/ rows[m].status = "done" /\ rows'[m].status = "purged"
      PROVE  UNCHANGED Promise!avars
  <2>1. \A m \in Messages : Phase(m)' = Phase(m)
    BY <1>6 DEF Phase
  <2> QED
    BY <1>6, <2>1, PhasesStay
<1>7. ASSUME \/ PurgeDone \/ \E m \in Messages : Lapse(m)
             \/ CoreRestart \/ \E c \in Consumers : Claim(c) \/ Connect(c)
      PROVE  UNCHANGED Promise!avars
  <2>1. handled' = handled
    BY <1>7, ZenonT(40) DEF PurgeDone, Lapse, Claim, Connect, CoreRestart
  <2>2. ASSUME PurgeDone, NEW m \in Messages
        PROVE  \/ rows'[m].status = rows[m].status
               \/ rows[m].status = "done" /\ rows'[m].status = "purged"
    <3>1. PICK ms \in SUBSET InStatus({"done"}) :
            rows' = [i \in Messages |->
                       IF i \in ms THEN [rows[i] EXCEPT !.status = "purged"] ELSE rows[i]]
      BY <2>2 DEF PurgeDone
    <3>2. m \in ms => rows[m].status = "done" /\ rows'[m].status = "purged"
      BY <1>0, <3>1 DEF InStatus, Row
    <3>3. m \notin ms => rows'[m] = rows[m]
      BY <3>1
    <3> QED
      BY <3>2, <3>3
  <2>3. ASSUME NEW n \in Messages, Lapse(n), NEW m \in Messages
        PROVE  rows'[m].status = rows[m].status
    BY <1>0, <2>3 DEF Lapse, Row
  <2>4. ASSUME NEW c \in Consumers, Claim(c), NEW m \in Messages
        PROVE  \/ rows'[m].status = rows[m].status
               \/ rows[m].status = "pending" /\ rows'[m].status = "processing"
    <3>1. PICK ms \in SUBSET InStatus({"pending"}) :
            rows' = [i \in Messages |->
                       IF i \in ms
                       THEN [rows[i] EXCEPT !.status = "processing", !.lapsed = FALSE,
                               !.attempts = rows[i].attempts + 1, !.holder = c]
                       ELSE rows[i]]
      BY <2>4, ZenonT(40) DEF Claim
    <3>2. m \in ms => rows[m].status = "pending" /\ rows'[m].status = "processing"
      BY <1>0, <3>1, ZenonT(40) DEF InStatus, Row
    <3>3. m \notin ms => rows'[m] = rows[m]
      BY <3>1, ZenonT(40)
    <3> QED
      BY <3>2, <3>3
  <2>5. ASSUME NEW cs, Forget(cs), NEW m \in Messages
        PROVE  rows'[m].status = rows[m].status
    BY <1>0, <2>5 DEF Forget, Row
  <2>6. ASSUME CoreRestart \/ \E c \in Consumers : Connect(c), NEW m \in Messages
        PROVE  rows'[m].status = rows[m].status
    BY <2>5, <2>6, ZenonT(40) DEF CoreRestart, Connect
  <2>7. \A m \in Messages :
          \/ rows'[m].status = rows[m].status
          \/ rows[m].status = "pending" /\ rows'[m].status = "processing"
          \/ rows[m].status = "done" /\ rows'[m].status = "purged"
    BY <1>7, <2>2, <2>3, <2>4, <2>6
  <2> QED
    BY <1>6, <2>1, <2>7
<1>8. ASSUME \/ Measure \/ UNCHANGED vars
             \/ \E c \in Consumers : \/ HandlerFails(c) \/ RecvFails(c) \/ Deliver(c)
                                     \/ StreamBreaks(c) \/ Crash(c)
      PROVE  UNCHANGED Promise!avars
  <2>1. rows' = rows /\ handled' = handled
    BY <1>8, ZenonT(40) DEF Measure, vars, HandlerFails, EndHandler, RecvFails, Deliver, StreamBreaks, Crash
  <2> QED
    BY <1>6, <2>1
<1>9. ASSUME UNCHANGED Promise!avars \/ Promise!ANext
      PROVE  [Promise!ANext]_(Promise!avars)
  BY <1>9
<1> QED
  BY <1>1, <1>2, <1>3, <1>4, <1>5, <1>7, <1>8, <1>9
     DEF Next, SdkStep, StreamStep, Promise!ANext

\* The queue implements at-least-once delivery: a message is never dropped, and
\* leaves the queue only handled or parked (queue.go:15-25).
THEOREM QueueImplementsAtLeastOnce == Spec => ImplementsAtLeastOnce
<1>1. Init => Promise!AInit
  BY DEF Init, NoRow, Phase, Promise!AInit
<1>2. QueueInv /\ [Next]_vars => [Promise!ANext]_(Promise!avars)
  BY QueueStepSimulates
<1> QED
  BY <1>1, <1>2, QueueInvariant, PTL DEF Spec, ImplementsAtLeastOnce, Promise!ASpec
=============================================================================

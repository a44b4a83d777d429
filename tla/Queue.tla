------------------------------- MODULE Queue --------------------------------
(***************************************************************************)
(* The durable queue of one plugin and one topic: the table, the streams   *)
(* Core serves to the plugin's consumers, the loop of the SDK that handles *)
(* and reports messages, and the maintenance loop.                         *)
(* Source: core/db/queue.go, core/hostsvc/{queue,rpc_queue}.go,            *)
(* sdk/plugin/host.go.                                                     *)
(*                                                                         *)
(* Time is abstract: a lease lapses in a step of its own, and a message    *)
(* that is not available yet is one that nobody claims yet.  The order of  *)
(* a claim (priority, id) is abstracted: SKIP LOCKED does not keep it.     *)
(***************************************************************************)
EXTENDS Integers, Sequences, FiniteSets

CONSTANTS
  Consumers,     \* plugin processes that consume the topic
  DedupKeys,     \* dedup keys a producer may give
  MaxMessages,   \* bound: messages enqueued
  MaxAttempts,   \* max_attempts of every message
  MaxRevivals,   \* bound: calls of RetryDead
  MaxDepth,      \* PGQueue.MaxDepth
  Prefetch,      \* ConsumeRequest.prefetch
  None           \* no dedup key, no holder

ASSUME QueueAssumption ==
  /\ MaxMessages \in Nat /\ MaxRevivals \in Nat
  /\ MaxAttempts \in Nat \ {0}
  /\ MaxDepth \in Nat \ {0}
  /\ Prefetch \in Nat \ {0}
  /\ None \notin Consumers /\ None \notin DedupKeys

Messages == 1 .. MaxMessages

VARIABLES
  rows,      \* rows[m]: the row of message m in plugin_queue
  cons,      \* cons[c]: Core's stream loop for c and the SDK's loop
  inflight,  \* inflight[c]: Server.inflight
  depth,     \* PGQueue.depth: the backlog as last measured
  handled,   \* messages a handler has succeeded with (history)
  revivals   \* calls of RetryDead so far (bound)

vars == <<rows, cons, inflight, depth, handled, revivals>>

Status == {"absent", "pending", "processing", "done", "dead", "purged"}

\* holder (history) is the consumer that claimed a row in processing.
NoRow == [status |-> "absent", attempts |-> 0, dedup |-> None, lapsed |-> FALSE,
          holder |-> None]

\* claim: the claim Core is sending; todo: what of it was not sent yet; buf: sent
\* and not handled yet; cur: the message whose outcome is to be reported.
Down == [pc |-> "down", stream |-> FALSE, claim |-> {}, todo |-> {},
         buf |-> <<>>, cur |-> 0]

Init ==
  /\ rows = [m \in Messages |-> NoRow]
  /\ cons = [c \in Consumers |-> Down]
  /\ inflight = [c \in Consumers |-> 0]
  /\ depth = 0
  /\ handled = {}
  /\ revivals = 0

InStatus(ss) == {m \in Messages : rows[m].status \in ss}

Backlog == InStatus({"pending", "processing"})

\* The unique index on the dedup key of pending and processing rows.
DedupFree(k) == k = None \/ \A m \in Backlog : rows[m].dedup # k

\* A lease whose visibility timeout has not elapsed.
Leased(m) == rows[m].status = "processing" /\ ~rows[m].lapsed

-----------------------------------------------------------------------------
(* The statements on the table.                                            *)

\* Mutant: the comparison allows one attempt too many.
ReturnedLate(row) ==
  [row EXCEPT !.status = IF row.attempts > MaxAttempts THEN "dead" ELSE "pending",
              !.lapsed = FALSE, !.holder = None]

\* An unsuccessful delivery: back to pending, or dead when it was the last one.
Returned(row) ==
  [row EXCEPT !.status = IF row.attempts >= MaxAttempts THEN "dead" ELSE "pending",
              !.lapsed = FALSE, !.holder = None]

\* Nack of every message of ms; rows that are not processing do not match.
NackAll(ms) ==
  rows' = [m \in Messages |->
             IF m \in ms /\ rows[m].status = "processing" THEN Returned(rows[m])
             ELSE rows[m]]

AckRow(m) ==
  rows' = IF rows[m].status = "processing"
          THEN [rows EXCEPT ![m].status = "done", ![m].lapsed = FALSE,
                            ![m].holder = None]
          ELSE rows

\* A call that Core refuses, or that is deduplicated, changes nothing.
Enqueue(m, k) ==
  /\ m \in InStatus({"absent"}) /\ \A n \in 1 .. (m - 1) : n \notin InStatus({"absent"})
  /\ depth < MaxDepth
  /\ DedupFree(k)
  /\ rows' = [rows EXCEPT ![m] = [NoRow EXCEPT !.status = "pending", !.dedup = k]]
  /\ UNCHANGED <<cons, inflight, depth, handled, revivals>>

\* The update fails when it would break the unique index.
RetryDead(m) ==
  /\ revivals < MaxRevivals
  /\ rows[m].status = "dead"
  /\ DedupFree(rows[m].dedup)
  /\ rows' = [rows EXCEPT ![m].status = "pending", ![m].attempts = 0]
  /\ revivals' = revivals + 1
  /\ UNCHANGED <<cons, inflight, depth, handled>>

\* The visibility timeout of a claimed message elapses.
Lapse(m) ==
  /\ Leased(m)
  /\ rows' = [rows EXCEPT ![m].lapsed = TRUE]
  /\ UNCHANGED <<cons, inflight, depth, handled, revivals>>

-----------------------------------------------------------------------------
(* Maintenance: a query that fails is one that is made a tick later.       *)

\* Mutant: only the plugins that still have rows are updated.
MeasureMerged ==
  /\ depth' = IF Backlog = {} THEN depth ELSE Cardinality(Backlog)
  /\ UNCHANGED <<rows, cons, inflight, handled, revivals>>

Measure ==
  /\ depth' = Cardinality(Backlog)
  /\ UNCHANGED <<rows, cons, inflight, handled, revivals>>

\* Mutant: an expired message on its last attempt is left for its consumer.
ReapTimid ==
  LET Expired == {m \in Messages : rows[m].status = "processing" /\ rows[m].lapsed
                                   /\ rows[m].attempts < MaxAttempts}
  IN /\ Expired # {}
     /\ NackAll(Expired)
     /\ UNCHANGED <<cons, inflight, depth, handled, revivals>>

ReapExpired ==
  LET Expired == {m \in Messages : rows[m].status = "processing" /\ rows[m].lapsed}
  IN /\ Expired # {}
     /\ NackAll(Expired)
     /\ UNCHANGED <<cons, inflight, depth, handled, revivals>>

PurgeDone ==
  /\ \E ms \in SUBSET InStatus({"done"}) :
       /\ ms # {}
       /\ rows' = [m \in Messages |->
                     IF m \in ms THEN [rows[m] EXCEPT !.status = "purged"] ELSE rows[m]]
  /\ UNCHANGED <<cons, inflight, depth, handled, revivals>>

-----------------------------------------------------------------------------
(* Core's stream loop, one for each consumer that is connected.            *)

\* Mutant: the wait is over after any time.
HasRoomAlways(c) == TRUE

\* awaitRoom: the consumer holds less than its prefetch, or it has been waited
\* for as long as the visibility timeout: its leases have lapsed by then.
HasRoom(c) ==
  \/ inflight[c] < Prefetch
  \/ \A m \in Messages : Leased(m) => rows[m].holder # c

\* The limit of the claim is the whole prefetch, whatever is in flight.
Claim(c) ==
  /\ cons[c].stream /\ cons[c].todo = {}
  /\ HasRoom(c)
  /\ \E ms \in SUBSET InStatus({"pending"}) :
       /\ ms # {} /\ Cardinality(ms) <= Prefetch
       /\ rows' = [m \in Messages |->
                     IF m \in ms
                     THEN [rows[m] EXCEPT !.status = "processing", !.lapsed = FALSE,
                             !.attempts = rows[m].attempts + 1, !.holder = c]
                     ELSE rows[m]]
       /\ cons' = [cons EXCEPT ![c].claim = ms, ![c].todo = ms]
  /\ UNCHANGED <<inflight, depth, handled, revivals>>

Deliver(c) ==
  /\ cons[c].stream
  /\ \E m \in cons[c].todo :
       cons' = [cons EXCEPT ![c].todo = @ \ {m}, ![c].buf = Append(@, m),
                  ![c].claim = IF cons[c].todo = {m} THEN {} ELSE @]
  /\ inflight' = [inflight EXCEPT ![c] = @ + 1]
  /\ UNCHANGED <<rows, depth, handled, revivals>>

\* The stream is cut, by the plugin or by the network.
StreamBreaks(c) ==
  /\ cons[c].stream
  /\ cons' = [cons EXCEPT ![c].stream = FALSE]
  /\ UNCHANGED <<rows, inflight, depth, handled, revivals>>

\* Everything that was claimed is nacked, delivered or not; errors are ignored.
DeliverFails(c) ==
  /\ ~cons[c].stream /\ cons[c].todo # {}
  /\ \E ms \in SUBSET cons[c].claim : NackAll(ms)
  /\ cons' = [cons EXCEPT ![c].claim = {}, ![c].todo = {}]
  /\ UNCHANGED <<inflight, depth, handled, revivals>>

-----------------------------------------------------------------------------
(* The consumer loop of the SDK.                                           *)

\* The loop ends; what was received and not handled is dropped with it.
Ended(con) == [con EXCEPT !.pc = "down", !.stream = FALSE, !.buf = <<>>, !.cur = 0]

\* The handler ends: pc is where the outcome is reported.
EndHandler(c, pc) ==
  /\ cons[c].pc = "recv" /\ cons[c].buf # <<>>
  /\ cons' = [cons EXCEPT ![c].pc = pc, ![c].cur = Head(cons[c].buf),
                          ![c].buf = Tail(cons[c].buf)]
  /\ UNCHANGED <<rows, inflight, depth, revivals>>

HandlerOk(c) ==
  /\ EndHandler(c, "ack")
  /\ handled' = handled \cup {Head(cons[c].buf)}

\* Mutant: a failed handler is acknowledged like a successful one.
HandlerFailsAcked(c) == EndHandler(c, "ack") /\ UNCHANGED handled

HandlerFails(c) == EndHandler(c, "nack") /\ UNCHANGED handled

\* Mutant: an outcome is counted twice, and nothing stops at zero.
LeftFlightTwice(c) == inflight' = [inflight EXCEPT ![c] = inflight[c] - 2]

LeftFlight(c) ==
  inflight' = [inflight EXCEPT ![c] = IF inflight[c] > 0 THEN inflight[c] - 1 ELSE 0]

\* Mutant: the row is updated whatever its status.
AckUnguarded(c) ==
  /\ cons[c].pc = "ack"
  /\ rows' = [rows EXCEPT ![cons[c].cur].status = "done"]
  /\ LeftFlight(c)
  /\ cons' = [cons EXCEPT ![c].pc = "recv", ![c].cur = 0]
  /\ UNCHANGED <<depth, handled, revivals>>

Ack(c) ==
  /\ cons[c].pc = "ack"
  /\ AckRow(cons[c].cur)
  /\ LeftFlight(c)
  /\ cons' = [cons EXCEPT ![c].pc = "recv", ![c].cur = 0]
  /\ UNCHANGED <<depth, handled, revivals>>

\* The call fails, before or after Core has done it: the loop ends.
AckFails(c) ==
  /\ cons[c].pc = "ack"
  /\ \/ UNCHANGED <<rows, inflight>>
     \/ AckRow(cons[c].cur) /\ LeftFlight(c)
  /\ cons' = [cons EXCEPT ![c] = Ended(@)]
  /\ UNCHANGED <<depth, handled, revivals>>

\* The outcome of a nack is ignored: it may not have reached Core.
Nack(c) ==
  /\ cons[c].pc = "nack"
  /\ \/ UNCHANGED <<rows, inflight>>
     \/ NackAll({cons[c].cur}) /\ LeftFlight(c)
  /\ cons' = [cons EXCEPT ![c].pc = "recv", ![c].cur = 0]
  /\ UNCHANGED <<depth, handled, revivals>>

RecvFails(c) ==
  /\ cons[c].pc = "recv" /\ ~cons[c].stream
  /\ cons' = [cons EXCEPT ![c] = Ended(@)]
  /\ UNCHANGED <<rows, inflight, depth, handled, revivals>>

\* The consumer that holds a row is no longer the one it was.
Forget(cs) ==
  rows' = [m \in Messages |->
             IF rows[m].holder \in cs THEN [rows[m] EXCEPT !.holder = None] ELSE rows[m]]

\* The plugin consumes again: the same process, with Core's counter as it was,
\* or a new one, with a counter of its own.
Connect(c) ==
  /\ cons[c].pc = "down" /\ cons[c].todo = {}
  /\ cons' = [cons EXCEPT ![c] = [Down EXCEPT !.pc = "recv", !.stream = TRUE]]
  /\ \/ UNCHANGED inflight
     \/ inflight' = [inflight EXCEPT ![c] = 0]
  /\ Forget({c})
  /\ UNCHANGED <<depth, handled, revivals>>

\* The plugin's process dies.
Crash(c) ==
  /\ cons[c].pc # "down"
  /\ cons' = [cons EXCEPT ![c] = Ended(@)]
  /\ UNCHANGED <<rows, inflight, depth, handled, revivals>>

\* Core restarts: only the table survives.
CoreRestart ==
  /\ cons' = [c \in Consumers |-> Down]
  /\ inflight' = [c \in Consumers |-> 0]
  /\ depth' = 0
  /\ Forget(Consumers)
  /\ UNCHANGED <<handled, revivals>>

-----------------------------------------------------------------------------
SdkStep(c) ==
  HandlerOk(c) \/ HandlerFails(c) \/ Ack(c) \/ AckFails(c) \/ Nack(c) \/ RecvFails(c)

StreamStep(c) == Claim(c) \/ Deliver(c) \/ DeliverFails(c)

Next ==
  \/ \E m \in Messages, k \in DedupKeys \cup {None} : Enqueue(m, k)
  \/ \E m \in Messages : RetryDead(m) \/ Lapse(m)
  \/ Measure \/ ReapExpired \/ PurgeDone
  \/ \E c \in Consumers :
       SdkStep(c) \/ StreamStep(c) \/ Connect(c) \/ StreamBreaks(c) \/ Crash(c)
  \/ CoreRestart

Spec == Init /\ [][Next]_vars

-----------------------------------------------------------------------------
(* Properties.                                                             *)

\* The variables have their types.
TypeOK ==
  /\ rows \in [Messages ->
       [status : Status, attempts : Nat, dedup : DedupKeys \cup {None},
        lapsed : BOOLEAN, holder : Consumers \cup {None}]]
  /\ cons \in [Consumers ->
       [pc : {"recv", "ack", "nack", "down"}, stream : BOOLEAN,
        claim : SUBSET Messages, todo : SUBSET Messages, buf : Seq(Messages),
        cur : Messages \cup {0}]]
  /\ inflight \in [Consumers -> Nat]
  /\ depth \in Nat
  /\ handled \subseteq Messages
  /\ revivals \in Nat

\* A message leaves the queue as done only when some handler succeeded with it,
\* whatever was redelivered, acknowledged late or lost on the way.
DoneWasHandled == InStatus({"done", "purged"}) \subseteq handled

\* No message is delivered more than max_attempts times, and none is parked
\* before, however deliveries end (queue.go:198 and :284).
AttemptsAreSpent ==
  \A m \in Messages :
    /\ rows[m].status = "pending" => rows[m].attempts < MaxAttempts
    /\ rows[m].status = "processing" => rows[m].attempts \in 1 .. MaxAttempts
    /\ rows[m].status = "dead" => rows[m].attempts = MaxAttempts

\* A consumer never holds more live leases than one claim on top of a prefetch
\* that is not used up; with the prefetch of 1 the SDK asks for, never two
\* (rpc_queue.go:87-96).
HoldsItsPrefetch ==
  \A c \in Consumers :
    Cardinality({m \in Messages : Leased(m) /\ rows[m].holder = c}) <= 2 * Prefetch - 1

\* Every accepted message is handled or parked in the end, also when consumers
\* crash, streams break, and reports are lost.
EveryMessageSettles ==
  \A m \in Messages : (m \in Backlog) ~> (rows[m].status \in {"done", "dead", "purged"})

\* Enqueues are not refused for ever: the measured backlog goes below the limit
\* once the messages have been worked off (queue.go:204-216).
RefusalEnds == (depth >= MaxDepth) ~> (depth < MaxDepth)

Phase(m) ==
  CASE rows[m].status = "absent" -> "new"
    [] rows[m].status \in {"pending", "processing"} -> "waiting"
    [] rows[m].status = "dead" -> "parked"
    [] OTHER -> "finished"

Promise == INSTANCE AtLeastOnce WITH phase <- [m \in Messages |-> Phase(m)]

\* The queue implements at-least-once delivery (queue.go:15-25).
ImplementsAtLeastOnce == Promise!ASpec

\* A claimed message is invisible to other consumers until its visibility
\* timeout elapses (queue.go:113-114): only its holder returns it before.
LeaseIsExclusive ==
  [][\A m \in Messages :
       /\ Leased(m)
       /\ rows[m].holder # None
       /\ rows'[m].status \in {"pending", "dead"}
       => cons'[rows[m].holder] # cons[rows[m].holder]]_vars

\* A message is delivered at most max_attempts times and done only when a handler
\* succeeded with it, whatever is lost or crashes (queue.go:15-25, :198, :284).
DeliveryIsBounded == AttemptsAreSpent /\ DoneWasHandled
=============================================================================

------------------------------- MODULE Events -------------------------------
(***************************************************************************)
(* The event bus, for one topic: plugins publish, and plugins hold streams *)
(* that deliver what is published, a bounded number of streams each.       *)
(* Source: core/event/bus.go, core/hostsvc/adapters.go (BusEvents),        *)
(* core/hostsvc/rpc_runtime.go (Publish, Subscribe).                       *)
(***************************************************************************)
EXTENDS Naturals, FiniteSets, FiniteSetsExt, SequencesExt

CONSTANTS
  Streams,      \* streams
  Subscriber,   \* Subscriber[s]: the plugin that opens s
  Publishers,   \* goroutines that publish, one event after another
  StreamLimit,  \* MaxSubscriptionsPerPlugin
  BufferSize,   \* SubscriberBuffer
  MaxEvents     \* bound: events in a behaviour

VARIABLES
  streams,      \* streams[p]: the subscriptions that are counted for p
  listeners,    \* the streams the bus delivers to, in order
  feed,         \* feed[s]: [at, buffer]
  publish,      \* publish[g]: [event, todo], the streams it has yet to visit
  heard,        \* heard[s]: what was delivered
  owed,         \* owed[s]: what was published since s listens
  reported      \* reported[s]: drops that onDrop was called for

eventsVars == <<streams, listeners, feed, publish, heard, owed, reported>>

Subscribers == {Subscriber[s] : s \in Streams}
StreamsAt(places) == {s \in Streams : feed[s].at \in places}

EventsInit ==
  /\ streams = [p \in Subscribers |-> 0] /\ listeners = <<>>
  /\ feed = [s \in Streams |-> [at |-> "closed", buffer |-> <<>>]]
  /\ publish = [g \in Publishers |-> [event |-> 0, todo |-> <<>>]]
  /\ heard = [s \in Streams |-> <<>>]
  /\ owed = [s \in Streams |-> {}] /\ reported = [s \in Streams |-> {}]

\* Publishers read the list under the lock, for as long as they visit it.
Unlocked == \A g \in Publishers : publish[g].todo = <<>>

-----------------------------------------------------------------------------
(* Streams.                                                                *)

\* addSubscription.
SubscribeCounts(s) ==
  LET p == Subscriber[s] IN
  /\ feed[s].at = "closed"
  /\ streams' = [streams EXCEPT ![p] = @ + 1]
  /\ feed' = [feed EXCEPT ![s].at = IF streams[p] + 1 > StreamLimit THEN "refused" ELSE "counted"]
  /\ UNCHANGED <<listeners, publish, heard, owed, reported>>

SubscribeJoins(s) ==
  /\ feed[s].at = "counted" /\ Unlocked
  /\ listeners' = Append(listeners, s)
  /\ feed' = [feed EXCEPT ![s] = [at |-> "open", buffer |-> <<>>]]
  /\ UNCHANGED <<streams, publish, heard, owed, reported>>

\* The loop of Subscribe, and the stream to the plugin.
Delivers(s) ==
  /\ feed[s].at = "open" /\ feed[s].buffer # <<>>
  /\ heard' = [heard EXCEPT ![s] = Append(@, Head(feed[s].buffer))]
  /\ feed' = [feed EXCEPT ![s].buffer = Tail(@)]
  /\ UNCHANGED <<streams, listeners, publish, owed, reported>>

\* The context of the stream is done, or a delivery fails.
StreamEnds(s) ==
  /\ feed[s].at = "open"
  /\ feed' = [feed EXCEPT ![s].at = "ending"]
  /\ UNCHANGED <<streams, listeners, publish, heard, owed, reported>>

\* Unsubscribe, the first of the deferred calls.
Unsubscribes(s) ==
  /\ feed[s].at = "ending" /\ Unlocked
  /\ listeners' = RemoveFirst(listeners, s)
  /\ feed' = [feed EXCEPT ![s] = [at |-> "left", buffer |-> <<>>]]
  /\ heard' = [heard EXCEPT ![s] = <<>>]
  /\ owed' = [owed EXCEPT ![s] = {}] /\ reported' = [reported EXCEPT ![s] = {}]
  /\ UNCHANGED <<streams, publish>>

\* Mutant: a stream that was refused stays counted.
UncountsServed(s) ==
  /\ feed[s].at \in {"left", "refused"}
  /\ streams' = IF feed[s].at = "refused" THEN streams ELSE [streams EXCEPT ![Subscriber[s]] = @ - 1]
  /\ feed' = [feed EXCEPT ![s] = [at |-> "closed", buffer |-> <<>>]]
  /\ UNCHANGED <<listeners, publish, heard, owed, reported>>

\* removeSubscription, deferred or for a stream that was refused.
Uncounts(s) ==
  /\ feed[s].at \in {"left", "refused"}
  /\ streams' = [streams EXCEPT ![Subscriber[s]] = IF @ > 0 THEN @ - 1 ELSE @]
  /\ feed' = [feed EXCEPT ![s] = [at |-> "closed", buffer |-> <<>>]]
  /\ UNCHANGED <<listeners, publish, heard, owed, reported>>

-----------------------------------------------------------------------------
(* Publishing.                                                             *)

Published == MapThenSumSet(LAMBDA g : publish[g].event, Publishers)
Event(g) == <<g, publish[g].event>>

PublishStarts(g) ==
  /\ publish[g].todo = <<>> /\ Published < MaxEvents
  /\ publish' = [publish EXCEPT ![g] = [event |-> @.event + 1, todo |-> listeners]]
  /\ owed' = [s \in Streams |->
       IF s \in ToSet(listeners) THEN owed[s] \cup {<<g, publish[g].event + 1>>} ELSE owed[s]]
  /\ UNCHANGED <<streams, listeners, feed, heard, reported>>

Visited(g) == publish' = [publish EXCEPT ![g].todo = Tail(@)]

\* Mutants: one event too many in the buffer; the stream is not crossed off.
PublishSendsPast(g) ==
  /\ publish[g].todo # <<>>
  /\ LET s == Head(publish[g].todo) IN
     /\ Len(feed[s].buffer) <= BufferSize
     /\ feed' = [feed EXCEPT ![s].buffer = Append(@, Event(g))]
  /\ Visited(g)
  /\ UNCHANGED <<streams, listeners, heard, owed, reported>>
PublishSendsAgain(g) ==
  /\ publish[g].todo # <<>>
  /\ LET s == Head(publish[g].todo) IN
     /\ Len(feed[s].buffer) < BufferSize
     /\ feed' = [feed EXCEPT ![s].buffer = Append(@, Event(g))]
  /\ UNCHANGED <<streams, listeners, publish, heard, owed, reported>>

PublishSends(g) ==
  /\ publish[g].todo # <<>>
  /\ LET s == Head(publish[g].todo) IN
     /\ Len(feed[s].buffer) < BufferSize
     /\ feed' = [feed EXCEPT ![s].buffer = Append(@, Event(g))]
  /\ Visited(g)
  /\ UNCHANGED <<streams, listeners, heard, owed, reported>>

\* Mutant: a drop without a report.
PublishDropsQuietly(g) ==
  /\ publish[g].todo # <<>> /\ Len(feed[Head(publish[g].todo)].buffer) >= BufferSize
  /\ Visited(g)
  /\ UNCHANGED <<streams, listeners, feed, heard, owed, reported>>

\* A stream that is behind misses the event, and onDrop is called.
PublishDrops(g) ==
  /\ publish[g].todo # <<>>
  /\ LET s == Head(publish[g].todo) IN
     /\ Len(feed[s].buffer) >= BufferSize
     /\ reported' = [reported EXCEPT ![s] = @ \cup {Event(g)}]
  /\ Visited(g)
  /\ UNCHANGED <<streams, listeners, feed, heard, owed>>

EventsNext ==
  \/ \E s \in Streams :
       \/ SubscribeCounts(s) \/ SubscribeJoins(s) \/ Delivers(s)
       \/ StreamEnds(s) \/ Unsubscribes(s) \/ Uncounts(s)
  \/ \E g \in Publishers : PublishStarts(g) \/ PublishSends(g) \/ PublishDrops(g)

EventsSpec == EventsInit /\ [][EventsNext]_eventsVars

-----------------------------------------------------------------------------
(* Properties.                                                             *)

\* The variables have their types.
EventsTypeOK ==
  /\ streams \in [Subscribers -> 0..Cardinality(Streams)]
  /\ ToSet(listeners) \subseteq Streams
  /\ \A s \in Streams :
       /\ feed[s].at \in {"closed", "counted", "refused", "open", "ending", "left"}
       /\ Len(feed[s].buffer) <= BufferSize
  /\ \A g \in Publishers : publish[g].event \in 0..MaxEvents

\* The count of a plugin is that of its streams, and no more than the limit are
\* open, whichever of them end, fail or are refused together (adapters.go:102-109).
StreamsAreCounted ==
  \A p \in Subscribers :
    /\ streams[p] = Cardinality({s \in Streams \ StreamsAt({"closed"}) : Subscriber[s] = p})
    /\ Cardinality({s \in StreamsAt({"counted", "open", "ending", "left"}) : Subscriber[s] = p})
         <= StreamLimit

\* Each event is delivered to a stream that listens, waits for it, or its drop
\* is reported (bus.go:64-69, "dropping silently is not").
EveryEventIsAccounted ==
  \A s \in StreamsAt({"open"}) :
    owed[s] = ToSet(heard[s]) \cup ToSet(feed[s].buffer) \cup reported[s]
                \cup {Event(g) : g \in {h \in Publishers : s \in ToSet(publish[h].todo)}}

\* A stream hears the events of one publisher in the order they were published,
\* and each once.
HeardInOrder ==
  \A s \in Streams : \A i, j \in DOMAIN heard[s] :
    i < j /\ heard[s][i][1] = heard[s][j][1] => heard[s][i][2] < heard[s][j][2]

\* Streams are counted, and what they hear is complete up to what is reported,
\* in order (adapters.go:102-109, bus.go:64-69).
EventsAreAccounted == StreamsAreCounted /\ EveryEventIsAccounted /\ HeardInOrder
=============================================================================

----------------------------- MODULE TxRegistry -----------------------------
(***************************************************************************)
(* The transactions plugins hold open across calls.  Begin reserves a slot *)
(* under the lock, opens the transaction without it and stores it under    *)
(* the lock again; Commit and Rollback take the transaction out under the  *)
(* lock and finish it without; the reaper rolls back what has expired.     *)
(* Source: core/db/tx.go:76-333, core/hostsvc/data.go:180-190.             *)
(***************************************************************************)
EXTENDS Integers, FiniteSets

CONSTANTS
  Plugins,
  Calls,     \* calls of the registry that can be in progress at once
  TxIds,     \* transaction ids, each handed out once
  MaxOpen,   \* MaxOpenTxPerPlugin
  NoPlugin

ASSUME TxAssumption ==
  /\ IsFiniteSet(Calls) /\ IsFiniteSet(TxIds)
  /\ MaxOpen \in Nat
  /\ NoPlugin \notin Plugins

VARIABLES
  txs,      \* TxRegistry.txs: txs[id] is the owner of id, or NoPlugin
  expired,  \* the ids whose deadline has passed
  open,     \* TxRegistry.open: slots taken, by plugin
  call,     \* call[c]: the call c is in
  conn,     \* the ids that hold a database connection
  used,     \* the ids handed out so far
  closed    \* Close has been called

txVars == <<txs, expired, open, call, conn, used, closed>>

NoCall == [pc |-> "idle", plugin |-> NoPlugin, id |-> {}]

TxInit ==
  /\ txs = [id \in TxIds |-> NoPlugin]
  /\ expired = {}
  /\ open = [p \in Plugins |-> 0]
  /\ call = [c \in Calls |-> NoCall]
  /\ conn = {}
  /\ used = {}
  /\ closed = FALSE

\* The ids of p in the registry, and the calls of p that hold a slot for one.
Registered(p) == {id \in TxIds : txs[id] = p}

Pending(p) == {c \in Calls : call[c].pc \in {"begin", "store"} /\ call[c].plugin = p}

InCall(c, pc, p, ids) == call' = [call EXCEPT ![c] = [pc |-> pc, plugin |-> p, id |-> ids]]

EndCall(c) == call' = [call EXCEPT ![c] = NoCall]

\* Mutant: a slot too few.
LessWraps(n, k) == n - k - 1

\* A slot count never goes below zero.
Less(n, k) == IF n >= k THEN n - k ELSE 0

\* dropLocked for every id of ids.
Drop(ids) ==
  /\ txs' = [id \in TxIds |-> IF id \in ids THEN NoPlugin ELSE txs[id]]
  /\ open' = [p \in Plugins |-> Less(open[p], Cardinality(Registered(p) \cap ids))]

-----------------------------------------------------------------------------
\* Mutant: the check and the reservation are not one step (the count is taken
\* from the transactions that are stored).
BeginCounted(c, p) ==
  /\ call[c].pc = "idle"
  /\ Cardinality(Registered(p)) < MaxOpen
  /\ open' = [open EXCEPT ![p] = open[p] + 1]
  /\ InCall(c, "begin", p, {})
  /\ UNCHANGED <<txs, expired, conn, used, closed>>

Begin(c, p) ==
  /\ call[c].pc = "idle"
  /\ open[p] < MaxOpen
  /\ open' = [open EXCEPT ![p] = open[p] + 1]
  /\ InCall(c, "begin", p, {})
  /\ UNCHANGED <<txs, expired, conn, used, closed>>

\* BeginTx fails: the slot is released.
BeginFails(c) ==
  /\ call[c].pc = "begin"
  /\ open' = [open EXCEPT ![call[c].plugin] = Less(open[call[c].plugin], 1)]
  /\ EndCall(c)
  /\ UNCHANGED <<txs, expired, conn, used, closed>>

BeginTx(c, id) ==
  /\ call[c].pc = "begin"
  /\ id \notin used
  /\ conn' = conn \cup {id}
  /\ used' = used \cup {id}
  /\ InCall(c, "store", call[c].plugin, {id})
  /\ UNCHANGED <<txs, expired, open, closed>>

Store(c) ==
  /\ call[c].pc = "store"
  /\ txs' = [id \in TxIds |-> IF id \in call[c].id THEN call[c].plugin ELSE txs[id]]
  /\ EndCall(c)
  /\ UNCHANGED <<expired, open, conn, used, closed>>

\* The deadline of a stored transaction passes.
Expire(id) ==
  /\ txs[id] # NoPlugin
  /\ expired' = expired \cup {id}
  /\ UNCHANGED <<txs, open, call, conn, used, closed>>

\* A lookup changes something only when it finds that the deadline has passed.
Lookup(p, id) ==
  /\ txs[id] = p /\ id \in expired
  /\ Drop({id})
  /\ conn' = conn \ {id}
  /\ UNCHANGED <<expired, call, used, closed>>

\* Commit or Rollback: take, which does not look at the deadline.
Take(c, p, id) ==
  /\ call[c].pc = "idle"
  /\ txs[id] = p
  /\ Drop({id})
  /\ InCall(c, "finish", p, {id})
  /\ UNCHANGED <<expired, conn, used, closed>>

\* The transaction is committed or rolled back; an error ends it as well.
Finish(c) ==
  /\ call[c].pc = "finish"
  /\ conn' = conn \ call[c].id
  /\ EndCall(c)
  /\ UNCHANGED <<txs, expired, open, used, closed>>

\* Mutant: expired transactions are forgotten without being rolled back.
ReapForgets ==
  LET Overdue == {id \in expired : txs[id] # NoPlugin}
  IN /\ Overdue # {}
     /\ Drop(Overdue)
     /\ UNCHANGED <<expired, call, conn, used, closed>>

\* Mutant: the reaper takes only the transactions of a plugin at its ceiling.
ReapCrowded ==
  LET Overdue == {id \in expired : txs[id] \in {p \in Plugins : open[p] >= MaxOpen}}
  IN /\ Overdue # {}
     /\ Drop(Overdue)
     /\ conn' = conn \ Overdue
     /\ UNCHANGED <<expired, call, used, closed>>

\* A tick that is already due may still be taken after Close.
ReapExpired ==
  LET Overdue == {id \in expired : txs[id] # NoPlugin}
  IN /\ Overdue # {}
     /\ Drop(Overdue)
     /\ conn' = conn \ Overdue
     /\ UNCHANGED <<expired, call, used, closed>>

Close ==
  LET All == {id \in TxIds : txs[id] # NoPlugin}
  IN /\ closed' = TRUE
     /\ Drop(All)
     /\ conn' = conn \ All
     /\ UNCHANGED <<expired, call, used>>

TxCallStep(c) ==
  \/ BeginFails(c) \/ Store(c) \/ Finish(c)
  \/ \E id \in TxIds : BeginTx(c, id)

TxNext ==
  \/ \E c \in Calls, p \in Plugins :
       Begin(c, p) \/ \E id \in TxIds : Take(c, p, id)
  \/ \E c \in Calls : TxCallStep(c)
  \/ \E id \in TxIds : Expire(id) \/ \E p \in Plugins : Lookup(p, id)
  \/ ReapExpired \/ Close

TxSpec == TxInit /\ [][TxNext]_txVars

-----------------------------------------------------------------------------
(* Properties.                                                             *)

\* The variables have their types.
TxTypeOK ==
  /\ txs \in [TxIds -> Plugins \cup {NoPlugin}]
  /\ expired \subseteq TxIds /\ conn \subseteq TxIds /\ used \subseteq TxIds
  /\ open \in [Plugins -> Nat]
  /\ call \in [Calls -> [pc : {"idle", "begin", "store", "finish"},
                         plugin : Plugins \cup {NoPlugin}, id : SUBSET TxIds]]
  /\ closed \in BOOLEAN

\* The slots a plugin has taken are exactly its transactions in the registry and
\* the calls that are opening one, and never more than the ceiling, also when
\* calls begin at the same time (tx.go:94-104, :183-187).
SlotsAreExact ==
  \A p \in Plugins :
    /\ open[p] = Cardinality(Registered(p)) + Cardinality(Pending(p))
    /\ open[p] <= MaxOpen

\* Every open connection belongs to a transaction in the registry or to exactly
\* one call that is storing or finishing it: none is leaked and none is
\* finished twice.
ConnectionsAreOwned ==
  \A id \in TxIds :
    LET Holders == {c \in Calls : id \in call[c].id}
    IN /\ txs[id] # NoPlugin => id \in conn /\ Holders = {}
       /\ txs[id] = NoPlugin /\ id \in conn => \E c \in Calls : Holders = {c}
       /\ id \notin conn => Holders = {}

\* A transaction its plugin abandons does not pin its connection for ever
\* (tx.go:82-87), as long as the registry is not closed: the ids are handed out
\* once, so that in the end all connections are back.
AbandonedIsRolledBack == <>[](conn = {} \/ closed)

\* The registry neither leaks nor overbooks: slots are exact and within the
\* ceiling, and each connection has one owner (tx.go:94-104, :183-187, :280-300).
TxIsSafe == SlotsAreExact /\ ConnectionsAreOwned
=============================================================================

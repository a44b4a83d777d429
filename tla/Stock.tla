------------------------------- MODULE Stock -------------------------------
(***************************************************************************)
(* The inventory example: reservations made in a transaction, restocks by  *)
(* optimistic locking, and an operator who overwrites the item, all on one *)
(* document of the store.  PostgreSQL reads what is committed; an update   *)
(* waits for the transaction that has written the row and then compares the *)
(* version.  A transaction whose plugin has died keeps its row until the   *)
(* reaper ends it (module TxRegistry).  Source:                            *)
(* extension-example/inventory/main.go, core/db/tx.go (PutVersioned,       *)
(* GetVersioned), sdk/plugin/host.go (Tx), core/hostsvc/rpc_data.go.       *)
(***************************************************************************)
EXTENDS Integers, FiniteSets

CONSTANTS
  Reserves, Restocks,  \* the requests
  Qty,                 \* Qty[r]: how much r asks for
  Items,               \* what an operator may put
  MaxReserveAttempts, MaxRestockAttempts,
  MaxVersion,          \* bound on the writes of an operator
  NoOne

StockRequests == Reserves \cup Restocks

ASSUME StockAssumption ==
  /\ IsFiniteSet(StockRequests) /\ NoOne \notin StockRequests
  /\ Qty \in [StockRequests -> Nat \ {0}]
  /\ Items \subseteq [onHand : Nat, reserved : Nat]
  /\ {MaxReserveAttempts, MaxRestockAttempts} \subseteq Nat \ {0}

VARIABLES
  row,     \* the item's document; version 0 when there is none
  holder,  \* the transaction that has written the row and is not over
  ask,     \* ask[r]: [at, attempt, seen] of request r
  sale,    \* sale[r]: what the reservation documents of r add up to
  ledger   \* what the item would be had the requests come one by one

stockVars == <<row, holder, ask, sale, ledger>>

NoItem == [onHand |-> 0, reserved |-> 0, version |-> 0]
Level(d) == [onHand |-> d.onHand, reserved |-> d.reserved]
Write(level, v) == [onHand |-> level.onHand, reserved |-> level.reserved, version |-> v + 1]

\* The answers, as the handler words them.
Answers == {"created", "ok", "short", "not found", "busy", "conflict", "error"}

\* Where a reservation has a transaction open.
InTx == {"read", "write", "insert", "commit", "dead"}

StockInit ==
  /\ row = NoItem /\ ledger = Level(NoItem)
  /\ holder = NoOne
  /\ ask = [r \in StockRequests |-> [at |-> "start", attempt |-> 1, seen |-> NoItem]]
  /\ sale = [r \in StockRequests |-> 0]

To(r, at) == ask' = [ask EXCEPT ![r].at = at]
Sees(r, at) == ask' = [ask EXCEPT ![r].at = at, ![r].seen = row]

\* The rollback of r's transaction.
Freed(r) == IF holder = r THEN NoOne ELSE holder

-----------------------------------------------------------------------------
(* reserve and reserveOnce.                                                *)

\* Mutant: the last attempt is followed by another.
AgainOneMore(r, last, given) ==
  ask' = [ask EXCEPT ![r].at = IF ask[r].attempt > last THEN given ELSE "start",
                     ![r].attempt = @ + 1, ![r].seen = NoItem]

\* The retry loop: once more, or the answer that gives up.
Again(r, last, given) ==
  ask' = [ask EXCEPT ![r].at = IF ask[r].attempt = last THEN given ELSE "start",
                     ![r].attempt = IF @ = last THEN @ ELSE @ + 1, ![r].seen = NoItem]

\* BeginTx; at its ceiling the plugin is told to come back.
StockBegin(r) ==
  /\ r \in Reserves /\ ask[r].at = "start"
  /\ To(r, "read") \/ Again(r, MaxReserveAttempts, "busy")
  /\ UNCHANGED <<row, holder, sale, ledger>>

\* Mutant: what is reserved counts as available.
AvailableAll(d) == d.onHand

Available(d) == d.onHand - d.reserved

\* Get in the transaction, and the decision on what it returned.
TxGet(r) ==
  /\ ask[r].at = "read"
  /\ Sees(r, IF row.version = 0 THEN "not found"
             ELSE IF Available(row) < Qty[r] THEN "short" ELSE "write")
  /\ UNCHANGED <<row, holder, sale, ledger>>

\* Mutant: the write does not compare versions.
TxPutBlind(r) ==
  /\ ask[r].at = "write" /\ holder = NoOne
  /\ holder' = r /\ To(r, "insert")
  /\ UNCHANGED <<row, sale, ledger>>

\* PutIfVersion in the transaction: it waits for the row, and is refused when
\* the version has moved.
TxPutIfVersion(r) ==
  /\ ask[r].at = "write" /\ holder = NoOne
  /\ \/ row.version = ask[r].seen.version /\ holder' = r /\ To(r, "insert")
     \/ row.version # ask[r].seen.version /\ Again(r, MaxReserveAttempts, "busy")
        /\ UNCHANGED holder
  /\ UNCHANGED <<row, sale, ledger>>

\* Put of the reservation document.
TxPut(r) ==
  /\ ask[r].at = "insert" /\ To(r, "commit")
  /\ UNCHANGED <<row, holder, sale, ledger>>

Taken(level, qty) == [level EXCEPT !.reserved = @ + qty]

\* Mutant: a commit whose answer is lost is tried again.
CommitAgain(r) ==
  /\ ask[r].at = "commit" /\ holder = r
  /\ row' = Write(Taken(Level(ask[r].seen), Qty[r]), row.version)
  /\ sale' = [sale EXCEPT ![r] = @ + Qty[r]]
  /\ ledger' = Taken(ledger, Qty[r])
  /\ holder' = NoOne
  /\ To(r, "created") \/ Again(r, MaxReserveAttempts, "busy")

\* CommitTx makes both documents visible; its answer can be lost.
CommitTx(r) ==
  /\ ask[r].at = "commit" /\ holder = r
  /\ row' = Write(Taken(Level(ask[r].seen), Qty[r]), row.version)
  /\ sale' = [sale EXCEPT ![r] = @ + Qty[r]]
  /\ ledger' = Taken(ledger, Qty[r])
  /\ holder' = NoOne
  /\ To(r, "created") \/ To(r, "error")

\* A call fails, or finds that the reaper has ended the transaction; Tx rolls
\* back what is left of it.
TxFails(r) ==
  /\ ask[r].at \in InTx \ {"dead"} /\ To(r, "error")
  /\ holder' = Freed(r)
  /\ UNCHANGED <<row, sale, ledger>>

\* The plugin's process ends within the transaction, or the request's context,
\* and the rollback with it.
Dies(r) ==
  /\ ask[r].at \in InTx \ {"dead"} /\ To(r, "dead")
  /\ UNCHANGED <<row, holder, sale, ledger>>

\* Mutant: the reaper leaves what has written.
ReapsReaders(r) ==
  /\ ask[r].at = "dead" /\ holder # r /\ To(r, "error")
  /\ UNCHANGED <<row, holder, sale, ledger>>

\* The reaper ends what nobody will commit.
Reaps(r) ==
  /\ ask[r].at = "dead" /\ To(r, "error")
  /\ holder' = Freed(r)
  /\ UNCHANGED <<row, sale, ledger>>

-----------------------------------------------------------------------------
(* restock and putItem: no transaction.                                    *)

RestockGet(r) ==
  /\ r \in Restocks /\ ask[r].at = "start"
  /\ Sees(r, IF row.version = 0 THEN "not found" ELSE "update") \/ To(r, "error")
  /\ UNCHANGED <<row, holder, sale, ledger>>

Added(level, qty) == [level EXCEPT !.onHand = @ + qty]

\* PutIfVersion; the answer to a write can be lost.
RestockPut(r) ==
  /\ ask[r].at = "update" /\ holder = NoOne
  /\ \/ /\ row.version = ask[r].seen.version
        /\ row' = Write(Added(Level(ask[r].seen), Qty[r]), row.version)
        /\ ledger' = Added(ledger, Qty[r])
        /\ To(r, "ok") \/ To(r, "error")
     \/ /\ row.version # ask[r].seen.version
        /\ Again(r, MaxRestockAttempts, "conflict")
        /\ UNCHANGED <<row, ledger>>
  /\ UNCHANGED <<holder, sale>>

RestockFails(r) ==
  /\ ask[r].at = "update" /\ To(r, "error")
  /\ UNCHANGED <<row, holder, sale, ledger>>

\* putItem: a Put without a version replaces the document, whatever it is.
PutItem(item) ==
  /\ holder = NoOne /\ row.version < MaxVersion
  /\ row' = Write(item, row.version)
  /\ ledger' = item
  /\ UNCHANGED <<holder, ask, sale>>

-----------------------------------------------------------------------------
StockStep(r) ==
  \/ StockBegin(r) \/ TxGet(r) \/ TxPutIfVersion(r) \/ TxPut(r) \/ CommitTx(r)
  \/ RestockGet(r) \/ RestockPut(r)

StockNext ==
  \/ \E r \in StockRequests :
       StockStep(r) \/ TxFails(r) \/ RestockFails(r) \/ Dies(r) \/ Reaps(r)
  \/ \E item \in Items : PutItem(item)

StockSpec == StockInit /\ [][StockNext]_stockVars

-----------------------------------------------------------------------------
(* Properties.                                                             *)

\* The variables have their types, and the attempts their bounds.
StockTypeOK ==
  /\ row \in [onHand : Nat, reserved : Nat, version : Nat]
  /\ ledger \in [onHand : Nat, reserved : Nat]
  /\ holder \in Reserves \cup {NoOne}
  /\ sale \in [StockRequests -> Nat]
  /\ \A r \in StockRequests :
       /\ ask[r].at \in {"start", "update"} \cup InTx \cup Answers
       /\ ask[r].attempt \in 1..(IF r \in Reserves THEN MaxReserveAttempts
                                 ELSE MaxRestockAttempts)

\* No update is lost: the document is what the committed requests add up to,
\* whoever read it when (inventory/main.go:90-96, :247-249).
NoUpdateIsLost == Level(row) = ledger

\* A reservation is only made of stock that is there at the moment it is
\* committed (inventory/main.go:4-8).
NothingIsOversold ==
  [][sale # sale' => row'.reserved <= row'.onHand]_stockVars

\* A request that is told there is nothing, or to come back, has taken nothing,
\* and one that is told it has its stock has it once, over all its attempts
\* (inventory/main.go:117-157).
AnswersAreTrue ==
  \A r \in Reserves :
    /\ ask[r].at = "created" => sale[r] = Qty[r]
    /\ ask[r].at \in {"short", "not found", "busy"} => sale[r] = 0
    /\ sale[r] <= Qty[r]

\* Every request that has begun is answered: retries are bounded, and a row is
\* not held for ever by a transaction whose owner has died
\* (inventory/main.go:177-179).
EveryRequestIsAnswered ==
  <>[](\A r \in StockRequests : ask[r].at \in Answers \cup {"start"})

\* The stock adds up under concurrent reservations, restocks and edits: no update
\* is lost, no request is told what did not happen, and nothing is sold twice
\* (inventory/main.go:4-8, :90-96).
StockAddsUp == [](NoUpdateIsLost /\ AnswersAreTrue) /\ NothingIsOversold
=============================================================================

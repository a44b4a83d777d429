----------------------------- MODULE Documents -----------------------------
(***************************************************************************)
(* The document store as a plugin sees it: calls of the SDK, the checks    *)
(* and error codes of Core's service, and the statements they end in.  One *)
(* document, "counter", is read and written back under its version; two    *)
(* others, "doc" and "index", are written together by batches.  Each       *)
(* client makes one call, or runs one transaction, at a time.  PostgreSQL  *)
(* is modelled by its row locks, at the isolation level read committed.    *)
(* Source: sdk/plugin/host.go, sdk/plugin/errors.go, core/hostsvc/         *)
(* server.go, rpc_data.go and data.go, core/db/tx.go.                      *)
(***************************************************************************)
EXTENDS Integers, FiniteSets

CONSTANTS
  DocClients,  \* callers of one plugin
  MaxDocTx,    \* maxOpen of the registry of transactions
  MaxStamp,    \* bound: writes in a behaviour
  MaxBatch     \* bound: the last of them that may be a batch

ASSUME DocumentsAssumption == MaxStamp \in Nat \ {0} /\ MaxBatch \in 0..MaxStamp

VARIABLES
  grants,      \* permissions the plugin was granted
  configured,  \* Core runs with a database
  documents,   \* documents[d]: the committed document d
  stamp,       \* the number of writes so far, the first of them before
  tx,          \* tx[c]: the transaction of c in Core, with the rows it wrote
  caller,      \* caller[c]: where c is in its call or transaction
  seen,        \* seen[c]: the counter as c read it last
  exact,       \* no conditional write replaced what its caller had not read
  raced        \* the deletes of a batch found one of the pair without the other

docVars == <<grants, configured, documents, stamp, tx, caller, seen, exact, raced>>

Pair == {"doc", "index"}
DocNames == {"counter"} \cup Pair

\* version is the column; edition and born tell contents apart that it does not:
\* the write that made them and the one that made their document.
NoDoc == [version |-> 0, edition |-> 0, born |-> 0]
Unwritten == [version |-> -1, edition |-> 0, born |-> 0]
NoRows == [d \in DocNames |-> Unwritten]

\* The row after the write n.
Upserted(row, n) ==
  [version |-> row.version + 1, edition |-> n, born |-> IF row = NoDoc THEN n ELSE row.born]

NoTx == [at |-> "none", rows |-> NoRows]
NoCall == [at |-> "idle", told |-> "ok", wrote |-> FALSE, applied |-> FALSE]

\* Every document was written before, or none.
DocumentsInit ==
  /\ grants \in SUBSET {"db", "db:tx"} /\ configured \in BOOLEAN
  /\ \E row \in {NoDoc, Upserted(NoDoc, 1)} : documents = [d \in DocNames |-> row]
  /\ stamp = 1
  /\ tx = [c \in DocClients |-> NoTx]
  /\ caller = [c \in DocClients |-> NoCall]
  /\ seen = [c \in DocClients |-> NoDoc]
  /\ exact = TRUE /\ raced = FALSE

-----------------------------------------------------------------------------
(* Errors: what Core's code returns, the status it answers with, and the   *)
(* sentinel the SDK makes of it.                                           *)

dataErr(err) ==
  CASE err = "nil" -> "OK"
    [] err = "conflict" -> "Aborted"
    [] err = "too many" -> "ResourceExhausted"
    [] err = "unknown tx" -> "FailedPrecondition"
    [] OTHER -> "Internal"

\* The statuses with a sentinel: ErrVersionConflict, ErrTxExpired, ErrNotAllowed and
\* ErrRateLimited.
Sentinels == {"Aborted", "FailedPrecondition", "PermissionDenied", "ResourceExhausted"}

hostErr(code) == IF code = "OK" THEN "ok" ELSE IF code \in Sentinels THEN "sentinel" ELSE "error"

require(perm) == perm \in grants
requireTx(c) == caller[c].at = "fn" => require("db:tx")
dataBackend == configured

\* The status a call of c is refused with, before it reaches the store.
Refusal(c) ==
  IF ~require("db") \/ ~requireTx(c) THEN "PermissionDenied"
  ELSE IF ~dataBackend THEN "Unavailable" ELSE "OK"

-----------------------------------------------------------------------------
(* Statements.                                                             *)

InTx(c) == caller[c].at = "fn"
InBatch(c) == caller[c].at \in {"puts", "deletes", "batched"}
Wrote(c, d) == tx[c].rows[d] # Unwritten

\* Lookup; without a transaction the pool is used.
execFor(c) == IF InTx(c) /\ tx[c].at \notin {"open", "aborted"} THEN "unknown tx" ELSE "nil"

\* What c's statements see: what its transaction wrote, and what is committed.
Sees(c) ==
  [d \in DocNames |->
     IF (InTx(c) \/ InBatch(c)) /\ Wrote(c, d) THEN tx[c].rows[d] ELSE documents[d]]

\* Another transaction wrote the row and has not ended; for a statement outside
\* of one, that may be a transaction that c has left to the reaper.
Locked(c, d) == \E o \in DocClients : Wrote(o, d) /\ ~(o = c /\ (InTx(c) \/ InBatch(c)))

\* Mutant: the version is not compared.
PutUnversioned(row, expected, n) ==
  IF expected = 0 \/ row # NoDoc
  THEN [err |-> "nil", row |-> Upserted(row, n)] ELSE [err |-> "conflict", row |-> row]

\* A version of 0 makes the write unconditional.
PutVersioned(row, expected, n) ==
  IF expected = 0 \/ (row # NoDoc /\ row.version = expected)
  THEN [err |-> "nil", row |-> Upserted(row, n)] ELSE [err |-> "conflict", row |-> row]

DeleteIn(row) == [err |-> "nil", row |-> NoDoc]

-----------------------------------------------------------------------------
(* Calls.                                                                  *)

\* A call outside of a transaction begins anew what is told of it.
Told(c, answer) ==
  IF InTx(c)
  THEN [caller[c] EXCEPT !.told = answer, !.at = IF answer = "ok" THEN "fn" ELSE "rollback"]
  ELSE [NoCall EXCEPT !.told = answer]

\* Core refuses the call, or finds the transaction gone.  Delete in a transaction
\* passes the status on as it is.
CallRefused(c) ==
  /\ caller[c].at \in {"idle", "fn"}
  /\ LET code == IF Refusal(c) # "OK" THEN Refusal(c) ELSE dataErr(execFor(c))
         plain == IF InTx(c) THEN {"error"} ELSE {}
     IN /\ code # "OK"
        /\ \E answer \in {hostErr(code)} \cup plain : caller' = [caller EXCEPT ![c] = Told(c, answer)]
  /\ UNCHANGED <<grants, configured, documents, stamp, tx, seen, exact, raced>>

CallPasses(c) ==
  caller[c].at \in {"idle", "fn"} /\ Refusal(c) = "OK" /\ execFor(c) = "nil"

Aborted(c) == InTx(c) /\ tx[c].at = "aborted"

\* The statement fails, a wait for a lock that ends included; PostgreSQL aborts
\* the transaction it was part of, and refuses what follows in it.
CallFails(c) ==
  /\ CallPasses(c)
  /\ caller' = [caller EXCEPT ![c] = Told(c, hostErr(dataErr("fault")))]
  /\ tx' = IF InTx(c) THEN [tx EXCEPT ![c].at = "aborted"] ELSE tx
  /\ UNCHANGED <<grants, configured, documents, stamp, seen, exact, raced>>

\* The row d becomes row, at once or in the transaction of c.
WritesRow(c, d, row) ==
  /\ documents' = IF InTx(c) THEN documents ELSE [documents EXCEPT ![d] = row]
  /\ tx' = IF InTx(c) THEN [tx EXCEPT ![c].rows[d] = row] ELSE tx

\* A statement that writes d ends with result; its answer may be lost.
Statement(c, d, result, lost) ==
  LET changes == result.err = "nil" /\ result.row # Sees(c)[d]
      answer == IF lost THEN "error" ELSE hostErr(dataErr(result.err))
  IN /\ CallPasses(c) /\ ~Aborted(c) /\ ~Locked(c, d)
     /\ IF changes THEN WritesRow(c, d, result.row) /\ stamp' = stamp + 1
        ELSE UNCHANGED <<documents, tx, stamp>>
     /\ caller' = [caller EXCEPT ![c] =
          [Told(c, answer) EXCEPT !.wrote = @ \/ changes, !.applied = @ \/ (changes /\ ~InTx(c))]]
     /\ UNCHANGED <<grants, configured, seen, raced>>

\* The counter is written if its version is the expected one.
Puts(c, expected, lost) ==
  LET row == Sees(c)["counter"]
      result == PutVersioned(row, expected, stamp + 1)
  IN /\ stamp < MaxStamp
     /\ Statement(c, "counter", result, lost)
     /\ exact' = (exact /\ (result.err = "nil" /\ expected # 0 /\ row.born = seen[c].born
                             => row.edition = seen[c].edition))

Put(c, lost) == ~InTx(c) /\ Puts(c, 0, lost)

\* What Get returned is written back: its version is 0 where it found nothing.
PutIfVersion(c, lost) == ~InTx(c) /\ Puts(c, seen[c].version, lost)

TxPut(c, lost) == InTx(c) /\ \E expected \in {0, seen[c].version} : Puts(c, expected, lost)

Deletes(c, lost) ==
  /\ stamp < MaxStamp
  /\ Statement(c, "counter", DeleteIn(Sees(c)["counter"]), lost)
  /\ UNCHANGED exact

DeleteDoc(c, lost) == ~InTx(c) /\ Deletes(c, lost)

TxDelete(c, lost) == InTx(c) /\ Deletes(c, lost)

Reads(c) ==
  /\ CallPasses(c) /\ ~Aborted(c)
  /\ seen' = [seen EXCEPT ![c] = Sees(c)["counter"]]
  /\ caller' = [caller EXCEPT ![c] = Told(c, "ok")]
  /\ UNCHANGED <<grants, configured, documents, stamp, tx, exact, raced>>

GetDoc(c) == ~InTx(c) /\ Reads(c)

TxGet(c) == InTx(c) /\ Reads(c)

-----------------------------------------------------------------------------
(* Transactions of the plugin.                                             *)

\* The transactions in the registry; a batch that opens its own has none there.
OpenTx == {c \in DocClients : tx[c].at \in {"open", "aborted"} /\ ~InBatch(c)}

\* The transaction of c ends, and nothing of it is stored.  What c had read of its
\* own writes is then newer than what is stored: it keeps its version and belongs
\* to no document.
Unstored(c) ==
  IF seen[c].edition > documents["counter"].edition
  THEN [NoDoc EXCEPT !.version = seen[c].version] ELSE seen[c]

RollsBack(c) ==
  tx' = [tx EXCEPT ![c] = NoTx] /\ seen' = [seen EXCEPT ![c] = Unstored(c)]

\* Tx begins, while other callers of the plugin may have all but one of its
\* transactions; where the answer is lost, it is left to the reaper.
BeginTx(c, lost) == \E others \in 0..MaxDocTx - 1 :
  /\ caller[c].at = "idle" /\ tx[c] = NoTx
  /\ LET code == IF ~require("db:tx") THEN "PermissionDenied"
                 ELSE IF ~dataBackend THEN "Unavailable"
                 ELSE dataErr(IF Cardinality(OpenTx) + others >= MaxDocTx THEN "too many" ELSE "nil")
     IN /\ tx' = IF code = "OK" THEN [tx EXCEPT ![c].at = "open"] ELSE tx
        /\ caller' = [caller EXCEPT ![c] =
             IF code = "OK" /\ ~lost THEN [NoCall EXCEPT !.at = "fn"]
             ELSE [NoCall EXCEPT !.told = IF lost THEN "error" ELSE hostErr(code)]]
  /\ UNCHANGED <<grants, configured, documents, stamp, seen, exact, raced>>

\* The function of the transaction returns an error of its own, or panics.
FnFails(c) ==
  /\ caller[c].at = "fn"
  /\ caller' = [caller EXCEPT ![c] = Told(c, "error")]
  /\ UNCHANGED <<grants, configured, documents, stamp, tx, seen, exact, raced>>

\* CommitTx, after the function returned no error.  A transaction that is gone,
\* or that a failed statement aborted, is not committed.
CommitTx(c) ==
  /\ caller[c].at = "fn"
  /\ IF tx[c].at = "open"
     THEN /\ tx' = [tx EXCEPT ![c] = NoTx] /\ documents' = Sees(c) /\ UNCHANGED seen
          /\ caller' = [caller EXCEPT ![c].at = "idle", ![c].applied = caller[c].wrote]
     ELSE /\ RollsBack(c) /\ UNCHANGED documents
          /\ caller' = [caller EXCEPT ![c].at = "rollback", ![c].told = "error"]
  /\ UNCHANGED <<grants, configured, stamp, exact, raced>>

\* The commit fails, or its answer is lost: whether it happened is not known.
CommitInDoubt(c) ==
  /\ caller[c].at \in {"fn", "batched"} /\ tx[c].at = "open"
  /\ \E done \in BOOLEAN :
       /\ IF done THEN tx' = [tx EXCEPT ![c] = NoTx] /\ documents' = Sees(c) /\ UNCHANGED seen
          ELSE RollsBack(c) /\ UNCHANGED documents
       /\ caller' = [caller EXCEPT ![c].at = IF caller[c].at = "fn" THEN "rollback" ELSE "idle",
                                     ![c].told = "error", ![c].applied = done /\ caller[c].wrote]
  /\ UNCHANGED <<grants, configured, stamp, exact, raced>>

\* The deferred RollbackTx, which reaches Core or not.
RollbackTx(c) ==
  /\ caller[c].at = "rollback"
  /\ RollsBack(c) \/ UNCHANGED <<tx, seen>>
  /\ caller' = [caller EXCEPT ![c].at = "idle"]
  /\ UNCHANGED <<grants, configured, documents, stamp, exact, raced>>

\* The deadline passes: the reaper or the next Lookup rolls the transaction back.
TxExpires(c) ==
  /\ tx[c].at \in {"open", "aborted"} /\ ~InBatch(c)
  /\ RollsBack(c)
  /\ UNCHANGED <<grants, configured, documents, stamp, caller, exact, raced>>

\* Core ends, and with it every transaction and every call under way.
CoreEnds ==
  /\ \E c \in DocClients : tx[c] # NoTx
  /\ tx' = [c \in DocClients |-> NoTx] /\ seen' = [c \in DocClients |-> Unstored(c)]
  /\ caller' = [c \in DocClients |->
       IF InBatch(c) THEN [caller[c] EXCEPT !.at = "idle", !.told = "error"]
       ELSE caller[c]]
  /\ UNCHANGED <<grants, configured, documents, stamp, exact, raced>>

-----------------------------------------------------------------------------
(* Batches, of two puts or two deletes.                                    *)

\* A put finds or makes its row; a delete that finds none touches, and locks, none.
Touches(c, d, delete) == ~delete \/ Sees(c)[d] # NoDoc

\* What the transaction has written of d after an operation of batch n.
Applied(c, d, delete, n) ==
  IF ~Touches(c, d, delete) THEN tx[c].rows[d]
  ELSE IF delete THEN DeleteIn(Sees(c)[d]).row ELSE PutVersioned(Sees(c)[d], 0, n).row

\* Whether the batch, of deletes, finds one row and not the other.
Races(c, delete, found) == delete /\ found # (Sees(c)["index"] # NoDoc)

\* BatchWrite without a transaction opens its own; the first operation follows.
BatchWrite(c, delete) ==
  /\ caller[c].at = "idle" /\ tx[c] = NoTx /\ Refusal(c) = "OK" /\ stamp < MaxBatch
  /\ ~Locked(c, "doc")
  /\ tx' = [tx EXCEPT ![c].at = "open", ![c].rows["doc"] = Applied(c, "doc", delete, stamp + 1)]
  /\ stamp' = stamp + 1
  /\ caller' = [caller EXCEPT ![c] =
       [NoCall EXCEPT !.at = IF delete THEN "deletes" ELSE "puts", !.wrote = Touches(c, "doc", delete)]]
  /\ UNCHANGED <<grants, configured, documents, seen, exact, raced>>

applyBatch(c) ==
  LET delete == caller[c].at = "deletes"
      row == Applied(c, "index", delete, tx[c].rows["doc"].edition)
  IN /\ caller[c].at \in {"puts", "deletes"} /\ ~Locked(c, "index")
     /\ tx' = [tx EXCEPT ![c].rows["index"] = row]
     /\ raced' = (raced \/ Races(c, delete, Wrote(c, "doc")))
     /\ caller' = [caller EXCEPT ![c].at = "batched", ![c].wrote = @ \/ Touches(c, "index", delete)]
     /\ UNCHANGED <<grants, configured, documents, stamp, seen, exact>>

\* An operation fails, and the deferred Rollback follows.
BatchFails(c) ==
  /\ InBatch(c)
  /\ RollsBack(c)
  /\ caller' = [caller EXCEPT ![c].at = "idle", ![c].told = hostErr(dataErr("fault"))]
  /\ UNCHANGED <<grants, configured, documents, stamp, exact, raced>>

BatchCommits(c) ==
  /\ caller[c].at = "batched"
  /\ documents' = Sees(c)
  /\ tx' = [tx EXCEPT ![c] = NoTx]
  /\ caller' = [caller EXCEPT ![c].at = "idle", ![c].applied = caller[c].wrote]
  /\ UNCHANGED <<grants, configured, stamp, seen, exact, raced>>

\* In a transaction of the plugin a batch joins it; a failure at the second
\* operation leaves the first to a transaction that is aborted.
BatchInTx(c, delete, fails) ==
  LET first == Applied(c, "doc", delete, stamp + 1)
      second == IF fails THEN tx[c].rows["index"] ELSE Applied(c, "index", delete, stamp + 1)
  IN /\ caller[c].at = "fn" /\ CallPasses(c) /\ tx[c].at = "open" /\ stamp < MaxBatch
     /\ \A d \in Pair : ~Locked(c, d)
     /\ tx' = [tx EXCEPT ![c].at = IF fails THEN "aborted" ELSE "open",
                         ![c].rows["doc"] = first, ![c].rows["index"] = second]
     /\ stamp' = stamp + 1
     /\ raced' = (raced \/ (~fails /\ Races(c, delete, Touches(c, "doc", delete))))
     /\ caller' = [caller EXCEPT ![c] =
          [Told(c, IF fails THEN hostErr(dataErr("fault")) ELSE "ok") EXCEPT
             !.wrote = @ \/ Touches(c, "doc", delete) \/ (~fails /\ Touches(c, "index", delete))]]
     /\ UNCHANGED <<grants, configured, documents, seen, exact>>

-----------------------------------------------------------------------------
DocumentsNext ==
  \/ \E c \in DocClients :
       \/ CallRefused(c) \/ CallFails(c) \/ GetDoc(c) \/ TxGet(c)
       \/ \E lost \in BOOLEAN :
            \/ Put(c, lost) \/ PutIfVersion(c, lost) \/ DeleteDoc(c, lost)
            \/ BeginTx(c, lost) \/ TxPut(c, lost) \/ TxDelete(c, lost)
       \/ FnFails(c) \/ CommitTx(c) \/ CommitInDoubt(c) \/ RollbackTx(c) \/ TxExpires(c)
       \/ \E delete \in BOOLEAN : BatchWrite(c, delete) \/ \E fails \in BOOLEAN : BatchInTx(c, delete, fails)
       \/ applyBatch(c) \/ BatchFails(c) \/ BatchCommits(c)
  \/ CoreEnds

DocumentsSpec == DocumentsInit /\ [][DocumentsNext]_docVars

-----------------------------------------------------------------------------
(* Properties.                                                             *)

\* The variables have their types.
DocumentsTypeOK ==
  /\ stamp \in 1..MaxStamp /\ exact \in BOOLEAN
  /\ \A d \in DocNames : documents[d].version \in 0..MaxStamp /\ documents[d].born <= documents[d].edition
  /\ \A c \in DocClients :
       /\ tx[c].at \in {"none", "open", "aborted"} /\ DOMAIN tx[c].rows = DocNames
       /\ caller[c].at \in {"idle", "fn", "rollback", "puts", "deletes", "batched"}
       /\ caller[c].told \in {"ok", "sentinel", "error"}

\* A document and its index entry, written by batches, are there together and of
\* one batch: "cannot end up with one of them" (tx.go:438-440), whichever
\* operation fails and wherever Core ends.  Batches are atomic and not isolated:
\* deletes that met another batch half way are excused.
PairIsWhole == ~raced =>
  /\ (documents["doc"] = NoDoc) = (documents["index"] = NoDoc)
  /\ documents["doc"].edition = documents["index"].edition

\* A write under a version replaces what its caller read, in a transaction and
\* outside of one (host.go:45-48), with two exceptions where a version is given out
\* again: the document was deleted and created in between, which starts its
\* versions over, or what the caller read was its own write, and rolled back.
ConditionalIsExact == exact

\* An error the SDK has a name for is definite: nothing of the call, or of the
\* transaction it ended, is or ever becomes stored; and what is answered without
\* an error is stored (errors.go:10-52, dataErr's comment).
AnswersAreDefinite ==
  \A c \in DocClients : caller[c].at = "idle" =>
    /\ caller[c].told = "sentinel" => ~caller[c].applied
    /\ caller[c].told = "ok" => caller[c].applied = caller[c].wrote

\* The store keeps what optimistic locking, batches and answers promise.
DocumentsAreExact == PairIsWhole /\ ConditionalIsExact /\ AnswersAreDefinite
=============================================================================

-------------------------- MODULE TxRegistryProofs --------------------------
(***************************************************************************)
(* Proofs about TxRegistry for any finite set of calls and ids, any set of *)
(* plugins and any ceiling: the slots are exact and no connection leaks.   *)
(***************************************************************************)
EXTENDS TxRegistry, FiniteSetTheorems, TLAPS

\* What a call carries while it is in progress.
CallShape ==
  \A c \in Calls :
    /\ call[c].pc # "idle" => call[c].plugin \in Plugins
    /\ call[c].pc \in {"idle", "begin"} => call[c].id = {}
    /\ call[c].pc \in {"store", "finish"} => \E id \in TxIds : call[c].id = {id}

\* Ownership of connections in the form the steps preserve.
Ownership ==
  /\ conn \subseteq used
  /\ \A id \in TxIds : txs[id] # NoPlugin => id \in conn
  /\ \A c \in Calls : \A id \in call[c].id : id \in conn /\ txs[id] = NoPlugin
  /\ \A c, d \in Calls : \A id \in call[c].id : id \in call[d].id => c = d
  /\ \A id \in conn : txs[id] # NoPlugin \/ \E c \in Calls : id \in call[c].id

\* The inductive invariant.
TxInv == TxTypeOK /\ SlotsAreExact /\ CallShape /\ Ownership

-----------------------------------------------------------------------------
\* The sets whose sizes are compared are finite, so their sizes are numbers.
LEMMA SlotSetsFinite ==
  ASSUME NEW p \in Plugins
  PROVE  /\ IsFiniteSet(Registered(p)) /\ Cardinality(Registered(p)) \in Nat
         /\ IsFiniteSet(Pending(p)) /\ Cardinality(Pending(p)) \in Nat
<1>1. IsFiniteSet(Registered(p)) /\ IsFiniteSet(Pending(p))
  BY TxAssumption, FS_Subset DEF Registered, Pending
<1> QED
  BY <1>1, FS_CardinalityType

\* Dropping transactions frees exactly their slots.
LEMMA DropIsExact ==
  ASSUME TxTypeOK, SlotsAreExact, NEW ids \in SUBSET TxIds, Drop(ids),
         \A p \in Plugins : Pending(p)' = Pending(p)
  PROVE  SlotsAreExact' /\ open' \in [Plugins -> Nat]
<1> SUFFICES ASSUME NEW p \in Plugins
             PROVE  /\ open'[p] = Cardinality(Registered(p)') + Cardinality(Pending(p)')
                    /\ open'[p] <= MaxOpen
                    /\ open'[p] \in Nat
                    /\ open' = [q \in Plugins |-> open'[q]]
  BY DEF SlotsAreExact, Drop
<1>1. p # NoPlugin
  BY TxAssumption
<1>2. Registered(p)' = Registered(p) \ ids
  BY <1>1 DEF Registered, Drop
<1>3. /\ Cardinality(Registered(p) \ ids) = Cardinality(Registered(p)) - Cardinality(Registered(p) \cap ids)
      /\ Cardinality(Registered(p) \cap ids) <= Cardinality(Registered(p))
      /\ Cardinality(Registered(p) \cap ids) \in Nat
  BY SlotSetsFinite, FS_Difference, FS_Intersection, FS_CardinalityType, ZenonT(40)
<1>4. open'[p] = Less(open[p], Cardinality(Registered(p) \cap ids))
  BY DEF Drop
<1>5. open[p] \in Nat /\ open[p] = Cardinality(Registered(p)) + Cardinality(Pending(p)) /\ open[p] <= MaxOpen
  BY DEF TxTypeOK, SlotsAreExact
<1>6. open'[p] = open[p] - Cardinality(Registered(p) \cap ids)
  BY <1>3, <1>4, <1>5, SlotSetsFinite DEF Less
<1>7. open' = [q \in Plugins |-> open'[q]]
  BY DEF Drop
<1> QED
  BY <1>2, <1>3, <1>5, <1>6, <1>7, SlotSetsFinite, TxAssumption

\* Nothing about the slots moves when neither set does.
LEMMA SlotsSame ==
  ASSUME SlotsAreExact, open' = open,
         \A p \in Plugins : Pending(p)' = Pending(p) /\ Registered(p)' = Registered(p)
  PROVE  SlotsAreExact'
BY DEF SlotsAreExact

-----------------------------------------------------------------------------
\* The initial state satisfies the invariant.
LEMMA TxInitInv == TxInit => TxInv
<1> SUFFICES ASSUME TxInit PROVE TxInv
  OBVIOUS
<1>1. TxTypeOK
  <2>1. closed \in BOOLEAN
    BY Zenon DEF TxInit
  <2> QED
    BY <2>1 DEF TxInit, TxTypeOK, NoCall
<1>2. SlotsAreExact
  <2> SUFFICES ASSUME NEW p \in Plugins
               PROVE  Registered(p) = {} /\ Pending(p) = {} /\ open[p] = 0
    BY FS_EmptySet, TxAssumption DEF SlotsAreExact
  <2> QED
    BY TxAssumption DEF TxInit, Registered, Pending, NoCall
<1>3. CallShape /\ Ownership
  BY DEF TxInit, CallShape, Ownership, NoCall
<1> QED
  BY <1>1, <1>2, <1>3 DEF TxInv

\* Dropping ids that no call holds, and giving their connections back, keeps
\* every other connection owned.
LEMMA DropOwned ==
  ASSUME TxInv, NEW ids \in SUBSET TxIds, \A id \in ids : txs[id] # NoPlugin,
         Drop(ids), conn' = conn \ ids, UNCHANGED <<call, used>>
  PROVE  Ownership' /\ CallShape' /\ txs' \in [TxIds -> Plugins \cup {NoPlugin}]
<1>1. txs' \in [TxIds -> Plugins \cup {NoPlugin}]
  BY DEF TxInv, TxTypeOK, Drop
<1>2. Ownership'
  BY DEF TxInv, TxTypeOK, Ownership, Drop
<1> QED
  BY <1>1, <1>2 DEF TxInv, CallShape

-----------------------------------------------------------------------------
\* Every step preserves the invariant.
LEMMA TxNextInv == TxInv /\ [TxNext]_txVars => TxInv'
<1> SUFFICES ASSUME TxInv, [TxNext]_txVars PROVE TxInv'
  OBVIOUS
<1> USE DEF TxInv
<1>0. \A p \in Plugins : p # NoPlugin
  BY TxAssumption
<1>1. CASE \E c \in Calls, p \in Plugins : Begin(c, p)
  <2>1. PICK c \in Calls, p \in Plugins : Begin(c, p)
    BY <1>1
  <2>2. \A q \in Plugins : Pending(q)' = IF q = p THEN Pending(q) \cup {c} ELSE Pending(q)
    BY <2>1 DEF Begin, InCall, Pending, TxTypeOK
  <2>3. \A q \in Plugins : Registered(q)' = Registered(q) /\ c \notin Pending(q)
    BY <2>1 DEF Begin, Registered, Pending
  <2>4. Cardinality(Pending(p)') = Cardinality(Pending(p)) + 1
    BY <2>2, <2>3, SlotSetsFinite, FS_AddElement
  <2>5. SlotsAreExact'
    <3> SUFFICES ASSUME NEW q \in Plugins
                 PROVE  /\ open'[q] = Cardinality(Registered(q)') + Cardinality(Pending(q)')
                        /\ open'[q] <= MaxOpen
      BY DEF SlotsAreExact
    <3>1. open'[q] = IF q = p THEN open[q] + 1 ELSE open[q]
      BY <2>1 DEF Begin, TxTypeOK
    <3>2. open[q] = Cardinality(Registered(q)) + Cardinality(Pending(q)) /\ open[q] <= MaxOpen
      BY DEF SlotsAreExact
    <3>3. q = p => open[q] < MaxOpen
      BY <2>1 DEF Begin
    <3> QED
      BY <2>2, <2>3, <2>4, <3>1, <3>2, <3>3, SlotSetsFinite, TxAssumption
  <2>6. TxTypeOK'
    BY <2>1 DEF Begin, InCall, TxTypeOK
  <2>7. CallShape' /\ Ownership'
    BY <2>1 DEF Begin, InCall, CallShape, Ownership, TxTypeOK
  <2> QED
    BY <2>5, <2>6, <2>7
<1>2. CASE \E c \in Calls : BeginFails(c)
  <2>1. PICK c \in Calls : BeginFails(c)
    BY <1>2
  <2>2. PICK p \in Plugins : p = call[c].plugin /\ c \in Pending(p)
    BY <2>1 DEF BeginFails, CallShape, Pending
  <2>3. \A q \in Plugins : Pending(q)' = IF q = p THEN Pending(q) \ {c} ELSE Pending(q)
    BY <2>1, <2>2 DEF BeginFails, EndCall, NoCall, Pending, TxTypeOK
  <2>4. \A q \in Plugins : Registered(q)' = Registered(q)
    BY <2>1 DEF BeginFails, Registered
  <2>5. Cardinality(Pending(p)') = Cardinality(Pending(p)) - 1
    BY <2>2, <2>3, SlotSetsFinite, FS_RemoveElement
  <2>6. Cardinality(Pending(p)) \in Nat /\ Cardinality(Pending(p)') \in Nat
    BY <2>2, <2>3, SlotSetsFinite, FS_RemoveElement, FS_CardinalityType
  <2>7. open[p] = Cardinality(Registered(p)) + Cardinality(Pending(p)) /\ open[p] \in Nat
    BY <2>2 DEF SlotsAreExact, TxTypeOK
  <2>8. Less(open[p], 1) = open[p] - 1 /\ open[p] - 1 \in Nat
    BY <2>2, <2>5, <2>6, <2>7, SlotSetsFinite DEF Less
  <2>9. SlotsAreExact'
    <3> SUFFICES ASSUME NEW q \in Plugins
                 PROVE  /\ open'[q] = Cardinality(Registered(q)') + Cardinality(Pending(q)')
                        /\ open'[q] <= MaxOpen
      BY DEF SlotsAreExact
    <3>1. open'[q] = IF q = p THEN open[q] - 1 ELSE open[q]
      BY <2>1, <2>2, <2>8 DEF BeginFails, TxTypeOK
    <3>2. open[q] = Cardinality(Registered(q)) + Cardinality(Pending(q)) /\ open[q] <= MaxOpen
      BY DEF SlotsAreExact
    <3> QED
      BY <2>3, <2>4, <2>5, <2>6, <2>8, <3>1, <3>2, SlotSetsFinite, TxAssumption
  <2>10. TxTypeOK'
    BY <2>1, <2>2, <2>8 DEF BeginFails, EndCall, NoCall, TxTypeOK
  <2>11. CallShape' /\ Ownership'
    BY <2>1 DEF BeginFails, EndCall, NoCall, CallShape, Ownership, TxTypeOK
  <2> QED
    BY <2>9, <2>10, <2>11
<1>3. CASE \E c \in Calls, id \in TxIds : BeginTx(c, id)
  <2>1. PICK c \in Calls, id \in TxIds : BeginTx(c, id)
    BY <1>3
  <2>2. \A q \in Plugins : Pending(q)' = Pending(q) /\ Registered(q)' = Registered(q)
    BY <2>1 DEF BeginTx, InCall, Pending, Registered, TxTypeOK
  <2>3. SlotsAreExact'
    BY <2>1, <2>2, SlotsSame DEF BeginTx
  <2>4. TxTypeOK'
    BY <2>1 DEF BeginTx, InCall, TxTypeOK
  <2>5. CallShape'
    BY <2>1 DEF BeginTx, InCall, CallShape, TxTypeOK
  <2>6. id \notin conn /\ txs[id] = NoPlugin /\ \A d \in Calls : id \notin call[d].id
    BY <2>1 DEF BeginTx, Ownership
  <2>7. Ownership'
    BY <2>1, <2>6 DEF BeginTx, InCall, CallShape, Ownership, TxTypeOK
  <2> QED
    BY <2>3, <2>4, <2>5, <2>7
<1>4. CASE \E c \in Calls : Store(c)
  <2>1. PICK c \in Calls : Store(c)
    BY <1>4
  <2>2. PICK id \in TxIds : call[c].id = {id}
    BY <2>1 DEF Store, CallShape
  <2>3. PICK p \in Plugins :
          p = call[c].plugin /\ c \in Pending(p) /\ txs[id] = NoPlugin /\ id \in conn
    BY <2>1, <2>2 DEF Store, CallShape, Pending, Ownership
  <2>4. \A q \in Plugins : Pending(q)' = IF q = p THEN Pending(q) \ {c} ELSE Pending(q)
    BY <2>1, <2>3 DEF Store, EndCall, NoCall, Pending, TxTypeOK
  <2>5. \A q \in Plugins : Registered(q)' = IF q = p THEN Registered(q) \cup {id} ELSE Registered(q)
    BY <1>0, <2>1, <2>2, <2>3 DEF Store, Registered
  <2>6. id \notin Registered(p)
    BY <1>0, <2>3 DEF Registered
  <2>7. /\ Cardinality(Pending(p)') = Cardinality(Pending(p)) - 1
        /\ Cardinality(Registered(p)') = Cardinality(Registered(p)) + 1
    <3>1. Pending(p)' = Pending(p) \ {c} /\ Registered(p)' = Registered(p) \cup {id}
      BY <2>4, <2>5
    <3>2. Cardinality(Pending(p) \ {c}) = Cardinality(Pending(p)) - 1
      BY <2>3, SlotSetsFinite, FS_RemoveElement, ZenonT(40)
    <3>3. Cardinality(Registered(p) \cup {id}) = Cardinality(Registered(p)) + 1
      BY <2>6, SlotSetsFinite, FS_AddElement, ZenonT(40)
    <3> QED
      BY <3>1, <3>2, <3>3
  <2>8. SlotsAreExact'
    <3> SUFFICES ASSUME NEW q \in Plugins
                 PROVE  /\ open'[q] = Cardinality(Registered(q)') + Cardinality(Pending(q)')
                        /\ open'[q] <= MaxOpen
      BY DEF SlotsAreExact
    <3>1. open'[q] = open[q]
      BY <2>1 DEF Store
    <3>2. open[q] = Cardinality(Registered(q)) + Cardinality(Pending(q)) /\ open[q] <= MaxOpen
      BY DEF SlotsAreExact
    <3> QED
      BY <2>3, <2>4, <2>5, <2>7, <3>1, <3>2, SlotSetsFinite
  <2>9. TxTypeOK'
    BY <2>1, <2>3 DEF Store, EndCall, NoCall, TxTypeOK
  <2>10. CallShape'
    BY <2>1 DEF Store, EndCall, NoCall, CallShape, TxTypeOK
  <2>11. Ownership'
    BY <1>0, <2>1, <2>2, <2>3 DEF Store, EndCall, NoCall, Ownership, TxTypeOK
  <2> QED
    BY <2>8, <2>9, <2>10, <2>11
<1>5. CASE \E id \in TxIds : Expire(id)
  <2>1. PICK id \in TxIds : Expire(id)
    BY <1>5
  <2>2. \A q \in Plugins : Pending(q)' = Pending(q) /\ Registered(q)' = Registered(q)
    BY <2>1 DEF Expire, Pending, Registered
  <2>3. SlotsAreExact'
    BY <2>1, <2>2, SlotsSame DEF Expire
  <2> QED
    BY <2>1, <2>3 DEF Expire, TxTypeOK, CallShape, Ownership
<1>6. CASE \E id \in TxIds, p \in Plugins : Lookup(p, id)
  <2>1. PICK id \in TxIds, p \in Plugins : Lookup(p, id)
    BY <1>6
  <2>2. \A q \in Plugins : Pending(q)' = Pending(q)
    BY <2>1 DEF Lookup, Pending
  <2>3. SlotsAreExact' /\ open' \in [Plugins -> Nat]
    BY <2>1, <2>2, DropIsExact DEF Lookup
  <2>4. Ownership' /\ CallShape' /\ txs' \in [TxIds -> Plugins \cup {NoPlugin}]
    BY <1>0, <2>1, DropOwned DEF Lookup
  <2> QED
    BY <2>1, <2>3, <2>4 DEF Lookup, TxTypeOK
<1>7. CASE \E c \in Calls, p \in Plugins, id \in TxIds : Take(c, p, id)
  <2>1. PICK c \in Calls, p \in Plugins, id \in TxIds : Take(c, p, id)
    BY <1>7
  <2>2. \A q \in Plugins : Pending(q)' = Pending(q)
    BY <2>1 DEF Take, InCall, Pending, TxTypeOK
  <2>3. SlotsAreExact' /\ open' \in [Plugins -> Nat]
    BY <2>1, <2>2, DropIsExact DEF Take
  <2>4. TxTypeOK'
    BY <2>1, <2>3 DEF Take, InCall, Drop, TxTypeOK
  <2>5. CallShape'
    BY <2>1 DEF Take, InCall, CallShape, TxTypeOK
  <2>6. id \in conn /\ \A d \in Calls : id \notin call[d].id
    BY <1>0, <2>1 DEF Take, Ownership
  <2>7. Ownership'
    BY <1>0, <2>1, <2>6 DEF Take, InCall, Drop, CallShape, Ownership, TxTypeOK
  <2> QED
    BY <2>3, <2>4, <2>5, <2>7
<1>8. CASE \E c \in Calls : Finish(c)
  <2>1. PICK c \in Calls : Finish(c)
    BY <1>8
  <2>2. \A q \in Plugins : Pending(q)' = Pending(q) /\ Registered(q)' = Registered(q)
    BY <2>1 DEF Finish, EndCall, NoCall, Pending, Registered, TxTypeOK
  <2>3. SlotsAreExact'
    BY <2>1, <2>2, SlotsSame DEF Finish
  <2>4. TxTypeOK'
    BY <2>1 DEF Finish, EndCall, NoCall, TxTypeOK
  <2>5. CallShape'
    BY <2>1 DEF Finish, EndCall, NoCall, CallShape, TxTypeOK
  <2>6. Ownership'
    BY <2>1 DEF Finish, EndCall, NoCall, Ownership, TxTypeOK
  <2> QED
    BY <2>3, <2>4, <2>5, <2>6
<1>9. CASE ReapExpired
  <2> DEFINE Overdue == {id \in expired : txs[id] # NoPlugin}
  <2>1. Overdue \in SUBSET TxIds /\ \A id \in Overdue : txs[id] # NoPlugin
    BY DEF TxTypeOK
  <2>2. Drop(Overdue) /\ conn' = conn \ Overdue /\ UNCHANGED <<expired, call, used, closed>>
    BY <1>9 DEF ReapExpired
  <2>3. \A q \in Plugins : Pending(q)' = Pending(q)
    BY <2>2 DEF Pending
  <2> HIDE DEF Overdue
  <2>4. SlotsAreExact' /\ open' \in [Plugins -> Nat]
    BY <2>1, <2>2, <2>3, DropIsExact
  <2>5. Ownership' /\ CallShape' /\ txs' \in [TxIds -> Plugins \cup {NoPlugin}]
    BY <2>1, <2>2, DropOwned
  <2> QED
    BY <2>1, <2>2, <2>4, <2>5 DEF TxTypeOK
<1>10. CASE Close
  <2> DEFINE All == {id \in TxIds : txs[id] # NoPlugin}
  <2>1. All \in SUBSET TxIds /\ \A id \in All : txs[id] # NoPlugin
    OBVIOUS
  <2>2. Drop(All) /\ conn' = conn \ All /\ UNCHANGED <<expired, call, used>>
    BY <1>10 DEF Close
  <2>3. closed' \in BOOLEAN
    BY <1>10, Zenon DEF Close
  <2>4. \A q \in Plugins : Pending(q)' = Pending(q)
    BY <2>2 DEF Pending
  <2> HIDE DEF All
  <2>5. SlotsAreExact' /\ open' \in [Plugins -> Nat]
    BY <2>1, <2>2, <2>4, DropIsExact
  <2>6. Ownership' /\ CallShape' /\ txs' \in [TxIds -> Plugins \cup {NoPlugin}]
    BY <2>1, <2>2, DropOwned
  <2> QED
    BY <2>1, <2>2, <2>3, <2>5, <2>6 DEF TxTypeOK
<1>11. CASE UNCHANGED txVars
  <2>1. \A q \in Plugins : Pending(q)' = Pending(q) /\ Registered(q)' = Registered(q)
    BY <1>11 DEF txVars, Pending, Registered
  <2>2. SlotsAreExact'
    BY <1>11, <2>1, SlotsSame DEF txVars
  <2> QED
    BY <1>11, <2>2 DEF txVars, TxTypeOK, CallShape, Ownership
<1> QED
  BY <1>1, <1>2, <1>3, <1>4, <1>5, <1>6, <1>7, <1>8, <1>9, <1>10, <1>11
     DEF TxNext, TxCallStep

-----------------------------------------------------------------------------
\* The inductive invariant holds in every reachable state.
THEOREM TxRegistryInvariant == TxSpec => []TxInv
BY TxInitInv, TxNextInv, PTL DEF TxSpec

\* Concurrent Begins, failures, commits, the reaper and Close keep the slots
\* exact and within the ceiling (tx.go:94-104).
THEOREM SlotsStayExact == TxSpec => []SlotsAreExact
<1>1. TxInv => SlotsAreExact
  BY DEF TxInv
<1> QED
  BY <1>1, TxRegistryInvariant, PTL

\* No connection is leaked and none is finished twice.
THEOREM NoConnectionLeaks == TxSpec => []ConnectionsAreOwned
<1>1. TxInv => ConnectionsAreOwned
  <2> SUFFICES ASSUME TxInv, NEW id \in TxIds
               PROVE  /\ txs[id] # NoPlugin => id \in conn /\ {c \in Calls : id \in call[c].id} = {}
                      /\ txs[id] = NoPlugin /\ id \in conn =>
                           \E c \in Calls : {d \in Calls : id \in call[d].id} = {c}
                      /\ id \notin conn => {c \in Calls : id \in call[c].id} = {}
    BY DEF ConnectionsAreOwned
  <2>1. txs[id] = NoPlugin /\ id \in conn =>
          \E c \in Calls : {d \in Calls : id \in call[d].id} = {c}
    BY DEF TxInv, Ownership
  <2> QED
    BY <2>1 DEF TxInv, Ownership
<1> QED
  BY <1>1, TxRegistryInvariant, PTL

\* Slots are exact and connections owned, for any calls, plugins and ceiling
\* (tx.go:94-104, :280-300).
THEOREM TxStaysSafe == TxSpec => []TxIsSafe
BY SlotsStayExact, NoConnectionLeaks, PTL DEF TxIsSafe
=============================================================================

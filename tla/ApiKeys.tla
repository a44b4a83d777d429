------------------------------ MODULE ApiKeys ------------------------------
(***************************************************************************)
(* One key of the example plugin apikey, which authenticates requests: the *)
(* stored key, the cache in Core and one in each replica, lookups that     *)
(* fill them, and the request that withdraws the key.                      *)
(* Source: extension-example/apikey/main.go.                               *)
(***************************************************************************)
EXTENDS Integers

CONSTANTS
  KeyReplicas,
  Lookups,    \* requests with the key, one after another each
  LookAt,     \* LookAt[l]: the replica that l asks
  CacheTtl, LocalTtl,
  Patience    \* the timeout of the filter: no lookup takes longer

VARIABLES
  withdrawn,  \* the stored key is revoked
  shared,     \* the entry in Core's cache: [live, left], left the time to its end
  local,      \* local[r]: the entry in the replica r
  lookup,     \* lookup[l]: [at, live, age]
  revoke,     \* how far the withdrawal is, and where: [at, replica]
  since,      \* the time since the key was withdrawn, up to Overdue
  disturbed,  \* a lookup was under way during the withdrawal, or a delete failed
  outlived    \* history: the bounds after which the withdrawn key was honoured

keysVars == <<withdrawn, shared, local, lookup, revoke, since, disturbed, outlived>>

NoEntry == [live |-> FALSE, left |-> -1]
NoLookup == [at |-> "idle", live |-> FALSE, age |-> 0]

\* A lookup that read the key before, the entry it made in Core, a lookup that found
\* that entry, and the entry of its replica, one after the other.
Overdue == CacheTtl + LocalTtl + 2 * Patience

KeysInit ==
  /\ withdrawn = FALSE /\ shared = NoEntry
  /\ local = [r \in KeyReplicas |-> NoEntry]
  /\ lookup = [l \in Lookups |-> NoLookup]
  /\ \E r \in KeyReplicas : revoke = [at |-> "idle", replica |-> r]
  /\ since = 0 /\ disturbed = FALSE /\ outlived = {}

Busy == {l \in Lookups : lookup[l].at # "idle"}

\* Mutant: entries do not end.
OlderForever(entry, last) == [entry EXCEPT !.left = @ - 1]

\* Core's entry is gone when its time is up (memory.go), one of a replica after.
Older(entry, last) == IF entry.left <= last THEN NoEntry ELSE [entry EXCEPT !.left = @ - 1]

KeysTick ==
  /\ \A l \in Busy : lookup[l].age < Patience
  /\ shared' = Older(shared, 1)
  /\ local' = [r \in KeyReplicas |-> Older(local[r], 0)]
  /\ lookup' = [l \in Lookups |->
       IF l \in Busy THEN [lookup[l] EXCEPT !.age = @ + 1] ELSE NoLookup]
  /\ since' = IF withdrawn /\ since < Overdue THEN since + 1 ELSE since
  /\ UNCHANGED <<withdrawn, revoke, disturbed, outlived>>

-----------------------------------------------------------------------------
(* lookup, and authenticate with what it finds.                            *)

LookGoes(l, where) == lookup' = [lookup EXCEPT ![l].at = where]

\* The request is answered: as the owner of the key when it is live.
LookAnswers(l, live) ==
  /\ lookup' = [lookup EXCEPT ![l] = NoLookup]
  /\ outlived' = outlived \cup
       {bound \in {LocalTtl, Overdue - 1} : live /\ withdrawn /\ since > bound}

LookLocal(l) ==
  /\ lookup[l].at = "idle"
  /\ IF local[LookAt[l]] # NoEntry
       THEN LookAnswers(l, local[LookAt[l]].live)
       ELSE /\ lookup' = [lookup EXCEPT ![l] = [at |-> "cache", live |-> FALSE, age |-> 0]]
            /\ UNCHANGED outlived
  /\ disturbed' = (disturbed \/ revoke.at \in {"cache", "local"})
  /\ UNCHANGED <<withdrawn, shared, local, revoke, since>>

\* Mutant: a hit in Core's cache is stored there again.
LookSharedRenews(l) ==
  /\ lookup[l].at = "cache" /\ shared # NoEntry
  /\ lookup' = [lookup EXCEPT ![l].at = "set", ![l].live = shared.live]
  /\ UNCHANGED <<withdrawn, shared, local, revoke, since, disturbed, outlived>>

LookShared(l) ==
  /\ lookup[l].at = "cache" /\ shared # NoEntry
  /\ lookup' = [lookup EXCEPT ![l].at = "keep", ![l].live = shared.live]
  /\ UNCHANGED <<withdrawn, shared, local, revoke, since, disturbed, outlived>>

\* The cache has no entry, or could not be asked.
LookMisses(l) ==
  /\ lookup[l].at = "cache"
  /\ LookGoes(l, "stored")
  /\ UNCHANGED <<withdrawn, shared, local, revoke, since, disturbed, outlived>>

LookStored(l) ==
  /\ lookup[l].at = "stored"
  /\ lookup' = [lookup EXCEPT ![l].at = "set", ![l].live = ~withdrawn]
  /\ UNCHANGED <<withdrawn, shared, local, revoke, since, disturbed, outlived>>

\* An error of Cache.Set is ignored.
LookSets(l) ==
  /\ lookup[l].at = "set"
  /\ shared' \in {shared, [live |-> lookup[l].live, left |-> CacheTtl]}
  /\ LookGoes(l, "keep")
  /\ UNCHANGED <<withdrawn, local, revoke, since, disturbed, outlived>>

LookKeeps(l) ==
  /\ lookup[l].at = "keep"
  /\ local' = [local EXCEPT ![LookAt[l]] = [live |-> lookup[l].live, left |-> LocalTtl]]
  /\ LookAnswers(l, lookup[l].live)
  /\ UNCHANGED <<withdrawn, shared, revoke, since, disturbed>>

\* The store fails, or the filter times out: the request is refused.
LookFails(l) ==
  /\ lookup[l].at # "idle"
  /\ LookAnswers(l, FALSE)
  /\ UNCHANGED <<withdrawn, shared, local, revoke, since, disturbed>>

-----------------------------------------------------------------------------
(* revokeKey.                                                              *)

RevokeGoes(where) ==
  /\ revoke' = [revoke EXCEPT !.at = where]
  /\ UNCHANGED <<lookup, outlived>>

\* Mutant: the entry of this replica is not dropped.
RevokeKeepsLocal ==
  /\ revoke.at = "local"
  /\ disturbed' = (disturbed \/ Busy # {})
  /\ RevokeGoes("done")
  /\ UNCHANGED <<withdrawn, shared, local, since>>

\* PutIfVersion, of the key that was read.
RevokeStores ==
  /\ revoke.at = "idle"
  /\ withdrawn' = TRUE /\ since' = 0
  /\ disturbed' = (disturbed \/ Busy # {})
  /\ RevokeGoes("cache")
  /\ UNCHANGED <<shared, local>>

\* An error of Cache.Delete is ignored.
RevokeDeletes ==
  /\ revoke.at = "cache"
  /\ shared' \in {NoEntry, shared}
  /\ disturbed' = (disturbed \/ Busy # {} \/ shared' # NoEntry)
  /\ RevokeGoes("local")
  /\ UNCHANGED <<withdrawn, local, since>>

RevokeDrops ==
  /\ revoke.at = "local"
  /\ local' = [local EXCEPT ![revoke.replica] = NoEntry]
  /\ disturbed' = (disturbed \/ Busy # {})
  /\ RevokeGoes("done")
  /\ UNCHANGED <<withdrawn, shared, since>>

KeysNext ==
  \/ KeysTick
  \/ \E l \in Lookups :
       \/ LookLocal(l) \/ LookShared(l) \/ LookMisses(l) \/ LookStored(l)
       \/ LookSets(l) \/ LookKeeps(l) \/ LookFails(l)
  \/ RevokeStores \/ RevokeDeletes \/ RevokeDrops

KeysSpec == KeysInit /\ [][KeysNext]_keysVars

-----------------------------------------------------------------------------
(* Properties.                                                             *)

\* The variables have their types.
KeysTypeOK ==
  /\ \A l \in Lookups :
       /\ lookup[l].at \in {"idle", "cache", "stored", "set", "keep"}
       /\ lookup[l].age \in 0..Patience
  /\ shared.left \in -1..CacheTtl
  /\ \A r \in KeyReplicas : local[r].left \in -1..LocalTtl
  /\ revoke.at \in {"idle", "cache", "local", "done"} /\ withdrawn \in BOOLEAN

\* A withdrawn key is honoured elsewhere for LocalTtl, when no lookup was under way
\* meanwhile and Core's entry could be deleted, and always for less than Overdue.
\* That is longer than cache_ttl, which main.go:331-334 and the answer of the handler
\* (:339) call the worst case: they leave out that a replica keeps what it finds in
\* Core's entry for a local_ttl of its own, and that a lookup which read the key
\* before its withdrawal makes that entry after it.
WithdrawnIsForgotten == IF disturbed THEN Overdue - 1 \notin outlived ELSE outlived = {}

\* The withdrawal is instant on its replica (main.go:330), when no lookup was
\* under way meanwhile and Core's entry could be deleted.
WithdrawnHere ==
  revoke.at = "done" /\ ~disturbed =>
    ~local[revoke.replica].live /\ ~shared.live

\* A withdrawal takes effect at once where it is made and in bounded time
\* elsewhere, within bounds that main.go:329-334 understates.
WithdrawalHolds == WithdrawnIsForgotten /\ WithdrawnHere
=============================================================================

------------------------------- MODULE Cache -------------------------------
(***************************************************************************)
(* The cache all plugins share: a table with a hard cap, from which expired *)
(* entries go first.  Source: core/hostsvc/memory.go:27-150,               *)
(* core/hostsvc/rpc_runtime.go:22-53.                                      *)
(***************************************************************************)
EXTENDS Integers, FiniteSets

CONSTANTS
  Keys,       \* cacheKey(plugin, key)
  MaxEntries

ASSUME CacheAssumption == IsFiniteSet(Keys) /\ MaxEntries \in Nat \ {0}

VARIABLE
  entry  \* entry[k]: none, or whether and how its deadline stands

cacheVars == <<entry>>

CacheInit == entry = [k \in Keys |-> "none"]

Cached == {k \in Keys : entry[k] # "none"}

Lapsed == {k \in Keys : entry[k] = "lapsed"}

\* Mutant: a tenth of a small cache is nothing.
TenthOf(n) == n \div 10

Tenth(n) == IF n < 10 THEN 1 ELSE n \div 10

\* Mutant: live entries go although expired ones are there.
EvictAny == {S \in SUBSET Cached : Cardinality(S) = Tenth(Cardinality(Cached))}

\* evictLocked: what may be removed.
Evict ==
  IF Lapsed # {} THEN {Lapsed}
  ELSE {S \in SUBSET Cached : Cardinality(S) = Tenth(Cardinality(Cached))}

\* Set makes room when the cache is full, also to overwrite an entry.
Set(k, state) ==
  \E gone \in IF Cardinality(Cached) >= MaxEntries THEN Evict ELSE {{}} :
    entry' = [j \in Keys |-> IF j = k THEN state
                             ELSE IF j \in gone THEN "none" ELSE entry[j]]

\* Get changes the cache only when it finds that the entry has expired.
Get(k) == entry[k] = "lapsed" /\ entry' = [entry EXCEPT ![k] = "none"]

Delete(k) == entry[k] # "none" /\ entry' = [entry EXCEPT ![k] = "none"]

Lapse(k) == entry[k] = "timed" /\ entry' = [entry EXCEPT ![k] = "lapsed"]

CacheNext ==
  \E k \in Keys :
    \/ \E state \in {"timed", "forever"} : Set(k, state)
    \/ Get(k) \/ Delete(k) \/ Lapse(k)

CacheSpec == CacheInit /\ [][CacheNext]_cacheVars

-----------------------------------------------------------------------------
(* Properties.                                                             *)

\* The entries have their type.
CacheTypeOK == entry \in [Keys -> {"none", "timed", "forever", "lapsed"}]

\* The cap is hard: eviction always makes the room the new entry needs
\* (memory.go:32-36), with a cache of one entry as with a large one.  And a live
\* entry is sacrificed to another key only when no entry has expired (:116-119).
CacheIsKept ==
  /\ [](Cardinality(Cached) <= MaxEntries)
  /\ [][(\E k, j \in Keys : /\ k # j /\ entry[j] \in {"timed", "forever"} /\ entry'[j] = "none"
                             /\ entry[k] # entry'[k])
         => Lapsed = {}]_cacheVars
=============================================================================

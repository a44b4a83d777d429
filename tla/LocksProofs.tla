---------------------------- MODULE LocksProofs ----------------------------
(***************************************************************************)
(* Proofs about Locks for any clients, names, ttls and intervals: mutual   *)
(* exclusion of the leases, and the bound on the table.                    *)
(***************************************************************************)
EXTENDS Locks, FiniteSetTheorems, TLAPS

\* The inductive invariant.
LockInv == LockTypeOK /\ LeaseIsKept /\ HeldIsBounded

\* The second a client is told is never after the deadline.
LEMMA UnixIsEarlier == ASSUME NEW t \in Nat PROVE Unix(t) \in Nat /\ Unix(t) <= t
<1>1. t % Second \in 0..(Second - 1)
  BY LocksAssumption
<1>2. t = Second * (t \div Second) + (t % Second) /\ t \div Second \in Nat
  BY LocksAssumption
<1>3. PICK k \in Nat : k = Second * (t \div Second)
  BY <1>2, LocksAssumption
<1>4. PICK m \in Nat : m = t % Second
  BY <1>1, LocksAssumption
<1>5. t = k + m
  BY <1>2, <1>3, <1>4
<1> QED
  BY <1>4, <1>5 DEF Unix

\* The sweep only removes what has expired.
LEMMA SweptKeepsLive ==
  ASSUME LockTypeOK, NEW n \in Names
  PROVE  Swept[n] = held[n] \/ (Swept[n] = Free /\ clock >= held[n].expires)
BY DEF Swept, Expired

\* The locks of a table, and how the bound follows for a smaller one.
LEMMA FewerHeld ==
  ASSUME NEW S \in SUBSET Names, NEW T \in SUBSET S, Cardinality(S) <= MaxHeld
  PROVE  Cardinality(T) <= MaxHeld
<1>1. IsFiniteSet(S)
  BY LocksAssumption, FS_Subset
<1>2. IsFiniteSet(T) /\ Cardinality(T) <= Cardinality(S)
  BY <1>1, FS_Subset
<1> QED
  BY <1>1, <1>2, FS_CardinalityType, LocksAssumption

-----------------------------------------------------------------------------
\* The initial state satisfies the invariant.
LEMMA LockInitInv == LockInit => LockInv
<1> SUFFICES ASSUME LockInit PROVE LockInv
  OBVIOUS
<1>1. LockTypeOK
  BY DEF LockInit, LockTypeOK, Free, NoLease
<1>2. LeaseIsKept
  BY DEF LockInit, LeaseIsKept, NoLease
<1>3. Held = {}
  BY DEF LockInit, Held, Free
<1>4. HeldIsBounded
  BY <1>3, FS_EmptySet, LocksAssumption DEF HeldIsBounded
<1> QED
  BY <1>1, <1>2, <1>4 DEF LockInv

\* A granted lock: the sweep, the new entry and what the client is told.
LEMMA TryAcquireInv ==
  ASSUME LockInv, NEW c \in Clients, NEW n \in Names, TryAcquire(c, n)
  PROVE  LockInv'
<1> USE DEF LockInv
<1> DEFINE deadline == clock + Ttl[c]
<1>1. deadline \in Nat /\ Unix(deadline) \in Nat /\ Unix(deadline) <= deadline
  BY UnixIsEarlier, LocksAssumption DEF LockTypeOK
<1>2. /\ held' = [Swept EXCEPT ![n] = [id |-> issued + 1, expires |-> deadline]]
      /\ issued' = issued + 1 /\ clock' = clock /\ releases' = releases
      /\ lease[c].id = 0 /\ CanTake(Swept, n)
      /\ \/ lease' = [lease EXCEPT ![c] = [name |-> n, id |-> issued + 1, until |-> Unix(deadline)]]
         \/ lease' = lease
  BY DEF TryAcquire
<1>3. Swept \in [Names -> [id : 0..issued, expires : Nat]]
  BY DEF Swept, Free, LockTypeOK
<1> HIDE DEF deadline
<1>4. LockTypeOK'
  <2>1. held' \in [Names -> [id : 0..issued', expires : Nat]]
    BY <1>1, <1>2, <1>3 DEF LockTypeOK
  <2>2. lease' \in [Clients -> [name : Names, id : 0..issued', until : Nat]]
    <3>1. CASE lease' = lease
      BY <1>2, <3>1 DEF LockTypeOK
    <3>2. CASE lease' = [lease EXCEPT ![c] = [name |-> n, id |-> issued + 1, until |-> Unix(deadline)]]
      BY <1>1, <1>2, <3>2 DEF LockTypeOK
    <3> QED
      BY <1>2, <3>1, <3>2
  <2>3. lastSweep' \in Nat
    BY DEF TryAcquire, Sweep, LockTypeOK
  <2> QED
    BY <1>2, <2>1, <2>2, <2>3 DEF LockTypeOK
<1>5. \A d \in Clients : d # c => lease'[d] = lease[d]
  BY <1>2 DEF LockTypeOK
<1>6. lease'[c] = lease[c] \/ lease'[c] = [name |-> n, id |-> issued + 1, until |-> Unix(deadline)]
  BY <1>2 DEF LockTypeOK
<1>7. ASSUME NEW d \in Clients, lease'[d].id # 0
      PROVE  LET h == held'[lease'[d].name]
             IN /\ h.id = lease'[d].id => /\ lease'[d].until <= h.expires
                                          /\ h.expires <= clock' + Ttl[d]
                /\ clock' < lease'[d].until => h.id = lease'[d].id
  <2>1. CASE lease'[d] # lease[d]
    <3>1. d = c /\ lease'[d] = [name |-> n, id |-> issued + 1, until |-> Unix(deadline)]
      BY <1>5, <1>6, <2>1
    <3>2. held'[n] = [id |-> issued + 1, expires |-> deadline]
      BY <1>2, <1>3
    <3> QED
      BY <1>1, <1>2, <3>1, <3>2, LocksAssumption DEF deadline, LockTypeOK
  <2>2. CASE lease'[d] = lease[d]
    <3> DEFINE m == lease[d].name
    <3>1. m \in Names /\ lease[d].id \in 1..issued /\ lease[d].until \in Nat
      BY <1>7, <2>2 DEF LockTypeOK
    <3>2. /\ held[m].id = lease[d].id =>
               lease[d].until <= held[m].expires /\ held[m].expires <= clock + Ttl[d]
          /\ clock < lease[d].until => held[m].id = lease[d].id
      BY <1>7, <2>2 DEF LeaseIsKept
    <3>3. Swept[m] = held[m] \/ (Swept[m] = Free /\ clock >= held[m].expires)
      BY <3>1, SweptKeepsLive
    <3>4. held[m].expires \in Nat /\ clock \in Nat
      BY <3>1 DEF LockTypeOK
    <3> HIDE DEF m
    <3>5. CASE m = n
      <4>1. held'[m].id = issued + 1
        BY <1>2, <1>3, <3>5
      <4>2. Swept[m].id # 0 => clock >= Swept[m].expires
        BY <1>2, <3>5 DEF CanTake, Expired
      <4>3. ~(clock < lease[d].until)
        BY <3>1, <3>2, <3>3, <3>4, <4>2
      <4> QED
        BY <1>2, <2>2, <3>1, <4>1, <4>3 DEF m, LockTypeOK
    <3>6. CASE m # n
      <4>1. held'[m] = Swept[m]
        BY <1>2, <1>3, <3>1, <3>6
      <4> QED
        BY <1>2, <2>2, <3>1, <3>2, <3>3, <3>4, <4>1 DEF m, Free
    <3> QED
      BY <3>5, <3>6
  <2> QED
    BY <2>1, <2>2
<1>8. LeaseIsKept'
  <2>1. \A d \in Clients : lease[d].id \in 0..issued
    BY DEF LockTypeOK
  <2>2. \A r \in releases : r.id \in 1..issued
    BY DEF LockTypeOK
  <2>3. \A d, e \in Clients : lease'[d].id # 0 /\ lease'[d].id = lease'[e].id => d = e
    BY <1>5, <1>6, <2>1 DEF LeaseIsKept, LockTypeOK
  <2>4. \A d \in Clients, r \in releases' : lease'[d].id # r.id
    BY <1>2, <1>5, <1>6, <2>1, <2>2 DEF LeaseIsKept, LockTypeOK
  <2> QED
    BY <1>7, <2>3, <2>4 DEF LeaseIsKept
<1>9. HeldIsBounded'
  <2> DEFINE S == {m \in Names : Swept[m].id # 0}
  <2>1. S \subseteq Held
    BY SweptKeepsLive DEF Held, Free
  <2>2. Cardinality(S) <= MaxHeld
    BY <2>1, FewerHeld DEF HeldIsBounded, Held
  <2>3. Held' \subseteq S \cup {n}
    BY <1>2, <1>3 DEF Held
  <2>4. IsFiniteSet(S)
    BY LocksAssumption, FS_Subset
  <2>5. n \in S \/ Cardinality(S) < MaxHeld
    BY <1>2 DEF CanTake, HasPlace
  <2> HIDE DEF S
  <2>6. Cardinality(S \cup {n}) <= MaxHeld
    <3>1. Cardinality(S) \in Nat
      BY <2>4, FS_CardinalityType
    <3>2. Cardinality(S \cup {n}) = IF n \in S THEN Cardinality(S) ELSE Cardinality(S) + 1
      BY <2>4, FS_AddElement, ZenonT(40)
    <3> QED
      BY <2>2, <2>5, <3>1, <3>2, LocksAssumption
  <2>7. S \cup {n} \in SUBSET Names
    BY DEF S
  <2> QED
    BY <2>3, <2>6, <2>7, FewerHeld DEF HeldIsBounded
<1> QED
  BY <1>4, <1>8, <1>9

\* A renewed lease: the entry moves forward, and the client may not hear of it.
LEMMA RenewInv ==
  ASSUME LockInv, NEW c \in Clients, Renew(c)
  PROVE  LockInv'
<1> USE DEF LockInv
<1> DEFINE deadline == clock + Ttl[c]
           n == lease[c].name
<1>1. deadline \in Nat /\ Unix(deadline) \in Nat /\ Unix(deadline) <= deadline
  BY UnixIsEarlier, LocksAssumption DEF LockTypeOK
<1>2. /\ held' = [held EXCEPT ![n].expires = deadline]
      /\ UNCHANGED <<clock, lastSweep, releases, issued>>
      /\ lease' = [lease EXCEPT ![c].until = Unix(deadline)] \/ lease' = lease
      /\ lease[c].id # 0 /\ held[n].id = lease[c].id /\ n \in Names
  BY DEF Renew, Owns, LockTypeOK
<1>3. /\ \A d \in Clients : lease'[d].name = lease[d].name /\ lease'[d].id = lease[d].id
      /\ \A d \in Clients : d # c => lease'[d] = lease[d]
      /\ lease'[c].until \in {lease[c].until, Unix(deadline)}
  BY <1>2 DEF LockTypeOK
<1>4. /\ \A m \in Names : held'[m].id = held[m].id
      /\ \A m \in Names : m # n => held'[m] = held[m]
      /\ held'[n].expires = deadline
  BY <1>2 DEF LockTypeOK
<1>5. LockTypeOK'
  BY <1>1, <1>2, ZenonT(40) DEF LockTypeOK
<1>6. lease[c].until <= held[n].expires /\ held[n].expires <= deadline
  BY <1>2 DEF LeaseIsKept
<1>7. lease[c].until \in Nat /\ held[n].expires \in Nat /\ clock \in Nat
  BY <1>2 DEF LockTypeOK
<1>8. lease'[c].until <= deadline
  BY <1>1, <1>3, <1>6, <1>7
<1>9. ASSUME NEW d \in Clients, lease'[d].id # 0
      PROVE  LET h == held'[lease'[d].name]
             IN /\ h.id = lease'[d].id => /\ lease'[d].until <= h.expires
                                          /\ h.expires <= clock' + Ttl[d]
                /\ clock' < lease'[d].until => h.id = lease'[d].id
  <2>1. lease[d].name \in Names
    BY DEF LockTypeOK
  <2>2. CASE d = c
    BY <1>1, <1>2, <1>3, <1>4, <1>8, <2>2
  <2>3. CASE d # c
    <3>1. lease[d].id # lease[c].id
      BY <1>3, <1>9, <2>3 DEF LeaseIsKept
    <3>2. lease'[d] = lease[d] /\ lease[d].id # 0
      BY <1>3, <1>9, <2>3
    <3>3. lease[d].name = n => held'[n].id # lease[d].id
      BY <1>2, <1>4, <3>1
    <3> QED
      BY <1>2, <1>4, <2>1, <3>2, <3>3 DEF LeaseIsKept
  <2> QED
    BY <2>2, <2>3
<1>10. LeaseIsKept'
  <2>1. \A d, e \in Clients : lease'[d].id # 0 /\ lease'[d].id = lease'[e].id => d = e
    BY <1>3 DEF LeaseIsKept
  <2>2. \A d \in Clients, r \in releases' : lease'[d].id # r.id
    BY <1>2, <1>3 DEF LeaseIsKept
  <2> QED
    BY <1>9, <2>1, <2>2 DEF LeaseIsKept
<1>11. Held' = Held
  BY <1>4 DEF Held
<1> QED
  BY <1>5, <1>10, <1>11 DEF HeldIsBounded

-----------------------------------------------------------------------------
\* Every step preserves the invariant.
LEMMA LockNextInv == LockInv /\ [LockNext]_lockVars => LockInv'
<1> SUFFICES ASSUME LockInv, [LockNext]_lockVars PROVE LockInv'
  OBVIOUS
<1> USE DEF LockInv
<1>1. CASE \E c \in Clients, n \in Names : TryAcquire(c, n)
  BY <1>1, TryAcquireInv
<1>2. CASE \E c \in Clients : Renew(c)
  BY <1>2, RenewInv
<1>3. CASE \E c \in Clients, n \in Names : TryAcquireFails(c, n)
  <2>1. /\ held' = Swept /\ UNCHANGED <<clock, lease, releases, issued>>
        /\ lastSweep' \in Nat
    BY <1>3 DEF TryAcquireFails, Sweep, LockTypeOK
  <2>2. Swept \in [Names -> [id : 0..issued, expires : Nat]]
    BY DEF Swept, Free, LockTypeOK
  <2>3. LockTypeOK'
    BY <2>1, <2>2 DEF LockTypeOK
  <2>4. \A n \in Names : held'[n] = held[n] \/ (held'[n].id = 0 /\ clock >= held[n].expires)
    BY <2>1, SweptKeepsLive DEF Free
  <2>5. \A d \in Clients : lease[d].name \in Names /\ lease[d].until \in Nat
    BY DEF LockTypeOK
  <2>6. \A n \in Names : held[n].expires \in Nat
    BY DEF LockTypeOK
  <2>7. LeaseIsKept'
    <3>1. ASSUME NEW d \in Clients, lease[d].id # 0
          PROVE  LET h == held'[lease[d].name]
                 IN /\ h.id = lease[d].id => /\ lease[d].until <= h.expires
                                             /\ h.expires <= clock + Ttl[d]
                    /\ clock < lease[d].until => h.id = lease[d].id
      <4> DEFINE m == lease[d].name
      <4>1. /\ held[m].id = lease[d].id => /\ lease[d].until <= held[m].expires
                                           /\ held[m].expires <= clock + Ttl[d]
            /\ clock < lease[d].until => held[m].id = lease[d].id
        BY <3>1 DEF LeaseIsKept
      <4>2. clock \in Nat /\ m \in Names
        BY <2>5 DEF LockTypeOK
      <4> QED
        BY <2>4, <2>5, <2>6, <3>1, <4>1, <4>2
    <3> QED
      BY <2>1, <3>1 DEF LeaseIsKept
  <2>8. Held' \in SUBSET Held /\ Held \in SUBSET Names
    BY <2>4 DEF Held
  <2> QED
    BY <2>3, <2>7, <2>8, FewerHeld DEF HeldIsBounded
<1>4. CASE \E c \in Clients : RenewFails(c)
  <2>1. PICK c \in Clients : RenewFails(c)
    BY <1>4
  <2>2. /\ UNCHANGED <<clock, held, lastSweep, releases, issued>>
        /\ lease' = [lease EXCEPT ![c].until = 0]
        /\ lease \in [Clients -> [name : Names, id : 0..issued, until : Nat]]
    BY <2>1 DEF RenewFails, LockTypeOK
  <2>3. \A d \in Clients : /\ lease'[d].id = lease[d].id /\ lease'[d].name = lease[d].name
                            /\ lease'[d].until = IF d = c THEN 0 ELSE lease[d].until
    BY <2>2
  <2>4. LockTypeOK'
    BY <2>2 DEF LockTypeOK
  <2>5. \A n \in Names : held[n].expires \in Nat
    BY DEF LockTypeOK
  <2>6. LeaseIsKept'
    BY <2>2, <2>3, <2>5 DEF LeaseIsKept, LockTypeOK
  <2> QED
    BY <2>2, <2>4, <2>6 DEF HeldIsBounded, Held
<1>5. CASE \E c \in Clients : SendRelease(c)
  <2>1. PICK c \in Clients : SendRelease(c)
    BY <1>5
  <2>2. LockTypeOK'
    BY <2>1 DEF SendRelease, NoLease, LockTypeOK
  <2>3. \A d \in Clients : IF d = c THEN lease'[d].id = 0 ELSE lease'[d] = lease[d]
    BY <2>1 DEF SendRelease, NoLease, LockTypeOK
  <2>4. /\ UNCHANGED <<clock, held>> /\ lease[c].id # 0
        /\ \A r \in releases' : r \in releases \/ r.id = lease[c].id
        /\ \A r \in releases' : r.id # 0
    BY <2>1, <2>2 DEF SendRelease, LockTypeOK
  <2>5. LeaseIsKept'
    BY <2>3, <2>4 DEF LeaseIsKept
  <2> QED
    BY <2>2, <2>4, <2>5 DEF HeldIsBounded, Held
<1>6. CASE \E r \in releases : LoseRelease(r)
  BY <1>6 DEF LoseRelease, LockTypeOK, LeaseIsKept, HeldIsBounded, Held
<1>7. CASE \E r \in releases : Release(r)
  <2>1. PICK r \in releases : Release(r)
    BY <1>7
  <2>2. /\ UNCHANGED <<clock, lastSweep, lease, issued>> /\ releases' \subseteq releases
        /\ \A n \in Names : held'[n] = held[n] \/ (held'[n].id = 0 /\ held[n].id = r.id)
    BY <2>1 DEF Release, Free, LockTypeOK
  <2>3. LockTypeOK'
    BY <2>1 DEF Release, Free, LockTypeOK
  <2>4. \A d \in Clients : lease[d].name \in Names /\ lease[d].id # r.id
    BY DEF LockTypeOK, LeaseIsKept
  <2>5. LeaseIsKept'
    BY <2>2, <2>4 DEF LeaseIsKept
  <2>6. Held' \in SUBSET Held /\ Held \in SUBSET Names
    BY <2>2 DEF Held
  <2> QED
    BY <2>3, <2>5, <2>6, FewerHeld DEF HeldIsBounded
<1>8. CASE Tick
  <2>1. clock' = clock + 1 /\ UNCHANGED <<held, lastSweep, lease, releases, issued>>
    BY <1>8 DEF Tick
  <2>2. \A d \in Clients : /\ Ttl[d] \in Nat /\ lease[d].until \in Nat
                            /\ held[lease[d].name].expires \in Nat
    BY LocksAssumption DEF LockTypeOK
  <2>3. LeaseIsKept'
    BY <2>1, <2>2 DEF LeaseIsKept, LockTypeOK
  <2> QED
    BY <2>1, <2>3 DEF LockTypeOK, HeldIsBounded, Held
<1>9. CASE UNCHANGED lockVars
  BY <1>9 DEF lockVars, LockTypeOK, LeaseIsKept, HeldIsBounded, Held
<1> QED
  BY <1>1, <1>2, <1>3, <1>4, <1>5, <1>6, <1>7, <1>8, <1>9 DEF LockNext

-----------------------------------------------------------------------------
\* The inductive invariant holds in every reachable state.
THEOREM LocksInvariant == LockSpec => []LockInv
BY LockInitInv, LockNextInv, PTL DEF LockSpec

\* Mutual exclusion: two clients that believe they hold the same lock are one.
THEOREM LocksExclude == LockSpec => []OneHolder
<1>1. LockInv => OneHolder
  BY DEF LockInv, LeaseIsKept, OneHolder, Holds
<1> QED
  BY <1>1, LocksInvariant, PTL

\* The table of locks never outgrows MaxHeld.
THEOREM LocksAreBounded == LockSpec => []HeldIsBounded
<1>1. LockInv => HeldIsBounded
  BY DEF LockInv
<1> QED
  BY <1>1, LocksInvariant, PTL

\* Leases exclude each other, are kept, and are bounded, for any clients, names
\* and intervals (memory.go:167-174, :293-295).
THEOREM LocksStayLeases == LockSpec => []LocksAreLeases
<1>1. LockInv => LeaseIsKept
  BY DEF LockInv
<1> QED
  BY <1>1, LocksInvariant, LocksExclude, LocksAreBounded, PTL DEF LocksAreLeases
=============================================================================

------------------------------- MODULE Locks -------------------------------
(***************************************************************************)
(* Leases on named locks: the table in Core, swept now and then while a    *)
(* lock is acquired, and the plugins' side, which knows a lease by its id  *)
(* and by the whole second it is told the lease ends at.                   *)
(* Source: core/hostsvc/memory.go:65-78, :154-311,                         *)
(* core/hostsvc/rpc_runtime.go:57-118, sdk/plugin/host.go:755-812.         *)
(***************************************************************************)
EXTENDS Integers, FiniteSets

CONSTANTS
  Clients,        \* holders: goroutines of the plugin's replicas
  Names,          \* lockKey(plugin, name)
  Ttl,            \* Ttl[c]: the ttl c asks for, at Acquire and at every Renew
  MaxHeld,
  SweepInterval,  \* lockSweepInterval
  Second,         \* clock ticks in a second
  MaxClock,       \* bound on the clock
  MaxLeases       \* bound on the leases handed out

ASSUME LocksAssumption ==
  /\ IsFiniteSet(Names)
  /\ Ttl \in [Clients -> Nat \ {0}]
  /\ MaxHeld \in Nat \ {0} /\ Second \in Nat \ {0}
  /\ SweepInterval \in Nat /\ MaxClock \in Nat /\ MaxLeases \in Nat

VARIABLES
  clock,
  held,       \* MemoryLocks.held: held[n] has the id of its lease, 0 for none
  lastSweep,
  lease,      \* lease[c]: what c knows of the lease it holds, id 0 for none
  releases,   \* ReleaseLock calls on their way
  issued      \* lease ids handed out: 1..issued

lockVars == <<clock, held, lastSweep, lease, releases, issued>>

Free == [id |-> 0, expires |-> 0]

\* Mutant: a released lease leaves its id behind.
NoLeaseUndone(n) == [name |-> n, id |-> 1, until |-> 0]

NoLease(n) == [name |-> n, id |-> 0, until |-> 0]

LockInit ==
  /\ clock = 0
  /\ held = [n \in Names |-> Free]
  /\ lastSweep = 0
  /\ lease \in [Clients -> {NoLease(n) : n \in Names}]
  /\ releases = {}
  /\ issued = 0

Held == {n \in Names : held[n].id # 0}

Expired(now, deadline) == now >= deadline

SweepDue == clock - lastSweep >= SweepInterval

Swept ==
  [n \in Names |-> IF SweepDue /\ Expired(clock, held[n].expires) THEN Free ELSE held[n]]

\* Mutant: the answer rounds the deadline to the next second.
RoundedUp(t) == t + ((-t) % Second)

\* time.Time.Unix drops the fraction of the second.
Unix(t) == t - (t % Second)

\* Mutant: the cap is compared with one more than it allows.
HasPlaceLoose(h, n) ==
  h[n].id # 0 \/ Cardinality({m \in Names : h[m].id # 0}) <= MaxHeld

HasPlace(h, n) ==
  h[n].id # 0 \/ Cardinality({m \in Names : h[m].id # 0}) < MaxHeld

CanTake(h, n) ==
  /\ h[n].id # 0 => Expired(clock, h[n].expires)
  /\ HasPlace(h, n)

Sweep == lastSweep' = IF SweepDue THEN clock ELSE lastSweep

\* tryAcquire takes the lock.  The answer may be lost, and c then knows nothing.
TryAcquire(c, n) ==
  /\ lease[c].id = 0 /\ issued < MaxLeases
  /\ CanTake(Swept, n)
  /\ Sweep
  /\ issued' = issued + 1
  /\ LET deadline == clock + Ttl[c]
     IN /\ held' = [Swept EXCEPT ![n] = [id |-> issued + 1, expires |-> deadline]]
        /\ \/ lease' = [lease EXCEPT ![c] =
                          [name |-> n, id |-> issued + 1, until |-> Unix(deadline)]]
           \/ UNCHANGED lease
  /\ UNCHANGED <<clock, releases>>

\* tryAcquire is refused; it has swept the table all the same.
TryAcquireFails(c, n) ==
  /\ lease[c].id = 0
  /\ ~CanTake(Swept, n)
  /\ Sweep
  /\ held' = Swept
  /\ UNCHANGED <<clock, lease, releases, issued>>

Owns(c) ==
  /\ held[lease[c].name].id = lease[c].id
  /\ ~Expired(clock, held[lease[c].name].expires)

\* Renew extends the lease; when the answer is lost c keeps the old deadline.
Renew(c) ==
  /\ lease[c].id # 0 /\ Owns(c)
  /\ LET deadline == clock + Ttl[c]
     IN /\ held' = [held EXCEPT ![lease[c].name].expires = deadline]
        /\ \/ lease' = [lease EXCEPT ![c].until = Unix(deadline)]
           \/ UNCHANGED lease
  /\ UNCHANGED <<clock, lastSweep, releases, issued>>

\* Renew is refused: the deadline in the answer is the zero second.
RenewFails(c) ==
  /\ lease[c].id # 0 /\ ~Owns(c)
  /\ lease' = [lease EXCEPT ![c].until = 0]
  /\ UNCHANGED <<clock, held, lastSweep, releases, issued>>

\* c sends ReleaseLock and is done with the lock, however late that is.
SendRelease(c) ==
  /\ lease[c].id # 0
  /\ releases' = releases \cup {[name |-> lease[c].name, id |-> lease[c].id]}
  /\ lease' = [lease EXCEPT ![c] = NoLease(lease[c].name)]
  /\ UNCHANGED <<clock, held, lastSweep, issued>>

\* The call is lost, or the plugin died before it was made.
LoseRelease(r) ==
  /\ releases' = releases \ {r}
  /\ UNCHANGED <<clock, held, lastSweep, lease, issued>>

\* Mutant: the lease id is not looked at.
ReleaseAny(r) ==
  /\ releases' = releases \ {r}
  /\ held' = [held EXCEPT ![r.name] = Free]
  /\ UNCHANGED <<clock, lastSweep, lease, issued>>

Release(r) ==
  /\ releases' = releases \ {r}
  /\ held' = IF held[r.name].id = r.id THEN [held EXCEPT ![r.name] = Free] ELSE held
  /\ UNCHANGED <<clock, lastSweep, lease, issued>>

Tick ==
  /\ clock < MaxClock
  /\ clock' = clock + 1
  /\ UNCHANGED <<held, lastSweep, lease, releases, issued>>

LockNext ==
  \/ \E c \in Clients, n \in Names : TryAcquire(c, n) \/ TryAcquireFails(c, n)
  \/ \E c \in Clients : Renew(c) \/ RenewFails(c) \/ SendRelease(c)
  \/ \E r \in releases : LoseRelease(r) \/ Release(r)
  \/ Tick

LockSpec == LockInit /\ [][LockNext]_lockVars

-----------------------------------------------------------------------------
(* Properties.                                                             *)

\* The variables have their types, and ids are the ones handed out.
LockTypeOK ==
  /\ clock \in Nat /\ lastSweep \in Nat /\ issued \in Nat
  /\ held \in [Names -> [id : 0..issued, expires : Nat]]
  /\ lease \in [Clients -> [name : Names, id : 0..issued, until : Nat]]
  /\ releases \subseteq [name : Names, id : 1..issued]

\* A client whose lease, by the deadline it was told, is not over.
Holds(c) == lease[c].id # 0 /\ clock < lease[c].until

\* Mutual exclusion: two clients never both believe they hold the same lock,
\* whatever answers were lost, however late a release arrives and whatever the
\* sweep removed (memory.go:293-295).
OneHolder ==
  \A c, d \in Clients :
    Holds(c) /\ Holds(d) /\ lease[c].name = lease[d].name => c = d

\* The table never holds more than MaxHeld locks (memory.go:167-174).
HeldIsBounded == Cardinality(Held) <= MaxHeld

\* What OneHolder rests on: a client that believes it holds the lock has the
\* entry of the table, which does not end before the client thinks; ids are
\* never shared.
LeaseIsKept ==
  /\ \A c \in Clients : lease[c].id # 0 =>
       LET h == held[lease[c].name]
       IN /\ h.id = lease[c].id => /\ lease[c].until <= h.expires
                                  /\ h.expires <= clock + Ttl[c]
          /\ clock < lease[c].until => h.id = lease[c].id
  /\ \A c, d \in Clients : lease[c].id # 0 /\ lease[c].id = lease[d].id => c = d
  /\ \A c \in Clients, r \in releases : lease[c].id # r.id

\* Leases exclude each other, last as long as their holders were told, and stay
\* within the table's limit (memory.go:167-174, :293-295).
LocksAreLeases == OneHolder /\ LeaseIsKept /\ HeldIsBounded
=============================================================================

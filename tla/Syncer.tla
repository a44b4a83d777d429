------------------------------- MODULE Syncer -------------------------------
(***************************************************************************)
(* The example plugin syncer: its replicas consume one queue and serialise *)
(* the work on an account by a lock of Core's.  Work that finds the account*)
(* locked is put back as a new message.  One account is modelled; queue    *)
(* and lock are modelled by what Core does with the calls.                 *)
(* Source: extension-example/syncer/main.go.                               *)
(***************************************************************************)
EXTENDS Naturals, FiniteSets

CONSTANTS
  SyncReplicas,
  SyncJobs,        \* jobs that are accepted; at first, message j is job j
  MaxJobMessages,  \* bound: messages in a behaviour
  MaxRequeues,     \* maxRequeues
  JobAttempts,     \* max_attempts of a message
  NoReplica

ASSUME SyncerAssumption == SyncJobs \subseteq 1..MaxJobMessages /\ NoReplica \notin SyncReplicas

VARIABLES
  jobMessage,  \* jobMessage[m]: the message m of the queue
  worker,      \* worker[r]: the handler of r, on which message
  stray,       \* stray[r]: jobs whose doWork goes on in r without its handler
  lockedBy,    \* who holds the lease on the account
  synced,      \* jobs whose work was done
  lapsed       \* a lease lapsed under a replica that still worked

syncerVars == <<jobMessage, worker, stray, lockedBy, synced, lapsed>>

JobMessages == 1..MaxJobMessages
NoMessage == [status |-> "new", job |-> 0, requeues |-> 0, attempts |-> 0]
AtRest == [at |-> "idle", message |-> 0, ok |-> FALSE]

JobOf(r) == jobMessage[worker[r].message].job
Working(r) == worker[r].at = "work" \/ stray[r] # {}

SyncerInit ==
  /\ jobMessage = [m \in JobMessages |-> NoMessage]
  /\ worker = [r \in SyncReplicas |-> AtRest]
  /\ stray = [r \in SyncReplicas |-> {}]
  /\ lockedBy = NoReplica /\ synced = {} /\ lapsed = FALSE

WorkerGoes(r, where) == worker' = [worker EXCEPT ![r].at = where]

\* The handler returns, once the lease is released.
Returns(r, ok) == worker' = [worker EXCEPT ![r].at = "report", ![r].ok = ok]
Leaves(r, ok) == worker' = [worker EXCEPT ![r].at = "release", ![r].ok = ok]

-----------------------------------------------------------------------------
(* The queue.                                                              *)

EnqueueJob(j) ==
  /\ jobMessage[j] = NoMessage
  /\ jobMessage' = [jobMessage EXCEPT ![j] = [NoMessage EXCEPT !.status = "pending", !.job = j]]
  /\ UNCHANGED <<worker, stray, lockedBy, synced, lapsed>>

ReceiveJob(r, m) ==
  /\ worker[r].at = "idle" /\ jobMessage[m].status = "pending"
  /\ jobMessage' = [jobMessage EXCEPT ![m].status = "claimed", ![m].attempts = @ + 1]
  /\ worker' = [worker EXCEPT ![r] = [at |-> "acquire", message |-> m, ok |-> FALSE]]
  /\ UNCHANGED <<stray, lockedBy, synced, lapsed>>

\* Mutant: the last attempt is not counted.
BackAgain(m) == jobMessage' = [jobMessage EXCEPT ![m].status = "pending"]

\* A delivery that did not succeed.
BackInQueue(m) ==
  jobMessage' = [jobMessage EXCEPT ![m].status =
                   IF jobMessage[m].attempts >= JobAttempts THEN "dead" ELSE "pending"]

\* The visibility timeout passes, also while a replica still works.
JobReappears(m) ==
  /\ jobMessage[m].status = "claimed"
  /\ BackInQueue(m)
  /\ UNCHANGED <<worker, stray, lockedBy, synced, lapsed>>

\* Ack or nack, which match a message that is claimed, whoever claimed it.
Reported(r) ==
  LET m == worker[r].message IN
  IF jobMessage[m].status # "claimed" THEN UNCHANGED jobMessage
  ELSE IF worker[r].ok THEN jobMessage' = [jobMessage EXCEPT ![m].status = "done"]
  ELSE BackInQueue(m)

Reports(r) ==
  /\ worker[r].at = "report"
  /\ Reported(r)
  /\ worker' = [worker EXCEPT ![r] = AtRest]
  /\ UNCHANGED <<stray, lockedBy, synced, lapsed>>

\* The call fails, before Core has done it or after.  A nack's error is ignored;
\* an ack's ends Consume, and nothing in the process starts it again.
ReportLost(r) ==
  /\ worker[r].at = "report"
  /\ Reported(r) \/ UNCHANGED jobMessage
  /\ worker' = [worker EXCEPT ![r] = [AtRest EXCEPT !.at = IF worker[r].ok THEN "stopped" ELSE "idle"]]
  /\ UNCHANGED <<stray, lockedBy, synced, lapsed>>

\* Recv fails.
ConsumerEnds(r) ==
  /\ worker[r].at = "idle"
  /\ WorkerGoes(r, "stopped")
  /\ UNCHANGED <<jobMessage, stray, lockedBy, synced, lapsed>>

-----------------------------------------------------------------------------
(* The lock.                                                               *)

\* acquire, the first time or from handleBusy; then doWork is begun.
Acquires(r) ==
  /\ worker[r].at \in {"acquire", "hold"} /\ lockedBy = NoReplica
  /\ lockedBy' = r
  /\ WorkerGoes(r, "work")
  /\ UNCHANGED <<jobMessage, stray, synced, lapsed>>

\* The call fails, before the lease is written or after.
AcquireFails(r) ==
  /\ worker[r].at \in {"acquire", "hold"}
  /\ lockedBy' \in {lockedBy, IF lockedBy = NoReplica THEN r ELSE lockedBy}
  /\ Returns(r, FALSE)
  /\ UNCHANGED <<jobMessage, stray, synced, lapsed>>

\* The lease expires: its holder did not renew in time, or is no more.
LeaseLapses ==
  /\ lockedBy # NoReplica
  /\ lapsed' = (lapsed \/ Working(lockedBy))
  /\ lockedBy' = NoReplica
  /\ UNCHANGED <<jobMessage, worker, stray, synced>>

\* Renew finds the lease gone, or fails: the handler returns errLostLock, and
\* doWork goes on.
RenewLost(r) ==
  /\ worker[r].at = "work"
  /\ stray' = [stray EXCEPT ![r] = @ \cup {JobOf(r)}]
  /\ Leaves(r, FALSE)
  /\ UNCHANGED <<jobMessage, lockedBy, synced, lapsed>>

\* Mutant: whoever holds the lease, it is gone.
ReleasesAny(r) ==
  /\ worker[r].at = "release"
  /\ lockedBy' = NoReplica
  /\ lapsed' = (lapsed \/ (lockedBy = r /\ Working(r)))
  /\ Returns(r, worker[r].ok)
  /\ UNCHANGED <<jobMessage, stray, synced>>

\* The deferred Release, of one's own lease; an error leaves it to expire.
Releases(r) ==
  /\ worker[r].at = "release"
  /\ \/ /\ lockedBy' = IF lockedBy = r THEN NoReplica ELSE lockedBy
        /\ lapsed' = (lapsed \/ (lockedBy = r /\ Working(r)))
     \/ UNCHANGED <<lockedBy, lapsed>>
  /\ Returns(r, worker[r].ok)
  /\ UNCHANGED <<jobMessage, stray, synced>>

-----------------------------------------------------------------------------
(* handleBusy.                                                             *)

FindsBusy(r) ==
  /\ worker[r].at = "acquire" /\ lockedBy # NoReplica
  /\ WorkerGoes(r, IF jobMessage[worker[r].message].requeues < MaxRequeues THEN "requeue" ELSE "hold")
  /\ UNCHANGED <<jobMessage, stray, lockedBy, synced, lapsed>>

\* The job as a message of its own, with a fresh budget of attempts.
PutBack(r) ==
  \E m \in JobMessages \ SyncJobs :
    /\ jobMessage[m] = NoMessage /\ \A n \in JobMessages \ SyncJobs : n < m => jobMessage[n] # NoMessage
    /\ jobMessage' = [jobMessage EXCEPT ![m] =
         [NoMessage EXCEPT !.status = "pending", !.job = JobOf(r),
                           !.requeues = jobMessage[worker[r].message].requeues + 1]]

Requeues(r) ==
  /\ worker[r].at = "requeue"
  /\ PutBack(r)
  /\ Returns(r, TRUE)
  /\ UNCHANGED <<stray, lockedBy, synced, lapsed>>

\* Mutant: a republish that fails is taken for one that succeeded.
RequeueFailsDone(r) ==
  /\ worker[r].at = "requeue"
  /\ PutBack(r) \/ UNCHANGED jobMessage
  /\ Returns(r, TRUE)
  /\ UNCHANGED <<stray, lockedBy, synced, lapsed>>

\* The queue is full, or the answer is lost: it waits for the lock instead.
RequeueFails(r) ==
  /\ worker[r].at = "requeue"
  /\ PutBack(r) \/ UNCHANGED jobMessage
  /\ WorkerGoes(r, "hold")
  /\ UNCHANGED <<stray, lockedBy, synced, lapsed>>

\* errStuck.
StaysBusy(r) ==
  /\ worker[r].at = "hold" /\ lockedBy # NoReplica
  /\ Returns(r, FALSE)
  /\ UNCHANGED <<jobMessage, stray, lockedBy, synced, lapsed>>

-----------------------------------------------------------------------------
(* doWork.                                                                 *)

WorkEnds(r, ok) ==
  /\ worker[r].at = "work"
  /\ synced' = IF ok THEN synced \cup {JobOf(r)} ELSE synced
  /\ Leaves(r, ok)
  /\ UNCHANGED <<jobMessage, stray, lockedBy, lapsed>>

\* Work whose handler has returned ends, too.
StrayEnds(r, j) ==
  /\ j \in stray[r]
  /\ stray' = [stray EXCEPT ![r] = @ \ {j}]
  /\ synced' \in {synced, synced \cup {j}}
  /\ UNCHANGED <<jobMessage, worker, lockedBy, lapsed>>

\* The context ends, for the handler and for doWork.
SyncDrains(r) ==
  /\ worker[r].at = "work"
  /\ stray' = [stray EXCEPT ![r] = {}]
  /\ Leaves(r, FALSE)
  /\ UNCHANGED <<jobMessage, lockedBy, synced, lapsed>>

SyncCrashes(r) ==
  /\ worker[r].at # "idle" \/ stray[r] # {}
  /\ worker' = [worker EXCEPT ![r] = AtRest]
  /\ stray' = [stray EXCEPT ![r] = {}]
  /\ UNCHANGED <<jobMessage, lockedBy, synced, lapsed>>

SyncerNext ==
  \/ \E j \in SyncJobs : EnqueueJob(j)
  \/ \E m \in JobMessages : JobReappears(m)
  \/ LeaseLapses
  \/ \E r \in SyncReplicas :
       \/ \E m \in JobMessages : ReceiveJob(r, m)
       \/ Acquires(r) \/ AcquireFails(r) \/ FindsBusy(r) \/ Requeues(r) \/ RequeueFails(r)
       \/ StaysBusy(r) \/ RenewLost(r) \/ Releases(r) \/ Reports(r) \/ ReportLost(r) \/ ConsumerEnds(r)
       \/ SyncDrains(r) \/ SyncCrashes(r)
       \/ (\E ok \in BOOLEAN : WorkEnds(r, ok)) \/ \E j \in SyncJobs : StrayEnds(r, j)

SyncerSpec == SyncerInit /\ [][SyncerNext]_syncerVars

-----------------------------------------------------------------------------
(* Properties.                                                             *)

\* The variables have their types.
SyncerTypeOK ==
  /\ \A m \in JobMessages :
       /\ jobMessage[m].status \in {"new", "pending", "claimed", "done", "dead"}
       /\ jobMessage[m].requeues \in 0..MaxRequeues /\ jobMessage[m].attempts \in 0..JobAttempts
  /\ \A r \in SyncReplicas : stray[r] \subseteq SyncJobs
  /\ lockedBy \in SyncReplicas \cup {NoReplica} /\ synced \subseteq SyncJobs

\* A job that was accepted is done, still queued, or dead where an operator sees
\* it, however often it is put back, and whichever calls fail (main.go:276-278,
\* "would lose the work entirely").
NoJobIsLost ==
  \A j \in SyncJobs : jobMessage[j] = NoMessage \/ j \in synced
    \/ \E m \in JobMessages : jobMessage[m].job = j /\ jobMessage[m].status \in {"pending", "claimed", "dead"}

\* Two replicas work on the account at once only when a lease ended under one that
\* still worked: a crash, a lost answer or a message that is delivered twice is not
\* enough.  The lease that ends is enough, although a replica that finds it gone is
\* to "stop rather than finish, because finishing is what would double-write"
\* (main.go:182-183): the handler returns, and doWork, which nothing cancels, goes
\* on to its end (:184-185).
OverlapNeedsLostLease ==
  lapsed \/ Cardinality({r \in SyncReplicas : Working(r)}) <= 1

\* Accepted work survives crashes, lost answers and redeliveries, and they do not
\* put two replicas on an account (syncer/main.go:180-185, :276-278).
SyncerIsSafe == NoJobIsLost /\ OverlapNeedsLostLease
=============================================================================

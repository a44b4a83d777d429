------------------------------ MODULE Instance ------------------------------
(***************************************************************************)
(* One plugin process and the goroutines that touch it concurrently:      *)
(* requests reserving and releasing capacity, the goroutine that stops it  *)
(* (a drain, a quarantine or the rollback of a launch) and the supervisor's *)
(* watcher.  Every field of the Go struct is atomic, so each atomic load,  *)
(* store or add that another goroutine can see is a step of its own.       *)
(* Source: core/pluginhost/instance.go, and the callers of its methods in  *)
(* manager.go, registry.go and supervisor.go.                              *)
(***************************************************************************)
EXTENDS Integers, FiniteSets

CONSTANT Requests   \* the requests that hold a snapshot naming the instance

ASSUME RequestsFinite == IsFiniteSet(Requests)

VARIABLES
  state,      \* Instance.state
  inflight,   \* Instance.inflight
  alive,      \* the child process runs (external)
  registered, \* the instance is among the replicas of the current snapshot
  req,        \* req[r]: how far request r is in BeginRequest and its release
  stopper,    \* how far the goroutine that stops the instance is
  outcome,    \* what Drain observed: "none", "clean" or "dirty"
  watcher     \* how far the supervisor's watchLoop is

vars == <<state, inflight, alive, registered, req, stopper, outcome, watcher>>

State == {"starting", "ready", "draining", "stopped", "failed", "quarantined"}

ReqPc == {"idle", "checked", "counted", "admitted", "ended", "refused"}

StopperPc == {"none", "drain", "shutdown", "waiting", "quarantine", "kill",
              "settle", "done"}

WatcherPc == {"off", "polling", "exited", "stateOk", "unexpected", "done"}

(***************************************************************************)
(* The state words the code groups together.                               *)
(***************************************************************************)
Servable(s) == s \in {"ready", "draining"}

\* The states in which isUnexpected takes an exit for a deliberate stop.
DeliberateStop(s) == s \in {"draining", "stopped", "quarantined"}

\* The requests that Instance.inflight counts.
Counted == {r \in Requests : req[r] \in {"counted", "admitted"}}

Init ==
  /\ state = "starting"
  /\ inflight = 0
  /\ alive = TRUE
  /\ registered = FALSE
  /\ req = [r \in Requests |-> "idle"]
  /\ stopper = "none"
  /\ outcome = "none"
  /\ watcher = "off"

-----------------------------------------------------------------------------
(* Launch and registration.                                                *)

\* Launch returns an instance it has already marked ready.
MarkReady ==
  /\ state = "starting"
  /\ state' = "ready"
  /\ UNCHANGED <<inflight, alive, registered, req, stopper, outcome, watcher>>

\* InstallPlugin publishes the instance, and the caller then starts a watcher.
Install ==
  /\ state = "ready"
  /\ ~registered
  /\ stopper = "none"
  /\ watcher = "off"
  /\ registered' = TRUE
  /\ watcher' = "polling"
  /\ UNCHANGED <<state, inflight, alive, req, stopper, outcome>>

\* launchAll kills the replicas already started when a later one fails.
RollbackLaunch ==
  /\ state = "ready"
  /\ ~registered
  /\ stopper = "none"
  /\ watcher = "off"
  /\ stopper' = "kill"
  /\ UNCHANGED <<state, inflight, alive, registered, req, outcome, watcher>>

\* Another registry change takes the instance out of the snapshot.  Disable,
\* Swap and DrainAll hand it to a drain, recover to a quarantine; Enable and a
\* restart install over it and stop nothing.
Displace ==
  /\ registered
  /\ registered' = FALSE
  /\ stopper' \in {"drain", "quarantine", "none"}
  /\ UNCHANGED <<state, inflight, alive, req, outcome, watcher>>

-----------------------------------------------------------------------------
(* BeginRequest and the release it returns.                                *)

\* The first look at the state.
BeginCheck(r) ==
  /\ req[r] = "idle"
  /\ state # "starting"
  /\ req' = [req EXCEPT ![r] = IF state = "ready" THEN "checked" ELSE "refused"]
  /\ UNCHANGED <<state, inflight, alive, registered, stopper, outcome, watcher>>

BeginCount(r) ==
  /\ req[r] = "checked"
  /\ inflight' = inflight + 1
  /\ req' = [req EXCEPT ![r] = "counted"]
  /\ UNCHANGED <<state, alive, registered, stopper, outcome, watcher>>

\* Mutant: the request is admitted without looking at the state again.
BeginRecheckSkipped(r) ==
  /\ req[r] = "counted"
  /\ req' = [req EXCEPT ![r] = "admitted"]
  /\ UNCHANGED <<state, inflight, alive, registered, stopper, outcome, watcher>>

\* The second look, after the increment: a drain that flipped the state in
\* between must not miss this request.
BeginRecheck(r) ==
  /\ req[r] = "counted"
  /\ \/ /\ state = "ready"
        /\ req' = [req EXCEPT ![r] = "admitted"]
        /\ UNCHANGED inflight
     \/ /\ state # "ready"
        /\ req' = [req EXCEPT ![r] = "refused"]
        /\ inflight' = inflight - 1
  /\ UNCHANGED <<state, alive, registered, stopper, outcome, watcher>>

\* Mutant: a release that is not guarded by the done flag.
EndUnguarded(r) ==
  /\ req[r] \in {"admitted", "ended"}
  /\ inflight > -2
  /\ req' = [req EXCEPT ![r] = "ended"]
  /\ inflight' = inflight - 1
  /\ UNCHANGED <<state, alive, registered, stopper, outcome, watcher>>

\* The release.  Calling it again finds the done flag set and changes nothing.
End(r) ==
  /\ req[r] \in {"admitted", "ended"}
  /\ req' = [req EXCEPT ![r] = "ended"]
  /\ inflight' = IF req[r] = "admitted" THEN inflight - 1 ELSE inflight
  /\ UNCHANGED <<state, alive, registered, stopper, outcome, watcher>>

-----------------------------------------------------------------------------
(* Drain, quarantine and terminate.                                        *)

DrainStart ==
  /\ stopper = "drain"
  /\ state' = "draining"
  /\ stopper' = "shutdown"
  /\ UNCHANGED <<inflight, alive, registered, req, outcome, watcher>>

\* Client.Shutdown returned, or its timeout did: the result is ignored.
DrainShutdown ==
  /\ stopper = "shutdown"
  /\ stopper' = "waiting"
  /\ UNCHANGED <<state, inflight, alive, registered, req, outcome, watcher>>

DrainClean ==
  /\ stopper = "waiting"
  /\ inflight <= 0
  /\ outcome' = "clean"
  /\ stopper' = "kill"
  /\ UNCHANGED <<state, inflight, alive, registered, req, watcher>>

\* Mutant: the wait has no deadline and ignores its context.
DrainGiveUpNever ==
  /\ FALSE
  /\ UNCHANGED vars

\* The context was cancelled, or the deadline passed.
DrainGiveUp ==
  /\ stopper = "waiting"
  /\ inflight > 0
  /\ outcome' = "dirty"
  /\ stopper' = "kill"
  /\ UNCHANGED <<state, inflight, alive, registered, req, watcher>>

\* recover marks what it displaced quarantined before killing it.
MarkQuarantined ==
  /\ stopper = "quarantine"
  /\ state' = "quarantined"
  /\ stopper' = "kill"
  /\ UNCHANGED <<inflight, alive, registered, req, outcome, watcher>>

\* terminate, first half: proc.Kill.
Kill ==
  /\ stopper = "kill"
  /\ alive' = FALSE
  /\ stopper' = "settle"
  /\ UNCHANGED <<state, inflight, registered, req, outcome, watcher>>

\* Mutant: the process is killed but the state is left as it was.
SettleNothing ==
  /\ stopper = "settle"
  /\ stopper' = "done"
  /\ UNCHANGED <<state, inflight, alive, registered, req, outcome, watcher>>

\* terminate, second half: the compare-and-swap loop.
Settle ==
  /\ stopper = "settle"
  /\ state' = IF state = "quarantined" THEN state ELSE "stopped"
  /\ stopper' = "done"
  /\ UNCHANGED <<inflight, alive, registered, req, outcome, watcher>>

-----------------------------------------------------------------------------
(* The supervisor's watcher.                                               *)

\* The child process dies on its own (external).
Crash ==
  /\ alive
  /\ alive' = FALSE
  /\ UNCHANGED <<state, inflight, registered, req, stopper, outcome, watcher>>

WatchPoll ==
  /\ watcher = "polling"
  /\ ~alive
  /\ watcher' = "exited"
  /\ UNCHANGED <<state, inflight, alive, registered, req, stopper, outcome>>

\* isUnexpected reads the state, then the registry.
WatchState ==
  /\ watcher = "exited"
  /\ watcher' = IF DeliberateStop(state) THEN "done" ELSE "stateOk"
  /\ UNCHANGED <<state, inflight, alive, registered, req, stopper, outcome>>

WatchRegistry ==
  /\ watcher = "stateOk"
  /\ watcher' = IF registered THEN "unexpected" ELSE "done"
  /\ UNCHANGED <<state, inflight, alive, registered, req, stopper, outcome>>

WatchMarkFailed ==
  /\ watcher = "unexpected"
  /\ state' = "failed"
  /\ watcher' = "done"
  /\ UNCHANGED <<inflight, alive, registered, req, stopper, outcome>>

-----------------------------------------------------------------------------
Stop ==
  \/ DrainStart \/ DrainShutdown \/ DrainClean \/ DrainGiveUp
  \/ MarkQuarantined \/ Kill \/ Settle

Watch == WatchPoll \/ WatchState \/ WatchRegistry \/ WatchMarkFailed

Next ==
  \/ MarkReady \/ Install \/ RollbackLaunch \/ Displace
  \/ \E r \in Requests :
       BeginCheck(r) \/ BeginCount(r) \/ BeginRecheck(r) \/ End(r)
  \/ Stop \/ Crash \/ Watch

Spec == Init /\ [][Next]_vars

-----------------------------------------------------------------------------
(* Properties.                                                             *)

\* The variables have their types.
TypeOK ==
  /\ state \in State
  /\ inflight \in Nat
  /\ alive \in BOOLEAN
  /\ registered \in BOOLEAN
  /\ req \in [Requests -> ReqPc]
  /\ stopper \in StopperPc
  /\ outcome \in {"none", "clean", "dirty"}
  /\ watcher \in WatcherPc

\* Instance.inflight is exactly the number of requests between their increment
\* and their one effective release, however often the release is called.
InflightExact == inflight = Cardinality(Counted)

\* A drain that reports no error killed nobody's work: once it has seen the
\* count at zero no request is, or ever again becomes, admitted (the re-check
\* in BeginRequest, instance.go:173-179).
CleanDrainAbandonsNothing ==
  outcome = "clean" => \A r \in Requests : req[r] # "admitted"

\* When terminate has returned, the process is gone and the balancer can no
\* longer choose the instance, whatever the watcher and the requests still do.
StoppedIsGone == stopper = "done" => ~alive /\ ~Servable(state)

\* Drain "always terminates the process, even on timeout" (instance.go:191).
DrainTerminates == (stopper = "drain") ~> (stopper = "done")

\* Requests, stoppers and the watcher leave the instance consistent, in every
\* order of their steps: counts are exact, a clean drain loses no request, and
\* what is stopped stays stopped (instance.go:160-189, :191-260).
InstanceIsSafe == InflightExact /\ CleanDrainAbandonsNothing /\ StoppedIsGone
=============================================================================

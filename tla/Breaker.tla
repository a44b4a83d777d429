------------------------------ MODULE Breaker ------------------------------
(***************************************************************************)
(* The circuit breaker of a plugin instance.  It is lock-free, so every    *)
(* atomic load, store or add of Allow, RecordSuccess and RecordFailure is a *)
(* step, and the steps of concurrent calls interleave.  Filters ask before *)
(* they call (pipeline/runner.go); backends call without asking and record *)
(* what came of it (gateway/plugin_handler.go).  Times are what is left of *)
(* them.  Source: core/pluginhost/breaker.go.                              *)
(***************************************************************************)
EXTENDS Integers, FiniteSets

CONSTANTS
  FilterCalls, BackendCalls,  \* the callers, each making one call after the other
  FailureThreshold, OpenDuration, HalfOpenSuccesses

ASSUME BreakerAssumption ==
  /\ IsFiniteSet(FilterCalls \cup BackendCalls)
  /\ {FailureThreshold, OpenDuration, HalfOpenSuccesses} \subseteq Nat \ {0}

VARIABLES
  consecutiveFailures, halfOpenSuccesses, probing,
  openFor,   \* what is left of openUntilNanos; Closed when it is zero
  until,     \* until[c]: the value Allow has loaded
  pc,        \* pc[c]: the next step of caller c
  healthy,   \* the plugin answers its calls (external)
  streak,    \* history: failures counted in a row, since a success or a trip
  erasures   \* history: the resets of earlier trips that fell into the streak

history == <<streak, erasures>>

breakerVars ==
  <<consecutiveFailures, halfOpenSuccesses, probing, openFor, until, pc, healthy, history>>

Callers == FilterCalls \cup BackendCalls

Closed == -1

BreakerInit ==
  /\ consecutiveFailures = 0 /\ halfOpenSuccesses = 0 /\ probing = FALSE
  /\ openFor = Closed
  /\ until = [c \in Callers |-> Closed]
  /\ pc = [c \in Callers |-> "idle"]
  /\ healthy = TRUE
  /\ streak = 0 /\ erasures = 0

Step(c, from, to) == pc[c] = from /\ pc' = [pc EXCEPT ![c] = to]

-----------------------------------------------------------------------------
(* Calls.                                                                  *)

\* Allow loads openUntilNanos; zero is a closed breaker.
AllowLoad(c) ==
  /\ c \in FilterCalls
  /\ Step(c, "idle", IF openFor = Closed THEN "calling" ELSE "asked")
  /\ until' = [until EXCEPT ![c] = openFor]
  /\ UNCHANGED <<consecutiveFailures, halfOpenSuccesses, probing, openFor, healthy, history>>

\* Allow compares with the clock, and claims the probe once the window is over.
AllowProbe(c) ==
  LET probes == until[c] = 0 /\ ~probing
  IN  /\ Step(c, "asked", IF probes THEN "calling" ELSE "idle")
      /\ probing' = (probing \/ probes)
      /\ until' = [until EXCEPT ![c] = Closed]
      /\ UNCHANGED <<consecutiveFailures, halfOpenSuccesses, openFor, healthy, history>>

\* dispatch does not ask.
Dispatch(c) ==
  /\ c \in BackendCalls /\ Step(c, "idle", "calling")
  /\ UNCHANGED <<consecutiveFailures, halfOpenSuccesses, probing, openFor, until, healthy, history>>

CallReturns(c) ==
  /\ Step(c, "calling", IF healthy THEN "succeeded" ELSE "failed")
  /\ UNCHANGED <<consecutiveFailures, halfOpenSuccesses, probing, openFor, until, healthy, history>>

-----------------------------------------------------------------------------
(* RecordSuccess.                                                          *)

ResetFailures(c) ==
  /\ Step(c, "succeeded", "success: load") /\ consecutiveFailures' = 0
  /\ streak' = 0 /\ erasures' = 0
  /\ UNCHANGED <<halfOpenSuccesses, probing, openFor, until, healthy>>

SuccessLoad(c) ==
  /\ Step(c, "success: load", IF openFor = Closed THEN "idle" ELSE "success: add")
  /\ UNCHANGED <<consecutiveFailures, halfOpenSuccesses, probing, openFor, until, healthy, history>>

\* Mutant: the success of a probe is not counted.
AddUncounted(c) ==
  /\ Step(c, "success: add",
          IF halfOpenSuccesses >= HalfOpenSuccesses THEN "close" ELSE "probe over")
  /\ UNCHANGED <<consecutiveFailures, halfOpenSuccesses, probing, openFor, until, healthy, history>>

AddSuccess(c) ==
  /\ Step(c, "success: add",
          IF halfOpenSuccesses + 1 >= HalfOpenSuccesses THEN "close" ELSE "probe over")
  /\ halfOpenSuccesses' = halfOpenSuccesses + 1
  /\ UNCHANGED <<consecutiveFailures, probing, openFor, until, healthy, history>>

CloseBreaker(c) ==
  /\ Step(c, "close", "closed") /\ openFor' = Closed
  /\ UNCHANGED <<consecutiveFailures, halfOpenSuccesses, probing, until, healthy, history>>

ForgetSuccesses(c) ==
  /\ \/ Step(c, "closed", "probe over")
     \/ Step(c, "failed", "failure: load")  \* RecordFailure begins with it
  /\ halfOpenSuccesses' = 0
  /\ UNCHANGED <<consecutiveFailures, probing, openFor, until, healthy, history>>

ProbeOver(c) ==
  /\ Step(c, "probe over", "idle") /\ probing' = FALSE
  /\ UNCHANGED <<consecutiveFailures, halfOpenSuccesses, openFor, until, healthy, history>>

-----------------------------------------------------------------------------
(* RecordFailure.                                                          *)

FailureLoad(c) ==
  /\ Step(c, "failure: load", IF openFor = Closed THEN "failure: add" ELSE "extend")
  /\ UNCHANGED <<consecutiveFailures, halfOpenSuccesses, probing, openFor, until, healthy, history>>

\* Mutant: the threshold is one failure late.
AddLate(c) ==
  /\ Step(c, "failure: add",
          IF consecutiveFailures >= FailureThreshold THEN "trip" ELSE "idle")
  /\ consecutiveFailures' = consecutiveFailures + 1 /\ streak' = streak + 1
  /\ UNCHANGED <<halfOpenSuccesses, probing, openFor, until, healthy, erasures>>

AddFailure(c) ==
  /\ Step(c, "failure: add",
          IF consecutiveFailures + 1 >= FailureThreshold THEN "trip" ELSE "idle")
  /\ consecutiveFailures' = consecutiveFailures + 1 /\ streak' = streak + 1
  /\ UNCHANGED <<halfOpenSuccesses, probing, openFor, until, healthy, erasures>>

\* A failed probe extends the window, the last of a run of failures opens it.
Open(c) ==
  /\ \/ Step(c, "extend", "probe over") /\ UNCHANGED history
     \/ Step(c, "trip", "tripped") /\ streak' = 0 /\ erasures' = 0
  /\ openFor' = OpenDuration
  /\ UNCHANGED <<consecutiveFailures, halfOpenSuccesses, probing, until, healthy>>

Tripped(c) ==
  /\ Step(c, "tripped", "idle") /\ consecutiveFailures' = 0
  /\ erasures' = IF streak > 0 THEN erasures + 1 ELSE erasures
  /\ UNCHANGED <<halfOpenSuccesses, probing, openFor, until, healthy, streak>>

-----------------------------------------------------------------------------
\* Mutant: a window goes on past its end.
LeftPast(t) == t - 1

Left(t) == IF t > 0 THEN t - 1 ELSE t

BreakerTick ==
  /\ openFor > 0 \/ \E c \in Callers : until[c] > 0
  /\ openFor' = Left(openFor)
  /\ until' = [c \in Callers |-> Left(until[c])]
  /\ UNCHANGED <<consecutiveFailures, halfOpenSuccesses, probing, pc, healthy, history>>

PluginChanges ==
  /\ healthy' = ~healthy
  /\ UNCHANGED <<consecutiveFailures, halfOpenSuccesses, probing, openFor, until, pc, history>>

CallerStep(c) ==
  \/ AllowLoad(c) \/ AllowProbe(c) \/ Dispatch(c) \/ CallReturns(c)
  \/ ResetFailures(c) \/ SuccessLoad(c) \/ AddSuccess(c) \/ CloseBreaker(c)
  \/ ForgetSuccesses(c) \/ ProbeOver(c)
  \/ FailureLoad(c) \/ AddFailure(c) \/ Open(c) \/ Tripped(c)

BreakerNext == BreakerTick \/ PluginChanges \/ \E c \in Callers : CallerStep(c)

\* Time passes, and requests keep arriving and being handled: nothing can be
\* said of a plugin nobody calls.
BreakerFairness ==
  /\ WF_breakerVars(BreakerTick)
  /\ \A c \in Callers : WF_breakerVars(CallerStep(c))

BreakerSpec == BreakerInit /\ [][BreakerNext]_breakerVars /\ BreakerFairness

-----------------------------------------------------------------------------
(* Properties.                                                             *)

\* The counters stay within what the calls under way can add to them.
BreakerTypeOK ==
  /\ consecutiveFailures \in 0..(FailureThreshold + Cardinality(Callers))
  /\ halfOpenSuccesses \in 0..(HalfOpenSuccesses + Cardinality(Callers))
  /\ probing \in BOOLEAN /\ healthy \in BOOLEAN
  /\ streak \in Nat /\ erasures \in 0..Cardinality(Callers)
  /\ openFor \in {Closed} \cup 0..OpenDuration
  /\ until \in [Callers -> {Closed} \cup 0..OpenDuration]
  /\ pc \in [Callers -> {"idle", "asked", "calling", "succeeded", "success: load",
               "success: add", "close", "closed", "probe over", "failed",
               "failure: load", "failure: add", "extend", "trip", "tripped"}]

\* "FailureThreshold is how many consecutive failures trip the breaker"
\* (breaker.go:11).  Fewer than that are recorded in a row without a trip, however
\* the steps of concurrent records interleave, save for one case in which the code
\* falls short of that comment: a call that trips the breaker resets the counter
\* only after it has stored the window (:122-123), so that what others have counted
\* of a new streak in between is erased.  Each such reset costs fewer than
\* FailureThreshold failures, and there is at most one for every call in progress.
RunsOfFailuresTrip ==
  (\A c \in Callers : pc[c] \in {"idle", "asked", "calling"})
    => streak <= (1 + erasures) * (FailureThreshold - 1)

\* A plugin that answers again is let back into the request path: once it stays
\* healthy, the breaker closes for good (breaker.go:94-108).  The backends,
\* which record without asking, are what guarantees it.
HealthyIsLetBack == <>[]healthy => <>[](openFor = Closed)

\* "OpenDuration is how long the breaker stays open before allowing a single
\* probe through" (breaker.go:14-15): an open breaker closes, or lets a filter
\* through.
ProbeIsAllowed ==
  openFor # Closed ~> (openFor = Closed \/ \E c \in FilterCalls : pc[c] = "calling")
=============================================================================

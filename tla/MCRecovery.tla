----------------------------- MODULE MCRecovery -----------------------------
(***************************************************************************)
(* What crashes leave behind and is taken up again: the messages of a      *)
(* queue, and the processes of a plugin.  They share no state, so a        *)
(* behaviour exercises one of them.                                        *)
(***************************************************************************)
EXTENDS Queue, PluginHost, TLC

VARIABLE part  \* the component this behaviour exercises

recoveryVars == <<part, vars, hostVars>>

RecoveryInit == part \in {"queue", "host"} /\ Init /\ HostInit

\* A step of one component, in a behaviour that exercises it.
QueueOnly == part = "queue" /\ UNCHANGED <<part, hostVars>>
HostOnly == part = "host" /\ UNCHANGED <<part, vars>>

RecoveryNext ==
  \/ QueueOnly /\ Next
  \/ HostOnly /\ HostNext

\* Queue: time passes, maintenance runs, and so do the loops of Core and of the
\* SDK; a handler ends, one way or the other; a consumer that went down is started
\* again, and some consumer stays connected long enough to claim.  Nothing is
\* assumed of the outcome of a handler, and crashes may go on for ever.
\* Plugin: every goroutine that has started runs: operations begun by an admin,
\* the watchers with their recoveries, and the drains.  Admins need not act and
\* processes need not crash.
RecoveryFairness ==
  /\ WF_recoveryVars(QueueOnly /\ Measure)
  /\ WF_recoveryVars(QueueOnly /\ ReapExpired)
  /\ \A m \in Messages : WF_recoveryVars(QueueOnly /\ Lapse(m))
  /\ \A c \in Consumers :
       /\ WF_recoveryVars(QueueOnly /\ SdkStep(c))
       /\ SF_recoveryVars(QueueOnly /\ StreamStep(c))
       /\ WF_recoveryVars(QueueOnly /\ Connect(c))
  /\ \A a \in Admins : WF_recoveryVars(HostOnly /\ AdminStep(a))
  /\ \A i \in Instances :
       /\ WF_recoveryVars(HostOnly /\ SupStep(i))
       /\ WF_recoveryVars(HostOnly /\ DrainDone(i))

\* Where only safety is checked, admins and consumers are interchangeable.
Symmetry == Permutations(Admins) \cup Permutations(Consumers)

CrashesSpec == RecoveryInit /\ [][RecoveryNext]_recoveryVars

RecoverySpec == CrashesSpec /\ RecoveryFairness

\* The variables of both components have their types.
RecoveryTypeOK == TypeOK /\ HostTypeOK
=============================================================================

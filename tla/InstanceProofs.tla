--------------------------- MODULE InstanceProofs ---------------------------
(***************************************************************************)
(* Proofs about Instance for any finite set of requests: the in-flight     *)
(* count is exact, a clean drain abandons nobody, and a stopped instance is *)
(* gone.                                                                   *)
(***************************************************************************)
EXTENDS Instance, FiniteSetTheorems, TLAPS

\* Once a drain has closed the instance, its state never accepts again: this
\* is what makes the second look in BeginRequest sufficient.
ClosedStaysClosed ==
  (stopper \in {"shutdown", "waiting"} \/ outcome # "none")
    => state \notin {"starting", "ready"}

\* What the goroutine that stops the instance relies on.
StopperInv ==
  /\ registered => stopper = "none"
  /\ stopper \in {"settle", "done"} => ~alive
  /\ stopper = "done" => state \notin {"starting", "ready", "draining"}

\* The inductive invariant.
IInv ==
  /\ TypeOK
  /\ InflightExact
  /\ CleanDrainAbandonsNothing
  /\ ClosedStaysClosed
  /\ StopperInv

-----------------------------------------------------------------------------
\* The counted requests are a finite set, so the count has its usual laws.
LEMMA CountedFinite ==
  /\ IsFiniteSet(Counted)
  /\ Cardinality(Counted) \in Nat
  /\ Cardinality(Counted) = 0 => Counted = {}
<1>1. IsFiniteSet(Counted)
  BY RequestsFinite, FS_Subset DEF Counted
<1> QED
  BY <1>1, FS_CardinalityType, FS_EmptySet

\* The same of the next state, which an exact count turns into a natural number.
LEMMA NextCountIsNat == InflightExact' => inflight' \in Nat
<1>1. IsFiniteSet(Counted')
  BY RequestsFinite, FS_Subset DEF Counted
<1> QED
  BY <1>1, FS_CardinalityType DEF InflightExact

\* The count does not move when no request enters or leaves the counted set.
LEMMA CountedSame ==
  ASSUME Counted' = Counted, inflight' = inflight, InflightExact
  PROVE  InflightExact'
BY DEF InflightExact

\* A request that starts being counted adds exactly one.
LEMMA CountedAdd ==
  ASSUME NEW r, r \notin Counted, Counted' = Counted \cup {r},
         inflight' = inflight + 1, InflightExact
  PROVE  InflightExact'
<1>1. Cardinality(Counted \cup {r}) = Cardinality(Counted) + 1
  BY CountedFinite, FS_AddElement
<1> QED
  BY <1>1 DEF InflightExact

\* A request that stops being counted takes exactly one away.
LEMMA CountedRemove ==
  ASSUME NEW r, r \in Counted, Counted' = Counted \ {r},
         inflight' = inflight - 1, InflightExact
  PROVE  InflightExact'
<1>1. Cardinality(Counted \ {r}) = Cardinality(Counted) - 1
  BY CountedFinite, FS_RemoveElement
<1> QED
  BY <1>1 DEF InflightExact

-----------------------------------------------------------------------------
\* The initial state satisfies the invariant.
LEMMA InitIInv == Init => IInv
<1> SUFFICES ASSUME Init PROVE IInv
  OBVIOUS
<1>1. Counted = {}
  BY DEF Init, Counted
<1>2. InflightExact
  BY <1>1, FS_EmptySet DEF Init, InflightExact
<1>3. TypeOK
  <2>1. alive \in BOOLEAN /\ registered \in BOOLEAN
    BY Zenon DEF Init
  <2> QED
    BY <2>1 DEF Init, TypeOK, State, ReqPc, StopperPc, WatcherPc
<1>4. CleanDrainAbandonsNothing /\ ClosedStaysClosed /\ StopperInv
  BY DEF Init, CleanDrainAbandonsNothing, ClosedStaysClosed, StopperInv
<1> QED
  BY <1>2, <1>3, <1>4 DEF IInv

\* Every step of every goroutine preserves the invariant.
LEMMA NextIInv == IInv /\ [Next]_vars => IInv'
<1> SUFFICES ASSUME IInv, [Next]_vars PROVE IInv'
  OBVIOUS
<1> USE NextCountIsNat DEF IInv, TypeOK, State, ReqPc, StopperPc, WatcherPc
<1>1. CASE \E r \in Requests : BeginCheck(r)
  <2>1. PICK r \in Requests : BeginCheck(r)
    BY <1>1
  <2>2. Counted' = Counted
    BY <2>1 DEF BeginCheck, Counted
  <2>3. InflightExact'
    BY <2>1, <2>2, CountedSame DEF BeginCheck
  <2> QED
    BY <2>1, <2>3 DEF BeginCheck, CleanDrainAbandonsNothing,
       ClosedStaysClosed, StopperInv
<1>2. CASE \E r \in Requests : BeginCount(r)
  <2>1. PICK r \in Requests : BeginCount(r)
    BY <1>2
  <2>2. r \notin Counted /\ Counted' = Counted \cup {r}
    BY <2>1 DEF BeginCount, Counted
  <2>3. InflightExact'
    BY <2>1, <2>2, CountedAdd DEF BeginCount
  <2> QED
    BY <2>1, <2>3 DEF BeginCount, CleanDrainAbandonsNothing,
       ClosedStaysClosed, StopperInv
<1>3. CASE \E r \in Requests : BeginRecheck(r)
  <2>1. PICK r \in Requests : BeginRecheck(r)
    BY <1>3
  <2>2. CASE state = "ready"
    <3>1. Counted' = Counted
      BY <2>1, <2>2 DEF BeginRecheck, Counted
    <3>2. InflightExact'
      BY <2>1, <2>2, <3>1, CountedSame DEF BeginRecheck
    <3> QED
      BY <2>1, <2>2, <3>2 DEF BeginRecheck, CleanDrainAbandonsNothing,
         ClosedStaysClosed, StopperInv
  <2>3. CASE state # "ready"
    <3>1. r \in Counted /\ Counted' = Counted \ {r}
      BY <2>1, <2>3 DEF BeginRecheck, Counted
    <3>2. InflightExact'
      BY <2>1, <2>3, <3>1, CountedRemove DEF BeginRecheck
    <3> QED
      BY <2>1, <2>3, <3>2 DEF BeginRecheck, CleanDrainAbandonsNothing,
         ClosedStaysClosed, StopperInv
  <2> QED
    BY <2>2, <2>3
<1>4. CASE \E r \in Requests : End(r)
  <2>1. PICK r \in Requests : End(r)
    BY <1>4
  <2>2. InflightExact'
    <3>1. CASE req[r] = "admitted"
      <4>1. r \in Counted /\ Counted' = Counted \ {r}
        BY <2>1, <3>1 DEF End, Counted
      <4> QED
        BY <2>1, <3>1, <4>1, CountedRemove DEF End
    <3>2. CASE req[r] # "admitted"
      <4>1. Counted' = Counted
        BY <2>1, <3>2 DEF End, Counted
      <4> QED
        BY <2>1, <3>2, <4>1, CountedSame DEF End
    <3> QED
      BY <3>1, <3>2
  <2> QED
    BY <2>1, <2>2 DEF End, CleanDrainAbandonsNothing, ClosedStaysClosed,
       StopperInv
<1>5. CASE DrainClean
  <2>1. Counted = {}
    BY <1>5, CountedFinite DEF DrainClean, InflightExact
  <2>2. \A r \in Requests : req[r] # "admitted"
    BY <2>1 DEF Counted
  <2>3. InflightExact'
    BY <1>5, CountedSame DEF DrainClean, Counted
  <2> QED
    BY <1>5, <2>2, <2>3 DEF DrainClean, CleanDrainAbandonsNothing,
       ClosedStaysClosed, StopperInv
<1>6. CASE UNCHANGED <<req, inflight>> /\ (~DrainClean)
            /\ (MarkReady \/ Install \/ RollbackLaunch \/ Displace \/ Stop
                \/ Crash \/ Watch)
  <2>1. InflightExact'
    BY <1>6, CountedSame DEF Counted
  <2>2. CASE MarkReady
    BY <2>1, <2>2 DEF MarkReady, CleanDrainAbandonsNothing, ClosedStaysClosed, StopperInv
  <2>3. CASE Install
    BY <2>1, <2>3 DEF Install, CleanDrainAbandonsNothing, ClosedStaysClosed, StopperInv
  <2>4. CASE RollbackLaunch
    BY <2>1, <2>4 DEF RollbackLaunch, CleanDrainAbandonsNothing, ClosedStaysClosed, StopperInv
  <2>5. CASE Displace
    BY <2>1, <2>5, ZenonT(40) DEF Displace, CleanDrainAbandonsNothing, ClosedStaysClosed, StopperInv
  <2>6. CASE DrainStart
    BY <2>1, <2>6 DEF DrainStart, CleanDrainAbandonsNothing, ClosedStaysClosed, StopperInv
  <2>7. CASE DrainShutdown
    BY <2>1, <2>7 DEF DrainShutdown, CleanDrainAbandonsNothing, ClosedStaysClosed, StopperInv
  <2>8. CASE DrainGiveUp
    BY <2>1, <2>8 DEF DrainGiveUp, CleanDrainAbandonsNothing, ClosedStaysClosed, StopperInv
  <2>9. CASE MarkQuarantined
    BY <2>1, <2>9 DEF MarkQuarantined, CleanDrainAbandonsNothing, ClosedStaysClosed, StopperInv
  <2>10. CASE Kill
    BY <2>1, <2>10, ZenonT(40) DEF Kill, CleanDrainAbandonsNothing, ClosedStaysClosed, StopperInv
  <2>11. CASE Settle
    BY <2>1, <2>11 DEF Settle, CleanDrainAbandonsNothing, ClosedStaysClosed, StopperInv
  <2>12. CASE Crash
    BY <2>1, <2>12, ZenonT(40) DEF Crash, CleanDrainAbandonsNothing, ClosedStaysClosed, StopperInv
  <2>13. CASE WatchPoll
    BY <2>1, <2>13 DEF WatchPoll, CleanDrainAbandonsNothing, ClosedStaysClosed, StopperInv
  <2>14. CASE WatchState
    BY <2>1, <2>14 DEF WatchState, CleanDrainAbandonsNothing, ClosedStaysClosed, StopperInv
  <2>15. CASE WatchRegistry
    BY <2>1, <2>15 DEF WatchRegistry, CleanDrainAbandonsNothing, ClosedStaysClosed, StopperInv
  <2>16. CASE WatchMarkFailed
    BY <2>1, <2>16 DEF WatchMarkFailed, CleanDrainAbandonsNothing, ClosedStaysClosed, StopperInv
  <2> QED
    BY <1>6, <2>2, <2>3, <2>4, <2>5, <2>6, <2>7, <2>8, <2>9, <2>10, <2>11, <2>12, <2>13, <2>14, <2>15, <2>16 DEF Stop, Watch
<1>7. CASE UNCHANGED vars
  <2>1. InflightExact'
    BY <1>7, CountedSame DEF vars, Counted
  <2> QED
    BY <1>7, <2>1 DEF vars, CleanDrainAbandonsNothing, ClosedStaysClosed,
       StopperInv
<1>8. MarkReady \/ Install \/ RollbackLaunch \/ Displace \/ Stop \/ Crash \/ Watch
        => UNCHANGED <<req, inflight>>
  BY DEF MarkReady, Install, RollbackLaunch, Displace, Stop, DrainStart,
     DrainShutdown, DrainClean, DrainGiveUp, MarkQuarantined, Kill, Settle,
     Crash, Watch, WatchPoll, WatchState, WatchRegistry, WatchMarkFailed
<1> QED
  BY <1>1, <1>2, <1>3, <1>4, <1>5, <1>6, <1>7, <1>8 DEF Next

-----------------------------------------------------------------------------
\* The invariant holds of every behaviour.
THEOREM InstanceInvariant == Spec => []IInv
BY InitIInv, NextIInv, PTL DEF Spec

\* Instance.inflight counts exactly the requests that hold capacity.
THEOREM InflightIsExact == Spec => []InflightExact
<1>1. IInv => InflightExact
  BY DEF IInv
<1> QED
  BY InstanceInvariant, <1>1, PTL

\* A drain that returns no error killed no admitted request, now or later.
THEOREM CleanDrainIsSafe == Spec => []CleanDrainAbandonsNothing
<1>1. IInv => CleanDrainAbandonsNothing
  BY DEF IInv
<1> QED
  BY InstanceInvariant, <1>1, PTL

\* After terminate the process is dead and the balancer never picks it.
THEOREM StoppedStaysGone == Spec => []StoppedIsGone
<1>1. IInv => StoppedIsGone
  BY DEF IInv, StopperInv, StoppedIsGone, Servable
<1> QED
  BY InstanceInvariant, <1>1, PTL

\* The three together: what the run checks of an instance for three requests
\* holds for any finite set of them.
THEOREM InstanceStaysSafe == Spec => []InstanceIsSafe
BY InflightIsExact, CleanDrainIsSafe, StoppedStaysGone, PTL DEF InstanceIsSafe
=============================================================================

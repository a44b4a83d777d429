--------------------------- MODULE GatewayProofs ---------------------------
(***************************************************************************)
(* For any set of requests, plugins, filters and launches: reservations    *)
(* are counted exactly, and no backend is called past an undecided guard.  *)
(***************************************************************************)
EXTENDS Gateway, FiniteSetTheorems, TLAPS

\* The tasks that hold a reservation on an instance, in a state of the tasks.
Holders(tk, p, g) == {t \in Tasks : tk[t].admitted[p] = g}

\* The log phase of a request starts when its handler is on the way out.
LogWaits ==
  \A r \in Requests :
    task[<<r, "serve">>].at \notin {"releasing", "done"} => task[<<r, "log">>].at = "idle"

IdleHoldsNothing == \A t \in Tasks : task[t].at = "idle" => task[t].admitted = NoneAdmitted

\* The phases a request has behind it on its way to the backend.
Behind(at) ==
  CASE at = "authenticate" -> {"pre_route"}
    [] at = "authorize"    -> {"pre_route", "authenticate"}
    [] at = "pre_handler"  -> {"pre_route", "authenticate", "authorize"}
    [] at \in {"backend", "live"} -> Early
    [] OTHER -> {}

Passed(r, phase, j) == phase \in Behind(r.at) \/ (phase = r.at /\ j < r.next)

Guards(r, phase, j) ==
  /\ Chain[phase][j].failClosed
  /\ Chain[phase][j].routes = Paths
  /\ InChain(r.snap, Chain[phase][j])

\* Every guard the request has passed has decided, it has an identity from the
\* moment Core insists on one, and at its backend its path names a plugin.
Guarded(r) ==
  /\ \A phase \in Early : \A j \in DOMAIN Chain[phase] :
       Passed(r, phase, j) /\ Guards(r, phase, j) => <<phase, j>> \in r.decided
  /\ r.at \in {"pre_handler", "backend", "live"} => r.identity
  /\ r.at \in {"backend", "live"} => r.path \in Plugins

GatewayInv ==
  /\ GatewayTypeOK
  /\ ReservationsAreExact
  /\ LogWaits
  /\ IdleHoldsNothing
  /\ \A t \in Tasks : Guarded(task[t])

(***************************************************************************)
(* The record of a request, updated one field at a time.                   *)
(***************************************************************************)
LEMMA FieldUpdates ==
  ASSUME NEW r \in TaskType
  PROVE  /\ \A v \in Stations : [r EXCEPT !.at = v] \in TaskType
         /\ \A v \in Nat : [r EXCEPT !.next = v] \in TaskType
         /\ \A v \in Nat : [r EXCEPT !.calling = v] \in TaskType
         /\ \A v \in Choices : [r EXCEPT !.snap = v] \in TaskType
         /\ \A v \in Paths : [r EXCEPT !.path = v] \in TaskType
         /\ \A v \in BodySizes : [r EXCEPT !.body = v] \in TaskType
         /\ \A v \in BOOLEAN : [r EXCEPT !.buffered = v] \in TaskType
         /\ \A v \in BOOLEAN : [r EXCEPT !.identity = v] \in TaskType
         /\ \A v \in BOOLEAN : [r EXCEPT !.isPlugin = v] \in TaskType
         /\ \A v \in BOOLEAN : [r EXCEPT !.failed = v] \in TaskType
         /\ \A v \in StatusCodes : [r EXCEPT !.status = v] \in TaskType
         /\ \A v \in StatusCodes : [r EXCEPT !.sent = v] \in TaskType
         /\ \A v \in Choices : [r EXCEPT !.admitted = v] \in TaskType
         /\ \A v \in SUBSET (Phases \X Nat) : [r EXCEPT !.decided = v] \in TaskType
<1>1. \A v \in Stations : [r EXCEPT !.at = v] \in TaskType BY DEF TaskType
<1>2. \A v \in Nat : [r EXCEPT !.next = v] \in TaskType BY DEF TaskType
<1>3. \A v \in Nat : [r EXCEPT !.calling = v] \in TaskType BY DEF TaskType
<1>4. \A v \in Paths : [r EXCEPT !.path = v] \in TaskType BY DEF TaskType
<1>5. \A v \in BOOLEAN : [r EXCEPT !.identity = v] \in TaskType BY DEF TaskType
<1>6. \A v \in BOOLEAN : [r EXCEPT !.isPlugin = v] \in TaskType BY DEF TaskType
<1>7. \A v \in BOOLEAN : [r EXCEPT !.failed = v] \in TaskType BY DEF TaskType
<1>8. \A v \in StatusCodes : [r EXCEPT !.status = v] \in TaskType BY DEF TaskType
<1>9. \A v \in StatusCodes : [r EXCEPT !.sent = v] \in TaskType BY DEF TaskType
<1>10. \A v \in Choices : [r EXCEPT !.admitted = v] \in TaskType BY DEF TaskType
<1>11. \A v \in SUBSET (Phases \X Nat) : [r EXCEPT !.decided = v] \in TaskType BY DEF TaskType
<1>12. \A v \in Choices : [r EXCEPT !.snap = v] \in TaskType BY DEF TaskType
<1>13. \A v \in BodySizes : [r EXCEPT !.body = v] \in TaskType BY DEF TaskType
<1>14. \A v \in BOOLEAN : [r EXCEPT !.buffered = v] \in TaskType BY DEF TaskType
<1> QED BY <1>1, <1>2, <1>3, <1>4, <1>5, <1>6, <1>7, <1>8, <1>9, <1>10, <1>11,
           <1>12, <1>13, <1>14

Same(s, r) ==
  /\ s.snap = r.snap /\ s.identity = r.identity /\ s.path = r.path
  /\ s.admitted = r.admitted /\ s.decided = r.decided

LEMMA StationUpdates ==
  ASSUME NEW r \in TaskType, NEW v \in Stations
  PROVE  LET s == [r EXCEPT !.at = v] IN s \in TaskType /\ Same(s, r) /\ s.at = v
<1>1. [r EXCEPT !.at = v] \in TaskType
  BY FieldUpdates
<1>2. Same([r EXCEPT !.at = v], r) /\ [r EXCEPT !.at = v].at = v
  BY DEF TaskType, Same
<1> QED BY <1>1, <1>2

\* An answer is sent, and the status that is recorded stays.
LEMMA SentUpdates ==
  ASSUME NEW r \in TaskType, NEW code \in StatusCodes
  PROVE  LET s == [r EXCEPT !.at = "leaving", !.sent = code]
         IN s \in TaskType /\ Same(s, r) /\ s.at = "leaving"
<1> DEFINE r1 == [r EXCEPT !.at = "leaving"]
           s  == [r1 EXCEPT !.sent = code]
<1>1. r1 \in TaskType
  BY FieldUpdates DEF Stations
<1>2. s \in TaskType
  <2> HIDE DEF r1
  <2> QED BY <1>1, FieldUpdates
<1>3. Same(s, r) /\ s.at = "leaving"
  BY DEF TaskType, Same
<1> QED BY <1>2, <1>3

\* Entering a phase starts at its first filter.
LEMMA EnterUpdates ==
  ASSUME NEW r \in TaskType, NEW phase \in Phases
  PROVE  /\ Enter(r, phase) \in TaskType /\ Same(Enter(r, phase), r)
         /\ Enter(r, phase).at = phase /\ Enter(r, phase).next = 1
<1> DEFINE r1 == [r EXCEPT !.at = phase]
<1>1. r1 \in TaskType
  BY FieldUpdates DEF Stations
<1>2. [r1 EXCEPT !.next = 1] \in TaskType
  <2> HIDE DEF r1
  <2> QED BY <1>1, FieldUpdates
<1>3. Enter(r, phase) \in TaskType
  BY <1>2 DEF Enter
<1>4. /\ Same(Enter(r, phase), r)
      /\ Enter(r, phase).at = phase /\ Enter(r, phase).next = 1
  BY DEF TaskType, Enter, Same
<1> QED BY <1>3, <1>4

\* A refusal ends the request with the status it sends.
LEMMA RefuseUpdates ==
  ASSUME NEW r \in TaskType, NEW code \in StatusCodes
  PROVE  /\ Refuse(r, code) \in TaskType /\ Same(Refuse(r, code), r)
         /\ Refuse(r, code).at = "leaving"
<1> DEFINE r1 == [r EXCEPT !.at = "leaving"]
           r2 == [r1 EXCEPT !.status = code]
<1>1. r1 \in TaskType
  BY FieldUpdates DEF Stations
<1>2. r2 \in TaskType
  <2> HIDE DEF r1
  <2> QED BY <1>1, FieldUpdates
<1>3. [r2 EXCEPT !.sent = code] \in TaskType
  <2> HIDE DEF r2
  <2> QED BY <1>2, FieldUpdates
<1>4. Refuse(r, code) \in TaskType
  BY <1>3 DEF Refuse
<1>5. Same(Refuse(r, code), r) /\ Refuse(r, code).at = "leaving"
  BY DEF TaskType, Refuse, Same
<1> QED BY <1>4, <1>5

LEMMA StatusNormal ==
  ASSUME NEW code \in StatusCodes
  PROVE  NormalizeStatus(code) \in StatusCodes
BY DEF NormalizeStatus, StatusCodes

\* So does a short circuit, whatever status the filter chose.
LEMMA ShortCircuitUpdates ==
  ASSUME NEW r \in TaskType, NEW code \in StatusCodes
  PROVE  /\ ShortCircuit(r, code) \in TaskType /\ Same(ShortCircuit(r, code), r)
         /\ ShortCircuit(r, code).at = "leaving"
<1>1. NormalizeStatus(code) \in StatusCodes
  BY StatusNormal
<1>2. CASE r.at = "log"
  <2>1. [r EXCEPT !.at = "leaving"] \in TaskType
    BY FieldUpdates DEF Stations
  <2>2. ShortCircuit(r, code) = [r EXCEPT !.at = "leaving"]
    BY <1>2 DEF ShortCircuit
  <2>3. Same([r EXCEPT !.at = "leaving"], r) /\ [r EXCEPT !.at = "leaving"].at = "leaving"
    BY DEF TaskType, Same
  <2> QED BY <2>1, <2>2, <2>3
<1>3. CASE r.at # "log"
  <2>1. ShortCircuit(r, code) = Refuse(r, NormalizeStatus(code))
    BY <1>3 DEF ShortCircuit, Refuse
  <2> QED BY <1>1, <2>1, RefuseUpdates
<1> QED BY <1>2, <1>3

\* A filter that cannot be asked ends the request or is passed over.
LEMMA FailureUpdates ==
  ASSUME NEW r \in TaskType, NEW f, NEW j \in Nat, NEW code \in StatusCodes
  PROVE  /\ Failure(r, f, j, code) \in TaskType /\ Same(Failure(r, f, j, code), r)
         /\ \/ Failure(r, f, j, code).at = "leaving"
            \/ /\ ~f.failClosed
               /\ Failure(r, f, j, code).at = r.at /\ Failure(r, f, j, code).next = j + 1
<1>1. CASE f.failClosed
  <2>1. Failure(r, f, j, code) = ShortCircuit(r, code)
    BY <1>1 DEF Failure
  <2> QED BY <2>1, ShortCircuitUpdates
<1>2. CASE ~f.failClosed
  <2> DEFINE s == [r EXCEPT !.next = j + 1]
  <2>1. j + 1 \in Nat
    OBVIOUS
  <2>2. s \in TaskType
    BY <2>1, FieldUpdates
  <2>3. Same(s, r) /\ s.at = r.at /\ s.next = j + 1
    BY <2>1 DEF TaskType, Same
  <2>4. Failure(r, f, j, code) = s
    BY <1>2 DEF Failure
  <2> QED BY <1>2, <2>2, <2>3, <2>4
<1> QED BY <1>1, <1>2
\* A filter's answer is recorded as its decision.
LEMMA DecidedUpdates ==
  ASSUME NEW r \in TaskType, r.at \in Phases, NEW j \in Nat
  PROVE  LET s == Decided(r, j)
         IN /\ s \in TaskType
            /\ s.snap = r.snap /\ s.admitted = r.admitted /\ s.identity = r.identity
            /\ s.decided = r.decided \cup {<<r.at, j>>}
            /\ s.at = r.at /\ s.next = j + 1
<1> DEFINE D  == r.decided \cup {<<r.at, j>>}
           a1 == [r EXCEPT !.calling = 0]
           a2 == [a1 EXCEPT !.next = j + 1]
<1>1. j + 1 \in Nat /\ D \in SUBSET (Phases \X Nat)
  BY DEF TaskType
<1>2. a1 \in TaskType
  BY FieldUpdates
<1>3. a2 \in TaskType
  <2> HIDE DEF a1
  <2> QED BY <1>1, <1>2, FieldUpdates
<1>4. [a2 EXCEPT !.decided = D] \in TaskType
  <2> HIDE DEF a2, D
  <2> QED BY <1>1, <1>3, FieldUpdates
<1>5. Decided(r, j) \in TaskType
  BY <1>4 DEF Decided
<1>6. LET s == Decided(r, j)
      IN /\ s.snap = r.snap /\ s.admitted = r.admitted /\ s.identity = r.identity
         /\ s.decided = D /\ s.at = r.at /\ s.next = j + 1
  BY <1>1 DEF TaskType, Decided
<1> QED BY <1>5, <1>6

\* A mutation takes no identity away.
LEMMA MutatedUpdates ==
  ASSUME NEW r \in TaskType, NEW f \in FilterType, NEW m \in Mutations(r, f),
         NEW q \in TaskType
  PROVE  LET s == Mutated(q, m)
         IN /\ s \in TaskType
            /\ s.snap = q.snap /\ s.admitted = q.admitted /\ s.decided = q.decided
            /\ s.at = q.at /\ s.next = q.next /\ s.identity = m.identity
            /\ r.identity => m.identity
<1>1. m.path \in Paths
  BY DEF TaskType, FilterType, Mutations
<1>2. m.identity \in BOOLEAN /\ (r.identity => m.identity)
  <2> DEFINE may == f.allowIdentity /\ r.at \in {"authenticate", "authorize"}
  <2>1. r.identity \in BOOLEAN /\ may \in BOOLEAN
    BY DEF TaskType, FilterType
  <2>2. m.identity \in {r.identity, r.identity \/ may}
    BY DEF Mutations
  <2> HIDE DEF may
  <2> QED BY <2>1, <2>2, Zenon
<1> DEFINE b1 == [q EXCEPT !.path = m.path]
<1>3. b1 \in TaskType
  BY <1>1, FieldUpdates
<1>4. [b1 EXCEPT !.identity = m.identity] \in TaskType
  <2> HIDE DEF b1
  <2> QED BY <1>2, <1>3, FieldUpdates
<1>5. Mutated(q, m) \in TaskType
  BY <1>4 DEF Mutated
<1>6. LET s == Mutated(q, m)
      IN /\ s.snap = q.snap /\ s.admitted = q.admitted /\ s.decided = q.decided
         /\ s.at = q.at /\ s.next = q.next /\ s.identity = m.identity
  BY DEF TaskType, Mutated
<1> QED BY <1>2, <1>5, <1>6

(***************************************************************************)
(* Guards                                                                  *)
(***************************************************************************)
LEMMA ChainIndex ==
  ASSUME NEW phase \in Phases, NEW j \in DOMAIN Chain[phase]
  PROVE  j \in Nat /\ j >= 1 /\ Chain[phase][j] \in FilterType
BY GatewayAssumption

\* Off the way to the backend nothing is asked of a request.
LEMMA OffTheWay ==
  ASSUME NEW r, r.at \notin Early \cup {"backend", "live"}
  PROVE  Guarded(r)
BY DEF Guarded, Passed, Behind, Early

\* The filter a phase has come to is passed when it decided or guards nothing.
LEMMA FilterPassed ==
  ASSUME NEW t \in Tasks, task[t] \in TaskType, Guarded(task[t]), task[t].at \in Phases,
         NEW j \in DOMAIN Filters(t), Reached(t, j),
         NEW s, s.at = task[t].at, s.next = j + 1, s.snap = task[t].snap,
         task[t].identity => s.identity, task[t].decided \subseteq s.decided,
         ~Filters(t)[j].failClosed \/ <<task[t].at, j>> \in s.decided
  PROVE  Guarded(s)
<1> DEFINE r == task[t]
<1>1. /\ s.at \in {"pre_handler", "backend", "live"} => s.identity
      /\ s.at \notin {"backend", "live"}
  BY DEF Guarded, Phases, Early, Response
<1>2. SUFFICES ASSUME NEW phase \in Early, NEW k \in DOMAIN Chain[phase],
                      Passed(s, phase, k), Guards(s, phase, k)
               PROVE  <<phase, k>> \in s.decided
  BY <1>1 DEF Guarded
<1>3. Guards(r, phase, k)
  BY <1>2 DEF Guards
<1>4. CASE Passed(r, phase, k)
  BY <1>3, <1>4 DEF Guarded
<1>5. CASE ~Passed(r, phase, k)
  <2>1. phase = r.at /\ k < j + 1 /\ ~(k < r.next)
    BY <1>2, <1>5 DEF Passed
  <2>2. k \in Nat /\ j \in Nat /\ r.next \in Nat
    BY <2>1, ChainIndex DEF Filters, TaskType
  <2>3. r.path \in Chain[phase][k].routes
    BY <1>3 DEF Guards, TaskType
  <2>4. k \in Remaining(t)
    BY <1>3, <2>1, <2>2, <2>3 DEF Remaining, Filters, Guards
  <2>5. k = j
    BY <2>1, <2>2, <2>4 DEF Reached
  <2> QED BY <1>3, <2>1, <2>5 DEF Guards, Filters
<1> QED BY <1>4, <1>5

\* A phase that ends leaves no guard undecided.
LEMMA PhasePassed ==
  ASSUME NEW t \in Tasks, task[t] \in TaskType, Guarded(task[t]),
         NEW phase \in Early, PhaseEnds(t, phase),
         NEW s, s.snap = task[t].snap, task[t].decided \subseteq s.decided,
         Behind(s.at) = Behind(phase) \cup {phase},
         s.at \in Phases => s.next = 1,
         s.at \in {"pre_handler", "backend", "live"} => s.identity,
         s.at \in {"backend", "live"} => s.path \in Plugins
  PROVE  Guarded(s)
<1> DEFINE r == task[t]
<1>1. SUFFICES ASSUME NEW p \in Early, NEW k \in DOMAIN Chain[p],
                      Passed(s, p, k), Guards(s, p, k)
               PROVE  <<p, k>> \in s.decided
  BY DEF Guarded
<1>2. Guards(r, p, k)
  BY <1>1 DEF Guards
<1>3. p \in Phases /\ k \in Nat /\ k >= 1 /\ r.next \in Nat /\ r.at = phase
  BY ChainIndex DEF Phases, TaskType, PhaseEnds
<1>4. p \in Behind(phase) \cup {phase}
  BY <1>1, <1>3 DEF Passed
<1>5. CASE Passed(r, p, k)
  BY <1>2, <1>5 DEF Guarded
<1>6. CASE ~Passed(r, p, k)
  <2>1. p = phase /\ ~(k < r.next)
    BY <1>3, <1>4, <1>6 DEF Passed
  <2>2. r.path \in Chain[p][k].routes
    BY <1>2 DEF Guards, TaskType
  <2>3. k \in Remaining(t)
    BY <1>2, <1>3, <2>1, <2>2 DEF Remaining, Filters, Guards
  <2> QED BY <2>3 DEF PhaseEnds
<1> QED BY <1>5, <1>6

(***************************************************************************)
(* Steps                                                                   *)
(***************************************************************************)
LEMMA TasksFinite == IsFiniteSet(Tasks)
<1>1. IsFiniteSet({"serve", "log"})
  <2>1. IsFiniteSet({"serve"}) /\ {"serve", "log"} = {"serve"} \cup {"log"}
    BY FS_Singleton
  <2> QED BY <2>1, FS_AddElement
<1> QED BY <1>1, GatewayAssumption, FS_Product DEF Tasks

LEMMA HoldersFinite ==
  ASSUME NEW tk, NEW p, NEW g
  PROVE  IsFiniteSet(Holders(tk, p, g)) /\ Cardinality(Holders(tk, p, g)) \in Nat
<1>1. IsFiniteSet(Holders(tk, p, g))
  BY TasksFinite, FS_Subset DEF Holders
<1> QED BY <1>1, FS_CardinalityType

Held(r, p, g) == IF r.admitted[p] = g THEN 1 ELSE 0

\* The holders of an instance change by the task that moves.
Follows(tk2, tk, t, p, g) ==
  Cardinality(Holders(tk2, p, g))
    = Cardinality(Holders(tk, p, g)) - Held(tk[t], p, g) + Held(tk2[t], p, g)

LEMMA CountsFollow ==
  ASSUME NEW tk, NEW tk2, NEW t \in Tasks, \A u \in Tasks : u # t => tk2[u] = tk[u],
         NEW p, NEW g
  PROVE  Follows(tk2, tk, t, p, g)
<1> DEFINE H == Holders(tk, p, g)
           Rest == H \ {t}
           H2 == Holders(tk2, p, g)
<1>1. IsFiniteSet(H) /\ Cardinality(H) \in Nat
  BY HoldersFinite
<1>2. /\ IsFiniteSet(Rest) /\ Cardinality(Rest) \in Nat
      /\ Cardinality(Rest) = IF t \in H THEN Cardinality(H) - 1 ELSE Cardinality(H)
  <2> HIDE DEF H
  <2> QED BY <1>1, FS_RemoveElement, FS_CardinalityType
<1>3. t \in H <=> tk[t].admitted[p] = g
  BY DEF Holders
<1>4. H2 = IF tk2[t].admitted[p] = g THEN Rest \cup {t} ELSE Rest
  BY DEF Holders
<1>5. t \notin Rest
  OBVIOUS
<1>6. Cardinality(Rest \cup {t}) = Cardinality(Rest) + 1
  <2> HIDE DEF Rest
  <2> QED BY <1>2, <1>5, FS_AddElement, ZenonT(40)
<1>7. Cardinality(H2) = Cardinality(H) - Held(tk[t], p, g) + Held(tk2[t], p, g)
  <2> HIDE DEF H, Rest, H2
  <2> QED BY <1>1, <1>2, <1>3, <1>4, <1>6 DEF Held
<1> QED BY <1>7 DEF Follows

\* A step of one task, past the start of its life.
LEMMA Steps ==
  ASSUME GatewayInv, NEW t \in Tasks, NEW r \in TaskType,
         task' = [task EXCEPT ![t] = r], UNCHANGED <<current, state>>,
         DOMAIN inFlight' = Plugins,
         \A p \in Plugins :
           /\ inFlight'[p] = [g \in 1..Generations[p] |-> inFlight'[p][g]]
           /\ \A g \in 1..Generations[p] :
                inFlight'[p][g] = inFlight[p][g] - Held(task[t], p, g) + Held(r, p, g),
         Guarded(r), r.at # "idle",
         task[t].at \in {"releasing", "done"} => r.at \in {"releasing", "done"},
         t[2] = "serve" \/ task[t].at # "idle"
  PROVE  GatewayInv'
<1>1. task \in [Tasks -> TaskType] /\ task' \in [Tasks -> TaskType]
  BY DEF GatewayInv, GatewayTypeOK
<1>2. \A p \in Plugins : \A g \in 1..Generations[p] :
        /\ inFlight'[p][g] = Cardinality(Holders(task', p, g))
        /\ inFlight'[p][g] \in Nat
  <2> SUFFICES ASSUME NEW p \in Plugins, NEW g \in 1..Generations[p]
               PROVE  /\ inFlight'[p][g] = Cardinality(Holders(task', p, g))
                      /\ inFlight'[p][g] \in Nat
    BY ZenonT(40)
  <2>1. inFlight[p][g] = Cardinality(Holders(task, p, g))
    BY DEF GatewayInv, ReservationsAreExact, Holders
  <2>2. Cardinality(Holders(task', p, g))
          = Cardinality(Holders(task, p, g)) - Held(task[t], p, g) + Held(r, p, g)
    <3>1. task'[t] = r /\ \A u \in Tasks : u # t => task'[u] = task[u]
      BY <1>1
    <3>2. Follows(task', task, t, p, g)
      BY <3>1, CountsFollow, Zenon
    <3> QED BY <3>1, <3>2 DEF Follows
  <2>3. Cardinality(Holders(task', p, g)) \in Nat
    BY HoldersFinite
  <2> QED BY <2>1, <2>2, <2>3
<1>3. GatewayTypeOK'
  <2>1. \A p \in Plugins : inFlight'[p] \in [1..Generations[p] -> Nat]
    BY <1>2
  <2> QED BY <1>1, <2>1 DEF GatewayInv, GatewayTypeOK
<1>4. ReservationsAreExact'
  BY <1>2 DEF ReservationsAreExact, Holders
<1>5. LogWaits'
  <2> SUFFICES ASSUME NEW q \in Requests,
                      task'[<<q, "serve">>].at \notin {"releasing", "done"}
               PROVE  task'[<<q, "log">>].at = "idle"
    BY DEF LogWaits
  <2>1. <<q, "serve">> \in Tasks /\ <<q, "log">> \in Tasks /\ <<q, "serve">> # <<q, "log">>
    BY DEF Tasks
  <2>2. task[<<q, "serve">>].at \notin {"releasing", "done"}
    BY <1>1, <2>1
  <2>3. task[<<q, "log">>].at = "idle"
    BY <2>2 DEF GatewayInv, LogWaits
  <2>4. t # <<q, "log">>
    BY <2>3
  <2> QED BY <1>1, <2>1, <2>3, <2>4
<1>6. IdleHoldsNothing'
  BY <1>1 DEF GatewayInv, IdleHoldsNothing, NoneAdmitted
<1>7. \A u \in Tasks : Guarded(task[u])'
  <2> SUFFICES ASSUME NEW u \in Tasks PROVE Guarded(task'[u])
    BY ZenonT(40) DEF Guarded, Passed, Guards, Behind, InChain, Paths, Early
  <2>1. CASE u = t
    BY <1>1, <2>1
  <2>2. CASE u # t
    <3>1. task'[u] = task[u] /\ Guarded(task[u])
      BY <1>1, <2>2 DEF GatewayInv
    <3> QED BY <3>1
  <2> QED BY <2>1, <2>2
<1> QED BY <1>3, <1>4, <1>5, <1>6, <1>7 DEF GatewayInv

\* A step that leaves the reservations alone.
LEMMA Moves ==
  ASSUME GatewayInv, NEW t \in Tasks, NEW r \in TaskType, Goes(t, r),
         r.admitted = task[t].admitted, Guarded(r), r.at # "idle",
         task[t].at \notin {"releasing", "done"},
         t[2] = "serve" \/ task[t].at # "idle"
  PROVE  GatewayInv'
<1>1. task' = [task EXCEPT ![t] = r] /\ UNCHANGED <<current, state, inFlight>>
  BY DEF Goes
<1>2. /\ DOMAIN inFlight' = Plugins
      /\ \A p \in Plugins :
           /\ inFlight[p] \in [1..Generations[p] -> Nat]
           /\ inFlight'[p] = [g \in 1..Generations[p] |-> inFlight'[p][g]]
           /\ \A g \in 1..Generations[p] :
                inFlight'[p][g] = inFlight[p][g] - Held(task[t], p, g) + Held(r, p, g)
  <2>1. DOMAIN inFlight = Plugins /\ \A p \in Plugins : inFlight[p] \in [1..Generations[p] -> Nat]
    BY DEF GatewayInv, GatewayTypeOK
  <2>2. \A p \in Plugins : \A g \in 1..Generations[p] :
          inFlight[p][g] \in Nat /\ Held(task[t], p, g) = Held(r, p, g) /\ Held(r, p, g) \in Nat
    BY <2>1, ZenonT(40) DEF Held
  <2>3. \A p \in Plugins : inFlight[p] = [g \in 1..Generations[p] |-> inFlight[p][g]]
    BY <2>1, ZenonT(40)
  <2>4. \A p \in Plugins : \A g \in 1..Generations[p] :
          inFlight[p][g] = inFlight[p][g] - Held(task[t], p, g) + Held(r, p, g)
    BY <2>2
  <2> QED BY <1>1, <2>1, <2>3, <2>4
<1> QED BY <1>1, <1>2, Steps, ZenonT(40)

\* Installing, removing and draining touch no task.
LEMMA EnvironmentKeeps ==
  ASSUME GatewayInv, Environment
  PROVE  GatewayInv'
<1>1. UNCHANGED <<task, inFlight>>
  BY DEF Environment, Install, Remove, BeginDrain, DrainEnds, DrainTimesOut
<1>2. current' \in Choices /\ DOMAIN state' = Plugins
      /\ \A p \in Plugins : state'[p] \in [1..Generations[p] -> Lifecycle]
  <2>0. /\ current \in Choices /\ DOMAIN state = Plugins
        /\ \A p \in Plugins : state[p] \in [1..Generations[p] -> Lifecycle]
    BY DEF GatewayInv, GatewayTypeOK
  <2>1. PICK p \in Plugins :
          \/ Install(p) \/ Remove(p)
          \/ \E g \in 1..Generations[p] : BeginDrain(p, g) \/ DrainEnds(p, g) \/ DrainTimesOut(p, g)
    BY DEF Environment
  <2>2. CASE Install(p)
    <3>1. PICK g \in 1..Generations[p] :
            state' = [state EXCEPT ![p][g] = "ready"] /\ current' = [current EXCEPT ![p] = g]
      BY <2>2, ZenonT(40) DEF Install
    <3>2. g \in Nat /\ g <= Generations[p]
      BY GatewayAssumption
    <3>3. current' \in Choices
      <4>1. current \in [Plugins -> Nat] /\ \A q \in Plugins : current[q] <= Generations[q]
        BY <2>0 DEF Choices
      <4>2. current' \in [Plugins -> Nat]
        BY <3>1, <3>2, <4>1
      <4>3. \A q \in Plugins : current'[q] <= Generations[q]
        BY <3>1, <3>2, <4>1
      <4> QED BY <4>2, <4>3 DEF Choices
    <3> QED BY <2>0, <3>1, <3>3 DEF Lifecycle
  <2>3. CASE Remove(p)
    <3>1. current' \in Choices
      <4>1. current \in [Plugins -> Nat] /\ \A q \in Plugins : current[q] <= Generations[q]
        BY <2>0 DEF Choices
      <4>2. current' \in [Plugins -> Nat]
        BY <2>3, <4>1 DEF Remove
      <4>3. \A q \in Plugins : current'[q] <= Generations[q]
        BY <2>3, <4>1, GatewayAssumption DEF Remove
      <4> QED BY <4>2, <4>3 DEF Choices
    <3> QED BY <2>0, <2>3, <3>1 DEF Remove
  <2>4. CASE \E g \in 1..Generations[p] :
               BeginDrain(p, g) \/ DrainEnds(p, g) \/ DrainTimesOut(p, g)
    <3>1. PICK g \in 1..Generations[p] :
            BeginDrain(p, g) \/ DrainEnds(p, g) \/ DrainTimesOut(p, g)
      BY <2>4
    <3>2. PICK to \in Lifecycle : state' = [state EXCEPT ![p][g] = to] /\ current' = current
      BY <3>1 DEF BeginDrain, DrainEnds, DrainTimesOut, Lifecycle
    <3> QED BY <2>0, <3>2
  <2> QED BY <2>1, <2>2, <2>3, <2>4
<1>3. GatewayTypeOK'
  BY <1>1, <1>2 DEF GatewayInv, GatewayTypeOK
<1>4. ReservationsAreExact' /\ LogWaits' /\ IdleHoldsNothing'
  BY <1>1 DEF GatewayInv, ReservationsAreExact, LogWaits, IdleHoldsNothing, NoneAdmitted
<1>5. \A t \in Tasks : Guarded(task[t])'
  <2> SUFFICES ASSUME NEW t \in Tasks PROVE Guarded(task'[t])
    BY DEF Guarded, Passed, Guards, Behind, InChain, Paths, Early
  <2>1. task'[t] = task[t]
    BY <1>1
  <2> QED BY <2>1 DEF GatewayInv
<1> QED BY <1>3, <1>4, <1>5 DEF GatewayInv

\* A request at its first filter has passed no guard.
LEMMA AtFirstPhase ==
  ASSUME NEW r, r.at = "pre_route", r.next = 1
  PROVE  Guarded(r)
<1> SUFFICES ASSUME NEW phase \in Early, NEW j \in DOMAIN Chain[phase], Passed(r, phase, j)
             PROVE  FALSE
  BY DEF Guarded
<1>1. phase \in Phases
  BY DEF Phases
<1> QED BY <1>1, ChainIndex DEF Passed, Behind

LEMMA FreshType == Fresh \in TaskType /\ Fresh.at = "idle" /\ Fresh.admitted = NoneAdmitted
<1>1. [p \in Plugins |-> 0] \in Choices
  BY GatewayAssumption DEF Choices
<1>2. {} \in SUBSET (Phases \X Nat) /\ 0 \in StatusCodes
  BY DEF StatusCodes
<1> QED BY <1>1, <1>2 DEF Fresh, TaskType, Stations, Paths, BodySizes, NoneAdmitted

LEMMA InitHolds == GatewayInit => GatewayInv
<1> SUFFICES ASSUME GatewayInit PROVE GatewayInv
  OBVIOUS
<1>1. task \in [Tasks -> TaskType] /\ \A t \in Tasks : task[t] = Fresh
  BY FreshType DEF GatewayInit
<1>2. GatewayTypeOK
  <2>1. current \in Choices
    BY GatewayAssumption DEF GatewayInit, Choices
  <2> QED BY <1>1, <2>1 DEF GatewayInit, GatewayTypeOK, Lifecycle
<1>3. ReservationsAreExact
  <2> SUFFICES ASSUME NEW p \in Plugins, NEW g \in 1..Generations[p]
               PROVE  inFlight[p][g] = Cardinality({t \in Tasks : task[t].admitted[p] = g})
    BY DEF ReservationsAreExact
  <2>1. \A t \in Tasks : task[t].admitted[p] = 0
    BY <1>1, FreshType DEF NoneAdmitted
  <2>2. {t \in Tasks : task[t].admitted[p] = g} = {}
    BY <2>1
  <2> QED BY <2>2, FS_EmptySet, ZenonT(40) DEF GatewayInit
<1>4. LogWaits /\ IdleHoldsNothing
  BY <1>1, FreshType DEF LogWaits, IdleHoldsNothing, Tasks
<1>5. \A t \in Tasks : Guarded(task[t])
  BY <1>1, FreshType, OffTheWay DEF Early
<1> QED BY <1>2, <1>3, <1>4, <1>5 DEF GatewayInv

\* A generation that can be served has been launched.
LEMMA ServableRange ==
  ASSUME GatewayInv, NEW p \in Plugins, NEW h \in Choices, Servable(p, h[p])
  PROVE  h[p] \in 1..Generations[p]
<1>1. Generations[p] \in Nat /\ h[p] \in Nat /\ h[p] <= Generations[p] /\ h[p] # 0
  BY GatewayAssumption DEF Choices, Servable
<1> QED BY <1>1

\* Admitting reserves at most once, on the instance that is called.
LEMMA AdmitKeeps ==
  ASSUME GatewayInv, NEW t \in Tasks, NEW p \in Plugins, NEW g \in 1..Generations[p],
         NEW at \in Stations, AdmitAndCall(t, p, g, at), UNCHANGED <<current, state>>,
         task[t].at \notin {"idle", "releasing", "done"}, at # "idle",
         at = task[t].at \/ (task[t].at = "live" /\ at = "backend")
  PROVE  GatewayInv'
<1> DEFINE r == task[t]
           a1 == [r EXCEPT !.calling = g]
           a2 == [a1 EXCEPT !.at = at]
           A  == [r.admitted EXCEPT ![p] = g]
           a3 == [a2 EXCEPT !.admitted = A]
<1>1. r \in TaskType /\ task \in [Tasks -> TaskType] /\ g \in Nat /\ g # 0 /\ g <= Generations[p]
  BY GatewayAssumption DEF GatewayInv, GatewayTypeOK
<1>2. a1 \in TaskType
  BY <1>1, FieldUpdates
<1>3. a2 \in TaskType
  <2> HIDE DEF a1
  <2> QED BY <1>2, FieldUpdates
<1>4. Same(a2, r) /\ a2.at = at /\ a2.next = r.next
  BY <1>1 DEF TaskType, Same
<1>5. A \in Choices
  BY <1>1 DEF TaskType, Choices
<1>6. a3 \in TaskType
  <2> HIDE DEF a2, A
  <2> QED BY <1>3, <1>5, FieldUpdates
<1>7. /\ a3.snap = r.snap /\ a3.identity = r.identity /\ a3.path = r.path
      /\ a3.decided = r.decided
      /\ a3.admitted = A /\ a3.at = at /\ a3.next = r.next
  BY <1>1 DEF TaskType
<1>8. \A s : s.snap = r.snap /\ s.identity = r.identity /\ s.path = r.path
             /\ s.decided = r.decided /\ s.at = at /\ s.next = r.next => Guarded(s)
  <2>1. Guarded(r)
    BY DEF GatewayInv
  <2>2. Behind(at) = Behind(r.at)
    BY DEF Behind
  <2>3. "live" \notin Early /\ "backend" \notin Early
    BY DEF Early
  <2> QED BY <2>1, <2>2, <2>3 DEF Guarded, Passed, Guards
<1>9. DOMAIN inFlight = Plugins /\ \A q \in Plugins : inFlight[q] \in [1..Generations[q] -> Nat]
  BY DEF GatewayInv, GatewayTypeOK
<1>10. CASE r.admitted[p] # 0
  <2>1. task' = [task EXCEPT ![t] = a2] /\ UNCHANGED inFlight
    BY <1>1, <1>10 DEF AdmitAndCall
  <2>2. Goes(t, a2)
    BY <2>1 DEF Goes
  <2>3. Guarded(a2)
    <3> HIDE DEF a2
    <3> QED BY <1>4, <1>8 DEF Same
  <2> HIDE DEF a2
  <2> QED BY <1>3, <1>4, <2>2, <2>3, Moves DEF Same
<1>11. CASE r.admitted[p] = 0
  <2>1. task' = [task EXCEPT ![t] = a3] /\ inFlight' = [inFlight EXCEPT ![p][g] = @ + 1]
    <3>1. /\ task' = [task EXCEPT ![t] = [[task[t] EXCEPT !.calling = g, !.at = at]
                                           EXCEPT !.admitted[p] = g]]
          /\ inFlight' = [inFlight EXCEPT ![p][g] = @ + 1]
      BY <1>11 DEF AdmitAndCall
    <3>2. [[task[t] EXCEPT !.calling = g, !.at = at] EXCEPT !.admitted[p] = g] = a3
      BY <1>1 DEF TaskType
    <3> QED BY <3>1, <3>2
  <2>2. \A q \in Plugins : \A h \in 1..Generations[q] :
          /\ h \in Nat /\ h # 0
          /\ Held(r, q, h) = IF q # p /\ r.admitted[q] = h THEN 1 ELSE 0
          /\ Held(a3, q, h) = IF q = p THEN (IF h = g THEN 1 ELSE 0)
                              ELSE IF r.admitted[q] = h THEN 1 ELSE 0
    <3> HIDE DEF a3
    <3>1. \A q \in Plugins : A[q] = IF q = p THEN g ELSE r.admitted[q]
      BY <1>1 DEF TaskType, Choices
    <3>2. \A q \in Plugins : \A h \in 1..Generations[q] : h \in Nat /\ h # 0
      BY GatewayAssumption
    <3> HIDE DEF A, r
    <3> QED BY <1>7, <1>11, <3>1, <3>2 DEF Held
  <2>3. /\ DOMAIN inFlight' = Plugins
        /\ \A q \in Plugins :
             /\ inFlight'[q] = [h \in 1..Generations[q] |-> inFlight'[q][h]]
             /\ \A h \in 1..Generations[q] :
                  inFlight'[q][h] = inFlight[q][h] - Held(r, q, h) + Held(a3, q, h)
    <3>1. DOMAIN inFlight' = Plugins
      BY <1>9, <2>1
    <3>2. \A q \in Plugins : inFlight'[q] = [h \in 1..Generations[q] |-> inFlight'[q][h]]
      BY <1>9, <2>1, ZenonT(40)
    <3>3. \A q \in Plugins : \A h \in 1..Generations[q] :
            inFlight'[q][h] = IF q = p /\ h = g THEN inFlight[q][h] + 1 ELSE inFlight[q][h]
      BY <1>9, <2>1, ZenonT(40)
    <3>4. \A q \in Plugins : \A h \in 1..Generations[q] : inFlight[q][h] \in Nat
      BY <1>9, ZenonT(40)
    <3> HIDE DEF a3, r
    <3> QED BY <2>2, <3>1, <3>2, <3>3, <3>4
  <2>4. Guarded(a3)
    <3> HIDE DEF a3
    <3> QED BY <1>7, <1>8
  <2> HIDE DEF a3
  <2> QED BY <1>6, <1>7, <2>1, <2>3, <2>4, Steps, ZenonT(40)
<1> QED BY <1>10, <1>11, <1>1 DEF TaskType, Choices

\* A task in a phase is neither idle nor on its way out.
LEMMA InAPhase ==
  ASSUME GatewayInv, NEW t \in Tasks, task[t].at \in Phases
  PROVE  /\ task[t] \in TaskType /\ Guarded(task[t])
         /\ task[t].at \in Stations /\ task[t].at \notin {"idle", "releasing", "done"}
         /\ \A j \in DOMAIN Filters(t) : j \in Nat /\ Filters(t)[j] \in FilterType
<1>1. task[t] \in TaskType /\ Guarded(task[t])
  BY DEF GatewayInv, GatewayTypeOK
<1>2. task[t].at \in Stations /\ task[t].at \notin {"idle", "releasing", "done"}
  BY DEF Stations, Phases, Early, Response
<1>3. \A j \in DOMAIN Filters(t) : j \in Nat /\ Filters(t)[j] \in FilterType
  BY ChainIndex DEF Filters
<1> QED BY <1>1, <1>2, <1>3

\* A filter that could not be asked, or whose call failed.
LEMMA FailureKeeps ==
  ASSUME GatewayInv, NEW t \in Tasks, task[t].at \in Phases,
         NEW j \in DOMAIN Filters(t), Reached(t, j), NEW code \in StatusCodes,
         NEW q \in TaskType, Same(q, task[t]), q.at = task[t].at,
         Goes(t, Failure(q, Filters(t)[j], j, code))
  PROVE  GatewayInv'
<1> DEFINE s == Failure(q, Filters(t)[j], j, code)
<1>1. /\ s \in TaskType /\ Same(s, q)
      /\ s.at = "leaving" \/ (~Filters(t)[j].failClosed /\ s.at = q.at /\ s.next = j + 1)
  <2>1. j \in Nat
    BY InAPhase
  <2>2. PICK f : f = Filters(t)[j]
    OBVIOUS
  <2>3. /\ Failure(q, f, j, code) \in TaskType /\ Same(Failure(q, f, j, code), q)
        /\ \/ Failure(q, f, j, code).at = "leaving"
           \/ /\ ~f.failClosed
              /\ Failure(q, f, j, code).at = q.at /\ Failure(q, f, j, code).next = j + 1
    BY <2>1, FailureUpdates, ZenonT(40)
  <2> QED BY <2>2, <2>3
<1>2. /\ s.snap = task[t].snap /\ s.identity = task[t].identity
      /\ s.admitted = task[t].admitted /\ s.decided = task[t].decided
  <2> HIDE DEF s
  <2> QED BY <1>1 DEF Same
<1>3. Goes(t, s)
  OBVIOUS
<1> HIDE DEF s
<1>4. Guarded(s) /\ s.at # "idle"
  <2>1. CASE s.at = "leaving"
    BY <2>1, OffTheWay DEF Early
  <2>2. CASE ~Filters(t)[j].failClosed /\ s.at = q.at /\ s.next = j + 1
    <3>1. Guarded(s)
      BY <1>2, <2>2, InAPhase, FilterPassed, ZenonT(40)
    <3> QED BY <2>2, <3>1, InAPhase
  <2> QED BY <1>1, <2>1, <2>2
<1> QED BY <1>1, <1>2, <1>3, <1>4, InAPhase, Moves

LEMMA RunFilterKeeps ==
  ASSUME GatewayInv, NEW t \in Tasks, RunFilter(t)
  PROVE  GatewayInv'
<1>1. task[t].at \in Phases
  BY DEF RunFilter, InPhase
<1>2. PICK j \in DOMAIN Filters(t) :
        /\ Reached(t, j)
        /\ \/ Goes(t, Failure(task[t], Filters(t)[j], j, 413))
           \/ Goes(t, Failure(task[t], Filters(t)[j], j, 503))
           \/ /\ Servable(Filters(t)[j].plugin, current[Filters(t)[j].plugin])
              /\ AdmitAndCall(t, Filters(t)[j].plugin, current[Filters(t)[j].plugin], task[t].at)
              /\ UNCHANGED <<current, state>>
  BY DEF RunFilter, FilterFails
<1>3. 413 \in StatusCodes /\ 503 \in StatusCodes /\ Same(task[t], task[t])
  BY DEF StatusCodes, Same
<1>4. CASE Goes(t, Failure(task[t], Filters(t)[j], j, 413))
  BY <1>1, <1>2, <1>3, <1>4, InAPhase, FailureKeeps
<1>5. CASE Goes(t, Failure(task[t], Filters(t)[j], j, 503))
  BY <1>1, <1>2, <1>3, <1>5, InAPhase, FailureKeeps
<1>6. ASSUME Servable(Filters(t)[j].plugin, current[Filters(t)[j].plugin]),
             AdmitAndCall(t, Filters(t)[j].plugin, current[Filters(t)[j].plugin], task[t].at),
             UNCHANGED <<current, state>>
      PROVE  GatewayInv'
  <2> DEFINE p == Filters(t)[j].plugin
             g == current[p]
  <2>1. p \in Plugins
    BY <1>1, InAPhase DEF FilterType
  <2>2. g \in 1..Generations[p]
    BY <1>6, <2>1, ServableRange DEF GatewayInv, GatewayTypeOK
  <2> HIDE DEF p, g
  <2> QED BY <1>1, <1>6, <2>1, <2>2, InAPhase, AdmitKeeps DEF p, g
<1> QED BY <1>2, <1>4, <1>5, <1>6

\* The filter decides: it stops the request, or lets it pass.
LEMMA AnswerKeeps ==
  ASSUME GatewayInv, NEW t \in Tasks, task[t].at \in Phases,
         NEW j \in DOMAIN Filters(t), Reached(t, j), Answer(t, Filters(t)[j], j)
  PROVE  GatewayInv'
<1> DEFINE q == Decided(task[t], j)
<1>1. /\ q \in TaskType
      /\ q.snap = task[t].snap /\ q.admitted = task[t].admitted /\ q.identity = task[t].identity
      /\ q.decided = task[t].decided \cup {<<task[t].at, j>>}
      /\ q.at = task[t].at /\ q.next = j + 1
  BY InAPhase, DecidedUpdates
<1>2. \/ \E code \in {0, 403} : Goes(t, ShortCircuit(q, code))
      \/ \E m \in Mutations(task[t], Filters(t)[j]) : Goes(t, Mutated(q, m))
  BY DEF Answer
<1> HIDE DEF q
<1>3. ASSUME NEW code \in {0, 403}, Goes(t, ShortCircuit(q, code))
      PROVE  GatewayInv'
  <2> DEFINE s == ShortCircuit(q, code)
  <2>1. code \in StatusCodes
    BY DEF StatusCodes
  <2>2. s \in TaskType /\ Same(s, q) /\ s.at = "leaving"
    BY <1>1, <2>1, ShortCircuitUpdates
  <2>3. Goes(t, s)
    BY <1>3
  <2> HIDE DEF s
  <2>4. Guarded(s)
    BY <2>2, OffTheWay DEF Early
  <2> QED BY <1>1, <2>2, <2>3, <2>4, InAPhase, Moves DEF Same
<1>4. ASSUME NEW m \in Mutations(task[t], Filters(t)[j]), Goes(t, Mutated(q, m))
      PROVE  GatewayInv'
  <2> DEFINE s == Mutated(q, m)
  <2>1. task[t] \in TaskType /\ Filters(t)[j] \in FilterType
    BY InAPhase
  <2>2. /\ s \in TaskType
        /\ s.snap = q.snap /\ s.admitted = q.admitted /\ s.decided = q.decided
        /\ s.at = q.at /\ s.next = q.next /\ s.identity = m.identity
        /\ task[t].identity => m.identity
    BY <1>1, <2>1, MutatedUpdates
  <2>3. Goes(t, s)
    BY <1>4
  <2> HIDE DEF s
  <2>4. Guarded(s)
    BY <1>1, <2>1, <2>2, InAPhase, FilterPassed, ZenonT(40)
  <2> QED BY <1>1, <2>2, <2>3, <2>4, InAPhase, Moves
<1> QED BY <1>2, <1>3, <1>4

LEMMA FilterReturnsKeeps ==
  ASSUME GatewayInv, NEW t \in Tasks, FilterReturns(t)
  PROVE  GatewayInv'
<1>1. task[t].at \in Phases
  BY DEF FilterReturns
<1>2. PICK j \in DOMAIN Filters(t) :
        /\ Reached(t, j)
        /\ \/ Goes(t, Failure([task[t] EXCEPT !.calling = 0], Filters(t)[j], j, 503))
           \/ Answer(t, Filters(t)[j], j)
  BY DEF FilterReturns
<1> DEFINE q == [task[t] EXCEPT !.calling = 0]
<1>3. q \in TaskType /\ Same(q, task[t]) /\ q.at = task[t].at
  <2>1. task[t] \in TaskType
    BY <1>1, InAPhase
  <2>2. q \in TaskType
    BY <2>1, FieldUpdates
  <2>3. Same(q, task[t]) /\ q.at = task[t].at
    BY <2>1 DEF TaskType, Same
  <2> QED BY <2>2, <2>3
<1>4. 503 \in StatusCodes
  BY DEF StatusCodes
<1>5. CASE Goes(t, Failure(q, Filters(t)[j], j, 503))
  <2> HIDE DEF q
  <2> QED BY <1>1, <1>2, <1>3, <1>4, <1>5, FailureKeeps
<1>6. CASE Answer(t, Filters(t)[j], j)
  BY <1>1, <1>2, <1>6, AnswerKeeps
<1> QED BY <1>2, <1>5, <1>6

(***************************************************************************)
(* From one phase to the next                                              *)
(***************************************************************************)
\* A task that is refused, or otherwise leaves, keeps what it holds.
LEMMA LeavingKeeps ==
  ASSUME GatewayInv, NEW t \in Tasks, NEW s \in TaskType, Goes(t, s),
         s.at \notin Early \cup {"idle", "backend", "live"},
         s.admitted = task[t].admitted,
         task[t].at \notin {"idle", "releasing", "done"}
  PROVE  GatewayInv'
BY OffTheWay, Moves

\* A task enters the next phase, or its backend, when its phase ends.
LEMMA EntersKeeps ==
  ASSUME GatewayInv, NEW t \in Tasks, NEW phase \in Early, PhaseEnds(t, phase),
         NEW s \in TaskType, Goes(t, s), s.at # "idle",
         s.snap = task[t].snap, s.admitted = task[t].admitted, s.decided = task[t].decided,
         Behind(s.at) = Behind(phase) \cup {phase},
         s.at \in Phases => s.next = 1,
         s.at \in {"pre_handler", "backend", "live"} => s.identity,
         s.at \in {"backend", "live"} => s.path \in Plugins
  PROVE  GatewayInv'
<1>1. task[t].at \in Phases
  BY DEF PhaseEnds, InPhase
<1>2. Guarded(s)
  BY <1>1, InAPhase, PhasePassed
<1> QED BY <1>1, <1>2, InAPhase, Moves

LEMMA ArriveKeeps ==
  ASSUME GatewayInv, NEW t \in Tasks, Arrive(t)
  PROVE  GatewayInv'
<1>1. PICK q \in Entries, b \in Bodies :
        LET plugin   == q # "elsewhere"
            buffered == plugin \/ NeedsRequestBody(current)
            r        == [Fresh EXCEPT !.snap = current, !.path = q, !.body = b,
                                      !.isPlugin = plugin, !.buffered = buffered]
        IN Goes(t, IF buffered /\ b = "over" THEN Refuse(r, 413) ELSE Enter(r, "pre_route"))
  BY Zenon DEF Arrive
<1> DEFINE plugin   == q # "elsewhere"
           buffered == plugin \/ NeedsRequestBody(current)
<1>2. plugin \in BOOLEAN /\ buffered \in BOOLEAN
  BY Zenon
<1>3. task[t].at = "idle" /\ t[2] = "serve" /\ task[t].admitted = NoneAdmitted
  BY DEF Arrive, GatewayInv, IdleHoldsNothing
<1> DEFINE r1 == [Fresh EXCEPT !.snap = current]
           r2 == [r1 EXCEPT !.path = q]
           r3 == [r2 EXCEPT !.body = b]
           r4 == [r3 EXCEPT !.isPlugin = plugin]
           r  == [r4 EXCEPT !.buffered = buffered]
<1>4. current \in Choices /\ q \in Paths /\ b \in BodySizes
  BY GatewayAssumption DEF GatewayInv, GatewayTypeOK
<1>5. r1 \in TaskType
  BY <1>4, FreshType, FieldUpdates
<1>6. r2 \in TaskType
  <2> HIDE DEF r1
  <2> QED BY <1>4, <1>5, FieldUpdates
<1>7. r3 \in TaskType
  <2> HIDE DEF r2
  <2> QED BY <1>4, <1>6, FieldUpdates
<1>8. r4 \in TaskType
  <2> HIDE DEF r3, plugin
  <2> QED BY <1>2, <1>7, FieldUpdates
<1>9. r \in TaskType
  <2> HIDE DEF r4, buffered
  <2> QED BY <1>2, <1>8, FieldUpdates
<1>10. r.admitted = NoneAdmitted
  <2> HIDE DEF buffered, plugin
  <2> QED BY FreshType DEF Fresh
<1>11. Goes(t, Refuse(r, 413)) \/ Goes(t, Enter(r, "pre_route"))
  <2>1. Goes(t, IF buffered /\ b = "over" THEN Refuse(r, 413) ELSE Enter(r, "pre_route"))
    BY <1>1
  <2> HIDE DEF r, buffered, plugin
  <2> QED BY <2>1
<1> HIDE DEF r
<1>12. CASE Goes(t, Refuse(r, 413))
  <2> DEFINE s == Refuse(r, 413)
  <2>1. 413 \in StatusCodes
    BY DEF StatusCodes
  <2>2. s \in TaskType /\ Same(s, r) /\ s.at = "leaving"
    BY <1>9, <2>1, RefuseUpdates
  <2>3. Goes(t, s)
    BY <1>12
  <2> HIDE DEF s
  <2>4. Guarded(s)
    BY <2>2, OffTheWay DEF Early
  <2> QED BY <1>3, <1>10, <2>2, <2>3, <2>4, Moves DEF Same
<1>13. CASE Goes(t, Enter(r, "pre_route"))
  <2> DEFINE s == Enter(r, "pre_route")
  <2>1. s \in TaskType /\ Same(s, r) /\ s.at = "pre_route" /\ s.next = 1
    BY <1>9, EnterUpdates DEF Phases, Early
  <2>2. Goes(t, s)
    BY <1>13
  <2> HIDE DEF s
  <2>3. Guarded(s)
    BY <2>1, AtFirstPhase
  <2> QED BY <1>3, <1>10, <2>1, <2>2, <2>3, Moves DEF Same
<1> QED BY <1>11, <1>12, <1>13

\* A task that is refused on its way keeps what it holds.
LEMMA RefusalKeeps ==
  ASSUME GatewayInv, NEW t \in Tasks, NEW code \in StatusCodes, Goes(t, Refuse(task[t], code)),
         task[t].at \notin {"idle", "releasing", "done"}
  PROVE  GatewayInv'
<1> DEFINE s == Refuse(task[t], code)
<1>1. task[t] \in TaskType
  BY DEF GatewayInv, GatewayTypeOK
<1>2. s \in TaskType /\ Same(s, task[t]) /\ s.at = "leaving"
  BY <1>1, RefuseUpdates
<1>3. Goes(t, s)
  OBVIOUS
<1> HIDE DEF s
<1> QED BY <1>2, <1>3, LeavingKeeps DEF Same, Early

LEMMA RoutesKeeps ==
  ASSUME GatewayInv, NEW t \in Tasks, RoutesToPlugin(t)
  PROVE  GatewayInv'
<1>1. PhaseEnds(t, "pre_route") /\ task[t].at = "pre_route" /\ "pre_route" \in Phases \cap Early
  BY ZenonT(40) DEF RoutesToPlugin, PhaseEnds, Phases, Early
<1>2. \/ Goes(t, Refuse(task[t], 413))
      \/ \E known \in BOOLEAN : Goes(t, [Enter(task[t], "authenticate")
                                           EXCEPT !.isPlugin = TRUE, !.identity = known])
  BY ZenonT(40) DEF RoutesToPlugin
<1>3. CASE Goes(t, Refuse(task[t], 413))
  <2>1. 413 \in StatusCodes
    BY DEF StatusCodes
  <2> QED BY <1>1, <1>3, <2>1, RefusalKeeps
<1>4. ASSUME NEW known \in BOOLEAN,
             Goes(t, [Enter(task[t], "authenticate") EXCEPT !.isPlugin = TRUE, !.identity = known])
      PROVE  GatewayInv'
  <2> DEFINE e  == Enter(task[t], "authenticate")
             e1 == [e EXCEPT !.isPlugin = TRUE]
             s  == [e1 EXCEPT !.identity = known]
  <2>1. /\ e \in TaskType /\ Same(e, task[t]) /\ e.at = "authenticate" /\ e.next = 1
    BY <1>1, InAPhase, EnterUpdates DEF Phases, Early
  <2> HIDE DEF e
  <2>2. e1 \in TaskType
    BY <2>1, FieldUpdates, ZenonT(40)
  <2>3. s \in TaskType
    <3> HIDE DEF e1
    <3> QED BY <2>2, FieldUpdates
  <2>4. /\ s.snap = e.snap /\ s.admitted = e.admitted /\ s.decided = e.decided
        /\ s.at = e.at /\ s.next = e.next
    BY <2>1 DEF TaskType
  <2>5. Goes(t, s)
    BY <1>4 DEF e
  <2> HIDE DEF s
  <2>6. Behind("authenticate") = Behind("pre_route") \cup {"pre_route"}
    BY DEF Behind
  <2> QED BY <1>1, <2>1, <2>3, <2>4, <2>5, <2>6, EntersKeeps DEF Same
<1> QED BY <1>2, <1>3, <1>4, ZenonT(40)

LEMMA EndAuthenticateKeeps ==
  ASSUME GatewayInv, NEW t \in Tasks, EndAuthenticate(t)
  PROVE  GatewayInv'
<1> DEFINE s == Enter(task[t], "authorize")
<1>1. /\ PhaseEnds(t, "authenticate") /\ task[t].at = "authenticate" /\ Goes(t, s)
      /\ "authenticate" \in Phases \cap Early
  BY DEF EndAuthenticate, PhaseEnds, Phases, Early
<1>2. s \in TaskType /\ Same(s, task[t]) /\ s.at = "authorize" /\ s.next = 1
  BY <1>1, InAPhase, EnterUpdates DEF Phases, Early
<1> HIDE DEF s
<1>3. Behind("authorize") = Behind("authenticate") \cup {"authenticate"}
  BY DEF Behind
<1> QED BY <1>1, <1>2, <1>3, EntersKeeps DEF Same

LEMMA EndAuthorizeKeeps ==
  ASSUME GatewayInv, NEW t \in Tasks, EndAuthorize(t)
  PROVE  GatewayInv'
<1> DEFINE s == Enter(task[t], "pre_handler")
<1>1. /\ PhaseEnds(t, "authorize") /\ task[t].at = "authorize"
      /\ (task[t].identity /\ Goes(t, s)) \/ Goes(t, Refuse(task[t], 401))
      /\ "authorize" \in Phases \cap Early
  BY DEF EndAuthorize, PhaseEnds, Phases, Early
<1>2. s \in TaskType /\ Same(s, task[t]) /\ s.at = "pre_handler" /\ s.next = 1
  BY <1>1, InAPhase, EnterUpdates DEF Phases, Early
<1> HIDE DEF s
<1>3. Behind("pre_handler") = Behind("authorize") \cup {"authorize"}
  BY DEF Behind
<1>4. CASE task[t].identity /\ Goes(t, s)
  BY <1>1, <1>2, <1>3, <1>4, EntersKeeps, ZenonT(40) DEF Same
<1>5. CASE Goes(t, Refuse(task[t], 401))
  <2>1. 401 \in StatusCodes
    BY DEF StatusCodes
  <2> QED BY <1>1, <1>5, <2>1, RefusalKeeps
<1> QED BY <1>1, <1>4, <1>5

LEMMA EndPreHandlerKeeps ==
  ASSUME GatewayInv, NEW t \in Tasks, EndPreHandler(t)
  PROVE  GatewayInv'
<1> DEFINE s == [task[t] EXCEPT !.at = "backend"]
           n == [task[t] EXCEPT !.at = "leaving", !.sent = 404]
<1>1. /\ PhaseEnds(t, "pre_handler") /\ task[t].at = "pre_handler"
      /\ (task[t].path \in Plugins /\ Goes(t, s)) \/ Goes(t, n)
      /\ "pre_handler" \in Phases \cap Early
  BY DEF EndPreHandler, PhaseEnds, Phases, Early
<1>2. task[t] \in TaskType /\ Guarded(task[t])
  BY <1>1, InAPhase
<1>3. s \in TaskType /\ Same(s, task[t]) /\ s.at = "backend"
  BY <1>2, StationUpdates DEF Stations
<1>4. n \in TaskType /\ Same(n, task[t]) /\ n.at = "leaving"
  <2>1. 404 \in StatusCodes
    BY DEF StatusCodes
  <2> QED BY <1>2, <2>1, SentUpdates, ZenonT(40)
<1> HIDE DEF s, n
<1>5. Behind("backend") = Behind("pre_handler") \cup {"pre_handler"}
  BY DEF Behind, Early
<1>6. "backend" \notin Phases /\ task[t].identity
  BY <1>1, <1>2 DEF Phases, Early, Response, Guarded
<1>7. CASE task[t].path \in Plugins /\ Goes(t, s)
  BY <1>1, <1>3, <1>5, <1>6, <1>7, EntersKeeps, ZenonT(40) DEF Same
<1>8. CASE Goes(t, n)
  BY <1>1, <1>4, <1>8, LeavingKeeps DEF Same, Early
<1> QED BY <1>1, <1>7, <1>8

LEMMA CallBackendKeeps ==
  ASSUME GatewayInv, NEW t \in Tasks, CallBackend(t)
  PROVE  GatewayInv'
<1> DEFINE p == task[t].path
           g == task[t].snap[p]
           s == [task[t] EXCEPT !.at = "live"]
<1>1. /\ task[t].at = "backend"
      /\ \/ /\ Servable(p, g) /\ AdmitAndCall(t, p, g, "backend") /\ UNCHANGED <<current, state>>
         \/ Goes(t, s)
  BY DEF CallBackend
<1>2. task[t] \in TaskType /\ Guarded(task[t]) /\ task[t].snap \in Choices
  BY DEF GatewayInv, GatewayTypeOK, TaskType
<1>3. ASSUME Servable(p, g), AdmitAndCall(t, p, g, "backend"), UNCHANGED <<current, state>>
      PROVE  GatewayInv'
  <2>1. p \in Plugins
    BY <1>1, <1>2 DEF Guarded
  <2>2. g \in 1..Generations[p]
    BY <1>2, <1>3, <2>1, ServableRange
  <2> HIDE DEF p, g
  <2> QED BY <1>1, <1>3, <2>1, <2>2, AdmitKeeps DEF Stations
<1>4. CASE Goes(t, s)
  <2>1. s \in TaskType /\ Same(s, task[t]) /\ s.at = "live"
    BY <1>2, StationUpdates DEF Stations
  <2> HIDE DEF s
  <2>2. Guarded(s)
    <3>1. Behind(s.at) = Behind(task[t].at) /\ s.at \notin Early /\ task[t].at \notin Early
      BY <1>1, <2>1 DEF Behind, Early
    <3> QED BY <1>1, <1>2, <2>1, <3>1 DEF Guarded, Passed, Guards, Same
  <2> QED BY <1>1, <1>4, <2>1, <2>2, Moves DEF Same
<1> QED BY <1>1, <1>3, <1>4

\* A call that could not be made, or came to nothing.
LEMMA FailedCallKeeps ==
  ASSUME GatewayInv, NEW t \in Tasks, task[t].at \in {"backend", "live"},
         NEW q \in TaskType, q.admitted = task[t].admitted, NEW code \in StatusCodes,
         Goes(t, FailedCall(q, code))
  PROVE  GatewayInv'
<1> DEFINE e  == Enter(q, "on_error")
           e1 == [e EXCEPT !.failed = TRUE]
           s  == [e1 EXCEPT !.status = code]
<1>1. e \in TaskType /\ Same(e, q) /\ e.at = "on_error"
  BY EnterUpdates DEF Phases, Response
<1>2. Goes(t, s)
  BY DEF FailedCall
<1> HIDE DEF e
<1>3. e1 \in TaskType
  BY <1>1, FieldUpdates, ZenonT(40)
<1>4. s \in TaskType
  <2> HIDE DEF e1
  <2> QED BY <1>3, FieldUpdates
<1>5. s.at = "on_error" /\ s.admitted = e.admitted
  BY <1>1 DEF TaskType
<1> HIDE DEF s
<1> QED BY <1>1, <1>2, <1>4, <1>5, LeavingKeeps DEF Same, Early

LEMMA CallLiveBackendKeeps ==
  ASSUME GatewayInv, NEW t \in Tasks, CallLiveBackend(t)
  PROVE  GatewayInv'
<1> DEFINE p == task[t].path
           g == current[p]
<1>1. /\ task[t].at = "live"
      /\ \/ /\ Servable(p, g) /\ AdmitAndCall(t, p, g, "backend") /\ UNCHANGED <<current, state>>
         \/ \E code \in {503, 404} : Goes(t, FailedCall(task[t], code))
  BY DEF CallLiveBackend
<1>2. task[t] \in TaskType /\ Guarded(task[t]) /\ current \in Choices
  BY DEF GatewayInv, GatewayTypeOK
<1>3. ASSUME Servable(p, g), AdmitAndCall(t, p, g, "backend"), UNCHANGED <<current, state>>
      PROVE  GatewayInv'
  <2>1. p \in Plugins
    BY <1>1, <1>2 DEF Guarded
  <2>2. g \in 1..Generations[p]
    BY <1>2, <1>3, <2>1, ServableRange
  <2> HIDE DEF p, g
  <2> QED BY <1>1, <1>3, <2>1, <2>2, AdmitKeeps DEF Stations
<1>4. ASSUME NEW code \in {503, 404}, Goes(t, FailedCall(task[t], code))
      PROVE  GatewayInv'
  <2>1. code \in StatusCodes
    BY DEF StatusCodes
  <2> QED BY <1>1, <1>2, <1>4, <2>1, FailedCallKeeps
<1> QED BY <1>1, <1>3, <1>4

LEMMA BackendReturnsKeeps ==
  ASSUME GatewayInv, NEW t \in Tasks, BackendReturns(t)
  PROVE  GatewayInv'
<1> DEFINE q == [task[t] EXCEPT !.calling = 0]
<1>1. /\ task[t].at = "backend"
      /\ \/ Goes(t, FailedCall(q, 502))
         \/ \E code \in Replies : \E phase \in Response :
              Goes(t, [Enter(q, phase) EXCEPT !.status = code])
  BY DEF BackendReturns, Response
<1>2. task[t] \in TaskType
  BY DEF GatewayInv, GatewayTypeOK
<1>3. q \in TaskType /\ q.admitted = task[t].admitted
  <2>1. q \in TaskType
    BY <1>2, FieldUpdates
  <2>2. q.admitted = task[t].admitted
    BY <1>2 DEF TaskType
  <2> QED BY <2>1, <2>2
<1> HIDE DEF q
<1>4. CASE Goes(t, FailedCall(q, 502))
  <2>1. 502 \in StatusCodes
    BY DEF StatusCodes
  <2> QED BY <1>1, <1>3, <1>4, <2>1, FailedCallKeeps
<1>5. ASSUME NEW code \in Replies, NEW phase \in Response,
             Goes(t, [Enter(q, phase) EXCEPT !.status = code])
      PROVE  GatewayInv'
  <2> DEFINE e == Enter(q, phase)
             s == [e EXCEPT !.status = code]
  <2>1. e \in TaskType /\ Same(e, q) /\ e.at = phase
    BY <1>3, EnterUpdates DEF Phases
  <2>2. code \in StatusCodes
    BY GatewayAssumption
  <2>3. Goes(t, s)
    BY <1>5
  <2> HIDE DEF e
  <2>4. s \in TaskType
    BY <2>1, <2>2, FieldUpdates
  <2>5. s.at = phase /\ s.admitted = e.admitted
    BY <2>1 DEF TaskType
  <2> HIDE DEF s
  <2>6. phase \notin Early \cup {"idle", "backend", "live"}
    BY DEF Response, Early
  <2> QED BY <1>1, <1>3, <2>1, <2>3, <2>4, <2>5, <2>6, LeavingKeeps DEF Same
<1> QED BY <1>1, <1>4, <1>5, ZenonT(40)

\* What is sent at the end of a phase, or by the rest of the gateway.
LEMMA SendingKeeps ==
  ASSUME GatewayInv, NEW t \in Tasks, NEW code \in StatusCodes,
         task[t].at \notin {"idle", "releasing", "done"},
         Goes(t, [task[t] EXCEPT !.at = "leaving", !.sent = code])
  PROVE  GatewayInv'
<1> DEFINE s == [task[t] EXCEPT !.at = "leaving", !.sent = code]
<1>1. task[t] \in TaskType
  BY DEF GatewayInv, GatewayTypeOK
<1>2. s \in TaskType /\ Same(s, task[t]) /\ s.at = "leaving"
  BY <1>1, SentUpdates, ZenonT(40)
<1>3. Goes(t, s)
  OBVIOUS
<1> HIDE DEF s
<1> QED BY <1>2, <1>3, LeavingKeeps DEF Same, Early

LEMMA EndOnErrorKeeps ==
  ASSUME GatewayInv, NEW t \in Tasks, EndOnError(t)
  PROVE  GatewayInv'
<1> DEFINE s == Enter(task[t], "post_handler")
<1>1. /\ task[t].at = "on_error" /\ task[t].at \in Phases
      /\ \/ Goes(t, [task[t] EXCEPT !.at = "leaving", !.sent = task[t].status])
         \/ Goes(t, s)
  BY DEF EndOnError, PhaseEnds, InPhase
<1>2. task[t] \in TaskType /\ task[t].status \in StatusCodes
  BY <1>1, InAPhase DEF TaskType
<1>3. s \in TaskType /\ Same(s, task[t]) /\ s.at = "post_handler"
  BY <1>2, EnterUpdates DEF Phases, Response
<1>4. CASE Goes(t, [task[t] EXCEPT !.at = "leaving", !.sent = task[t].status])
  BY <1>1, <1>2, <1>4, SendingKeeps, ZenonT(40)
<1>5. CASE Goes(t, s)
  <2> HIDE DEF s
  <2> QED BY <1>1, <1>3, <1>5, LeavingKeeps DEF Same, Early
<1> QED BY <1>1, <1>4, <1>5

LEMMA EndPostHandlerKeeps ==
  ASSUME GatewayInv, NEW t \in Tasks, EndPostHandler(t)
  PROVE  GatewayInv'
<1> DEFINE code == NormalizeStatus(task[t].status)
<1>1. /\ task[t].at = "post_handler" /\ task[t].at \in Phases
      /\ Goes(t, [task[t] EXCEPT !.at = "leaving", !.sent = code])
  BY DEF EndPostHandler, PhaseEnds, InPhase
<1>2. code \in StatusCodes
  <2>1. task[t].status \in StatusCodes
    BY <1>1, InAPhase DEF TaskType
  <2> QED BY <2>1, StatusNormal
<1> HIDE DEF code
<1> QED BY <1>1, <1>2, SendingKeeps, ZenonT(40)

LEMMA EndLogKeeps ==
  ASSUME GatewayInv, NEW t \in Tasks, EndLog(t)
  PROVE  GatewayInv'
<1> DEFINE s == [task[t] EXCEPT !.at = "leaving"]
<1>1. task[t].at = "log" /\ task[t].at \in Phases /\ Goes(t, s)
  BY DEF EndLog, PhaseEnds, InPhase
<1>2. s \in TaskType /\ Same(s, task[t]) /\ s.at = "leaving"
  BY <1>1, InAPhase, StationUpdates DEF Stations
<1> HIDE DEF s
<1> QED BY <1>1, <1>2, LeavingKeeps DEF Same, Early

LEMMA NextServesKeeps ==
  ASSUME GatewayInv, NEW t \in Tasks, NextServes(t)
  PROVE  GatewayInv'
<1>1. /\ task[t].at = "handed"
      /\ \E code \in {200, task[t].status} :
           Goes(t, [task[t] EXCEPT !.at = "leaving", !.sent = 200, !.status = code])
  BY ZenonT(40) DEF NextServes
<1>2. PICK code \in {200, task[t].status} :
        Goes(t, [task[t] EXCEPT !.at = "leaving", !.sent = 200, !.status = code])
  BY <1>1, ZenonT(40)
<1>3. task[t] \in TaskType
  BY DEF GatewayInv, GatewayTypeOK
<1>4. code \in StatusCodes /\ 200 \in StatusCodes
  <2>1. task[t].status \in StatusCodes
    BY <1>3, ZenonT(40) DEF TaskType
  <2>2. 200 \in StatusCodes
    BY SMTT(40) DEF StatusCodes
  <2> QED BY <2>1, <2>2, ZenonT(40)
<1> DEFINE r == [task[t] EXCEPT !.at = "leaving", !.sent = 200]
           s == [r EXCEPT !.status = code]
<1>5. r \in TaskType /\ Same(r, task[t]) /\ r.at = "leaving"
  BY <1>3, <1>4, SentUpdates, ZenonT(40)
<1>6. s \in TaskType
  <2> HIDE DEF r
  <2> QED BY <1>4, <1>5, FieldUpdates
<1>7. s.at = "leaving" /\ s.admitted = task[t].admitted
  BY <1>3 DEF TaskType
<1>8. Goes(t, s)
  BY <1>2
<1> HIDE DEF s
<1> QED BY <1>1, <1>6, <1>7, <1>8, LeavingKeeps DEF Early

(***************************************************************************)
(* Giving up what is held, and starting the log phase                      *)
(***************************************************************************)
LEMMA ReleasingKeeps ==
  ASSUME GatewayInv, NEW t \in Tasks, NEW s \in TaskType,
         task' = [task EXCEPT ![t] = s], inFlight' = Unreserved(t), UNCHANGED <<current, state>>,
         s.admitted = NoneAdmitted, s.at \notin Early \cup {"idle", "backend", "live"},
         task[t].at # "idle",
         task[t].at \in {"releasing", "done"} => s.at \in {"releasing", "done"}
  PROVE  GatewayInv'
<1>1. DOMAIN inFlight = Plugins /\ \A p \in Plugins : inFlight[p] \in [1..Generations[p] -> Nat]
  BY DEF GatewayInv, GatewayTypeOK
<1>2. /\ DOMAIN inFlight' = Plugins
      /\ \A p \in Plugins : inFlight'[p] = [g \in 1..Generations[p] |-> inFlight'[p][g]]
      /\ \A p \in Plugins : \A g \in 1..Generations[p] :
           inFlight'[p][g] = inFlight[p][g] - IF task[t].admitted[p] = g THEN 1 ELSE 0
  BY DEF Unreserved
<1>3. \A p \in Plugins : \A g \in 1..Generations[p] :
        inFlight'[p][g] = inFlight[p][g] - Held(task[t], p, g) + Held(s, p, g)
  <2> SUFFICES ASSUME NEW p \in Plugins, NEW g \in 1..Generations[p]
               PROVE  inFlight'[p][g] = inFlight[p][g] - Held(task[t], p, g) + Held(s, p, g)
    OBVIOUS
  <2>1. g # 0 /\ s.admitted[p] = 0
    BY GatewayAssumption DEF NoneAdmitted
  <2>2. Held(s, p, g) = 0
    BY <2>1 DEF Held
  <2>3. inFlight[p][g] \in Nat
    BY <1>1, ZenonT(40)
  <2>4. inFlight'[p][g] = inFlight[p][g] - Held(task[t], p, g)
    BY <1>2 DEF Held
  <2>5. Held(task[t], p, g) \in Nat
    BY DEF Held
  <2> QED BY <2>2, <2>3, <2>4, <2>5
<1>4. Guarded(s)
  BY OffTheWay
<1> QED BY <1>2, <1>3, <1>4, Steps, ZenonT(40)

LEMMA HandsOnKeeps ==
  ASSUME GatewayInv, NEW t \in Tasks, HandsOn(t)
  PROVE  GatewayInv'
<1> DEFINE r == [task[t] EXCEPT !.at = "handed"]
           s == [r EXCEPT !.admitted = NoneAdmitted]
<1>1. task[t].at = "pre_route" /\ inFlight' = Unreserved(t) /\ UNCHANGED <<current, state>>
  BY DEF HandsOn, PhaseEnds
<1>2. task[t] \in TaskType /\ task \in [Tasks -> TaskType]
  BY DEF GatewayInv, GatewayTypeOK
<1>3. task' = [task EXCEPT ![t] = s]
  BY <1>2, ZenonT(40) DEF HandsOn
<1>4. r \in TaskType
  BY <1>2, StationUpdates DEF Stations
<1>5. NoneAdmitted \in Choices
  BY GatewayAssumption DEF Choices, NoneAdmitted
<1>6. s \in TaskType
  <2> HIDE DEF r
  <2> QED BY <1>4, <1>5, FieldUpdates
<1>7. s.at = "handed" /\ s.admitted = NoneAdmitted
  BY <1>2 DEF TaskType
<1> HIDE DEF s
<1> QED BY <1>1, <1>3, <1>6, <1>7, ReleasingKeeps, ZenonT(40) DEF Early

LEMMA ReleaseKeeps ==
  ASSUME GatewayInv, NEW t \in Tasks, Release(t)
  PROVE  GatewayInv'
<1> DEFINE r == [Fresh EXCEPT !.at = "done"]
           s == [r EXCEPT !.sent = task[t].sent]
<1>1. task[t].at = "releasing" /\ inFlight' = Unreserved(t) /\ UNCHANGED <<current, state>>
  BY DEF Release
<1>2. task' = [task EXCEPT ![t] = s]
  BY DEF Release
<1>3. task[t].sent \in StatusCodes
  BY DEF GatewayInv, GatewayTypeOK, TaskType
<1>4. r \in TaskType /\ Same(r, Fresh)
  BY FreshType, StationUpdates DEF Stations
<1>5. s \in TaskType
  <2> HIDE DEF r
  <2> QED BY <1>3, <1>4, FieldUpdates
<1>6. s.at = "done" /\ s.admitted = NoneAdmitted
  BY FreshType DEF TaskType
<1> HIDE DEF s
<1> QED BY <1>1, <1>2, <1>5, <1>6, ReleasingKeeps, ZenonT(40) DEF Early

\* The copy the log phase starts from.
LEMMA ForAsyncUpdates ==
  ASSUME NEW r \in TaskType
  PROVE  ForAsync(r) \in TaskType /\ ForAsync(r).at = "log" /\ ForAsync(r).admitted = NoneAdmitted
<1> DEFINE e  == Enter(r, "log")
           e1 == [e EXCEPT !.admitted = NoneAdmitted]
           e2 == [e1 EXCEPT !.sent = 0]
           s  == [e2 EXCEPT !.decided = {}]
<1>1. e \in TaskType /\ e.at = "log"
  BY EnterUpdates DEF Phases, Response
<1>2. ForAsync(r) = s
  BY DEF ForAsync
<1> HIDE DEF e
<1>3. NoneAdmitted \in Choices /\ 0 \in StatusCodes
  BY GatewayAssumption DEF Choices, NoneAdmitted, StatusCodes
<1>4. e1 \in TaskType
  BY <1>1, <1>3, FieldUpdates
<1>5. e2 \in TaskType
  <2> HIDE DEF e1
  <2> QED BY <1>3, <1>4, FieldUpdates
<1>6. s \in TaskType
  <2> HIDE DEF e2
  <2> QED BY <1>5, FieldUpdates, ZenonT(40)
<1>7. s.at = "log" /\ s.admitted = NoneAdmitted
  BY <1>1 DEF TaskType
<1> HIDE DEF s
<1> QED BY <1>2, <1>6, <1>7

\* A request leaves, and its log phase starts on a copy that holds nothing.
LEMMA StartLogKeeps ==
  ASSUME GatewayInv, NEW t \in Tasks, StartLog(t)
  PROVE  GatewayInv'
<1> DEFINE s == [task[t] EXCEPT !.at = "releasing"]
           c == ForAsync(task[t])
<1>1. /\ task \in [Tasks -> TaskType] /\ task[t] \in TaskType /\ task[t].at = "leaving"
      /\ UNCHANGED <<current, state, inFlight>>
  BY DEF GatewayInv, GatewayTypeOK, StartLog
<1>2. s \in TaskType /\ Same(s, task[t]) /\ s.at = "releasing"
  BY <1>1, StationUpdates DEF Stations
<1>3. c \in TaskType /\ c.at = "log" /\ c.admitted = NoneAdmitted
  BY <1>1, ForAsyncUpdates
<1>4. \/ task' = [task EXCEPT ![t] = s]
      \/ t[2] = "serve" /\ task' = [[task EXCEPT ![t] = s] EXCEPT ![Log(t)] = c]
  BY <1>1 DEF StartLog
<1> HIDE DEF s, c
<1>5. CASE task' = [task EXCEPT ![t] = s]
  <2>1. Goes(t, s)
    BY <1>1, <1>5 DEF Goes
  <2> QED BY <1>1, <1>2, <2>1, LeavingKeeps DEF Same, Early
<1>6. CASE t[2] = "serve" /\ task' = [[task EXCEPT ![t] = s] EXCEPT ![Log(t)] = c]
  <2>1. PICK q \in Requests : t = <<q, "serve">> /\ Log(t) = <<q, "log">>
    BY <1>6 DEF Tasks, Log
  <2>2. Log(t) \in Tasks /\ Log(t) # t
    BY <2>1 DEF Tasks
  <2>3. task[Log(t)].at = "idle" /\ task[Log(t)].admitted = NoneAdmitted
    BY <1>1, <2>1, <2>2 DEF GatewayInv, LogWaits, IdleHoldsNothing
  <2>4. /\ task' \in [Tasks -> TaskType] /\ task'[t] = s /\ task'[Log(t)] = c
        /\ \A u \in Tasks : u # t /\ u # Log(t) => task'[u] = task[u]
    BY <1>1, <1>2, <1>3, <1>6, <2>2
  <2>5. \A u \in Tasks : task'[u].admitted = task[u].admitted
    BY <1>2, <1>3, <2>3, <2>4 DEF Same
  <2>6. GatewayTypeOK'
    BY <1>1, <2>4 DEF GatewayInv, GatewayTypeOK
  <2>7. ReservationsAreExact'
    <3> SUFFICES ASSUME NEW p \in Plugins, NEW g \in 1..Generations[p]
                 PROVE  inFlight[p][g] = Cardinality({u \in Tasks : task'[u].admitted[p] = g})
      BY <1>1 DEF ReservationsAreExact
    <3>1. {u \in Tasks : task'[u].admitted[p] = g} = {u \in Tasks : task[u].admitted[p] = g}
      BY <2>5
    <3> QED BY <3>1 DEF GatewayInv, ReservationsAreExact
  <2>8. LogWaits'
    <3> SUFFICES ASSUME NEW r \in Requests,
                        task'[<<r, "serve">>].at \notin {"releasing", "done"}
                 PROVE  task'[<<r, "log">>].at = "idle"
      BY DEF LogWaits
    <3>1. <<r, "serve">> \in Tasks /\ <<r, "log">> \in Tasks
      BY DEF Tasks
    <3>2. r # q
      BY <1>2, <2>1, <2>4
    <3>3. <<r, "serve">> \notin {t, Log(t)} /\ <<r, "log">> \notin {t, Log(t)}
      BY <2>1, <3>2
    <3> QED BY <2>4, <3>1, <3>3 DEF GatewayInv, LogWaits
  <2>9. IdleHoldsNothing'
    <3>1. \A u \in Tasks : task'[u].at = "idle" => task[u].at = "idle"
      BY <1>2, <1>3, <2>3, <2>4
    <3> QED BY <2>5, <3>1 DEF GatewayInv, IdleHoldsNothing, NoneAdmitted
  <2>10. \A u \in Tasks : Guarded(task[u])'
    <3> SUFFICES ASSUME NEW u \in Tasks PROVE Guarded(task'[u])
      BY DEF Guarded, Passed, Guards, Behind, InChain, Paths, Early
    <3>1. CASE u \in {t, Log(t)}
      <4>1. task'[u].at \in {"releasing", "log"}
        BY <1>2, <1>3, <2>4, <3>1
      <4> QED BY <4>1, OffTheWay DEF Early
    <3>2. CASE u \notin {t, Log(t)}
      <4>1. task'[u] = task[u] /\ Guarded(task[u])
        BY <2>4, <3>2 DEF GatewayInv
      <4> QED BY <4>1
    <3> QED BY <3>1, <3>2
  <2> QED BY <2>6, <2>7, <2>8, <2>9, <2>10 DEF GatewayInv
<1> QED BY <1>4, <1>5, <1>6

(***************************************************************************)
(* The theorems                                                            *)
(***************************************************************************)
LEMMA TaskKeeps ==
  ASSUME GatewayInv, NEW t \in Tasks, Arrive(t) \/ NextServes(t) \/ Proceeds(t)
  PROVE  GatewayInv'
<1>1. CASE Arrive(t)            BY <1>1, ArriveKeeps
<1>2. CASE NextServes(t)        BY <1>2, NextServesKeeps
<1>3. CASE RunFilter(t)         BY <1>3, RunFilterKeeps
<1>4. CASE FilterReturns(t)     BY <1>4, FilterReturnsKeeps
<1>5. CASE RoutesToPlugin(t)    BY <1>5, RoutesKeeps
<1>6. CASE HandsOn(t)           BY <1>6, HandsOnKeeps
<1>7. CASE EndAuthenticate(t)   BY <1>7, EndAuthenticateKeeps
<1>8. CASE EndAuthorize(t)      BY <1>8, EndAuthorizeKeeps
<1>9. CASE EndPreHandler(t)     BY <1>9, EndPreHandlerKeeps
<1>10. CASE CallBackend(t)      BY <1>10, CallBackendKeeps
<1>11. CASE CallLiveBackend(t)  BY <1>11, CallLiveBackendKeeps
<1>12. CASE BackendReturns(t)   BY <1>12, BackendReturnsKeeps
<1>13. CASE EndOnError(t)       BY <1>13, EndOnErrorKeeps
<1>14. CASE EndPostHandler(t)   BY <1>14, EndPostHandlerKeeps
<1>15. CASE EndLog(t)           BY <1>15, EndLogKeeps
<1>16. CASE StartLog(t)         BY <1>16, StartLogKeeps
<1>17. CASE Release(t)          BY <1>17, ReleaseKeeps
<1> QED
  BY <1>1, <1>2, <1>3, <1>4, <1>5, <1>6, <1>7, <1>8, <1>9, <1>10, <1>11, <1>12,
     <1>13, <1>14, <1>15, <1>16, <1>17 DEF Proceeds

\* GatewayInv is inductive: it holds when Core starts and no step of a request,
\* a log phase, an upgrade or a drain breaks it.
THEOREM GatewayInvariant == GatewaySpec => []GatewayInv
<1>1. GatewayInit => GatewayInv
  BY InitHolds
<1>2. GatewayInv /\ [GatewayNext]_gatewayVars => GatewayInv'
  <2> SUFFICES ASSUME GatewayInv, [GatewayNext]_gatewayVars PROVE GatewayInv'
    OBVIOUS
  <2>1. CASE Environment
    BY <2>1, EnvironmentKeeps
  <2>2. ASSUME NEW t \in Tasks, Arrive(t) \/ NextServes(t) \/ Proceeds(t)
        PROVE  GatewayInv'
    BY <2>2, TaskKeeps
  <2>3. CASE UNCHANGED gatewayVars
    BY <2>3 DEF gatewayVars, GatewayInv, GatewayTypeOK, ReservationsAreExact, LogWaits,
                IdleHoldsNothing, Guarded, Passed, Guards, Behind, InChain
  <2> QED BY <2>1, <2>2, <2>3 DEF GatewayNext
<1> QED BY <1>1, <1>2, PTL DEF GatewaySpec

\* However many requests, plugins, filters and upgrades there are, the
\* variables keep their types.
THEOREM GatewayTypes == GatewaySpec => []GatewayTypeOK
<1>1. GatewayInv => GatewayTypeOK
  BY DEF GatewayInv
<1> QED BY <1>1, GatewayInvariant, PTL

\* An instance counts in flight exactly the tasks that hold a reservation on it
\* (Instance.BeginRequest, RequestContext.ReleaseAdmissions), for any number of
\* concurrent requests.
THEOREM ReservationsExact == GatewaySpec => []ReservationsAreExact
<1>1. GatewayInv => ReservationsAreExact
  BY DEF GatewayInv
<1> QED BY <1>1, GatewayInvariant, PTL

\* No request reaches its backend past an undecided fail-closed filter or
\* without an identity (Runner.failure, servePlugin), whatever the chain.
THEOREM BackendGuarded == GatewaySpec => []BackendIsGuarded
<1>1. GatewayInv => BackendIsGuarded
  <2> SUFFICES ASSUME GatewayInv, NEW t \in Tasks, task[t].at = "backend"
               PROVE  /\ task[t].identity
                      /\ \A phase \in Early : \A j \in DOMAIN Chain[phase] :
                           Guards(task[t], phase, j) => <<phase, j>> \in task[t].decided
    BY DEF BackendIsGuarded, Guards
  <2>1. Guarded(task[t]) /\ Behind(task[t].at) = Early
    BY DEF GatewayInv, Behind
  <2> QED BY <2>1 DEF Guarded, Passed
<1> QED BY <1>1, GatewayInvariant, PTL
=============================================================================

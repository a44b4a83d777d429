------------------------------ MODULE Gateway ------------------------------
(***************************************************************************)
(* A request through the filter pipeline and to a plugin's backend, while  *)
(* plugins are installed, upgraded and removed under it.  A request loads  *)
(* one snapshot and keeps its filter chain; the process behind a plugin is *)
(* looked up again at every call.  What it reserves on an instance keeps   *)
(* that instance's drain waiting.                                          *)
(* Source: core/gateway/plugin_handler.go, core/pipeline/runner.go,        *)
(* core/pipeline/context.go, core/pluginhost/registry.go.                  *)
(***************************************************************************)
EXTENDS Integers, Sequences, FiniteSets

CONSTANTS
  Requests,
  Plugins,
  Generations,  \* Generations[p]: instances of p the environment may launch
  Chain,        \* Chain[phase]: the filters declared for the phase, in order
  Entries,      \* paths requests arrive with
  Bodies,       \* body sizes they arrive with, from BodySizes
  Replies       \* status codes a backend answers with, 0 when it sets none

Early    == {"pre_route", "authenticate", "authorize", "pre_handler"}
Response == {"post_handler", "on_error", "log"}
Phases   == Early \cup Response

\* A path leads to a plugin, to the bare plugin prefix, or elsewhere.
Paths     == Plugins \cup {"bare", "elsewhere"}

\* A body is small, over what a filter takes, or over what Core takes.
BodySizes == {"small", "large", "over"}

StatusCodes == 0..999

FilterType == [plugin : Plugins, routes : SUBSET Paths, rewrites : SUBSET Paths,
               failClosed : BOOLEAN, needsBody : BOOLEAN, allowIdentity : BOOLEAN]

ASSUME GatewayAssumption ==
  /\ IsFiniteSet(Requests)
  /\ Generations \in [Plugins -> Nat \ {0}]
  /\ Chain \in [Phases -> Seq(FilterType)]
  /\ Entries \subseteq Paths /\ Bodies \subseteq BodySizes
  /\ Replies \subseteq StatusCodes

VARIABLES
  current,   \* the registry: current[p] is p's serving generation, 0 for none
  state,     \* state[p][g]: the lifecycle of an instance
  inFlight,  \* inFlight[p][g]: reservations the instance counts
  task       \* the goroutine serving a request, and the one running its log phase

gatewayVars == <<current, state, inFlight, task>>

Tasks == Requests \X {"serve", "log"}
Log(t) == <<t[1], "log">>

Lifecycle == {"unborn", "ready", "draining", "drained", "killed"}
Stations  == Phases \cup {"idle", "backend", "live", "handed",
                          "leaving", "releasing", "done"}  \* leaving: it answers

Fresh == [at       |-> "idle",     \* where the goroutine is
          next     |-> 1,          \* the filter of the phase it looks at next
          calling  |-> 0,          \* the generation it is calling, 0 for none
          snap     |-> [p \in Plugins |-> 0],
          path     |-> "elsewhere",
          identity |-> FALSE,
          body     |-> "small",
          buffered |-> FALSE,
          isPlugin |-> FALSE,      \* isPluginRoute
          failed   |-> FALSE,      \* the backend call returned an error
          status   |-> 0,          \* rc.ResponseStatus
          sent     |-> 0,          \* what was written to the client, 0 for nothing
          admitted |-> [p \in Plugins |-> 0],  \* rc.admissions
          decided  |-> {}]         \* history: the filters that reached a decision

\* Core starts with every plugin enabled.
GatewayInit ==
  /\ current = [p \in Plugins |-> 1]
  /\ state = [p \in Plugins |->
                [g \in 1..Generations[p] |-> IF g = 1 THEN "ready" ELSE "unborn"]]
  /\ inFlight = [p \in Plugins |-> [g \in 1..Generations[p] |-> 0]]
  /\ task = [t \in Tasks |-> Fresh]

(***************************************************************************)
(* The registry and the drains.  Publishing and draining are two steps.    *)
(***************************************************************************)
Install(p) ==
  \E g \in 1..Generations[p] :
    /\ state[p][g] = "unborn" /\ \A h \in 1..(g - 1) : state[p][h] # "unborn"
    /\ state' = [state EXCEPT ![p][g] = "ready"]
    /\ current' = [current EXCEPT ![p] = g]
    /\ UNCHANGED <<inFlight, task>>

Remove(p) ==
  /\ current[p] # 0
  /\ current' = [current EXCEPT ![p] = 0]
  /\ UNCHANGED <<state, inFlight, task>>

BeginDrain(p, g) ==
  /\ state[p][g] = "ready" /\ current[p] # g
  /\ state' = [state EXCEPT ![p][g] = "draining"]
  /\ UNCHANGED <<current, inFlight, task>>

\* Nothing is in flight: the process is stopped.
DrainEnds(p, g) ==
  /\ state[p][g] = "draining" /\ inFlight[p][g] = 0
  /\ state' = [state EXCEPT ![p][g] = "drained"]
  /\ UNCHANGED <<current, inFlight, task>>

DrainTimesOut(p, g) ==
  /\ state[p][g] = "draining" /\ inFlight[p][g] > 0
  /\ state' = [state EXCEPT ![p][g] = "killed"]
  /\ UNCHANGED <<current, inFlight, task>>

Servable(p, g) == g # 0 /\ state[p][g] \in {"ready", "draining"}

(***************************************************************************)
(* Admission.  An instance is told apart by plugin only: what is held on   *)
(* one generation admits to another.                                       *)
(***************************************************************************)
CanAdmit(t, p, g) == task[t].admitted[p] # 0 \/ state[p][g] = "ready"

\* rc.Admit, and the call it admits to.
AdmitAndCall(t, p, g, at) ==
  LET r == [task[t] EXCEPT !.calling = g, !.at = at]
  IN IF task[t].admitted[p] # 0
     THEN task' = [task EXCEPT ![t] = r] /\ UNCHANGED inFlight
     ELSE /\ task' = [task EXCEPT ![t] = [r EXCEPT !.admitted[p] = g]]
          /\ inFlight' = [inFlight EXCEPT ![p][g] = @ + 1]

\* Mutant: the release goes to the instance that serves the plugin by then.
UnreservedLive(t) ==
  [p \in Plugins |-> [g \in 1..Generations[p] |->
     inFlight[p][g] - IF task[t].admitted[p] # 0 /\ current[p] = g THEN 1 ELSE 0]]

\* ReleaseAdmissions
Unreserved(t) ==
  [p \in Plugins |-> [g \in 1..Generations[p] |->
     inFlight[p][g] - IF task[t].admitted[p] = g THEN 1 ELSE 0]]

NoneAdmitted == [p \in Plugins |-> 0]

(***************************************************************************)
(* Runner.Run                                                              *)
(***************************************************************************)
Filters(t) == Chain[task[t].at]

\* The snapshot's chain has the filters of the plugins that are registered in it.
InChain(snap, f) == snap[f.plugin] # 0

HasPhase(snap, phase) == \E j \in DOMAIN Chain[phase] : InChain(snap, Chain[phase][j])

Remaining(t) ==
  {j \in DOMAIN Filters(t) :
     /\ j >= task[t].next
     /\ InChain(task[t].snap, Filters(t)[j])
     /\ task[t].path \in Filters(t)[j].routes}

\* The filter the phase has come to.
Reached(t, j) == j \in Remaining(t) /\ \A k \in Remaining(t) : j <= k

InPhase(t) == task[t].at \in Phases /\ task[t].calling = 0

\* The phase has run every filter that matches.
PhaseEnds(t, phase) == InPhase(t) /\ task[t].at = phase /\ Remaining(t) = {}

NormalizeStatus(code) ==
  IF code = 0 THEN 200 ELSE IF code < 100 \/ code > 599 THEN 502 ELSE code

\* Mutant: a short circuit is sent and not recorded.
ShortCircuitForgets(r, code) == [r EXCEPT !.at = "leaving", !.sent = NormalizeStatus(code)]

\* writeResponse, or the end of the log phase, where a stop means nothing.
ShortCircuit(r, code) ==
  IF r.at = "log" THEN [r EXCEPT !.at = "leaving"]
  ELSE [r EXCEPT !.at = "leaving", !.status = NormalizeStatus(code),
                 !.sent = NormalizeStatus(code)]

\* A task moves on by itself.
Goes(t, r) ==
  /\ task' = [task EXCEPT ![t] = r]
  /\ UNCHANGED <<current, state, inFlight>>

\* Mutant: a filter that could not be asked is skipped whatever it guards.
FailureOpens(r, f, j, code) == [r EXCEPT !.next = j + 1]

Failure(r, f, j, code) ==
  IF f.failClosed THEN ShortCircuit(r, code) ELSE [r EXCEPT !.next = j + 1]

FilterFails(t, f, j, code) == Goes(t, Failure(task[t], f, j, code))

\* runOne up to the call.  The circuit breaker may refuse whenever it likes.
RunFilter(t) ==
  /\ InPhase(t)
  /\ \E j \in DOMAIN Filters(t) :
       LET f == Filters(t)[j]
           g == current[f.plugin]
       IN /\ Reached(t, j)
          /\ IF f.needsBody /\ task[t].body = "large"
             THEN FilterFails(t, f, j, 413)
             ELSE \/ FilterFails(t, f, j, 503)
                  \/ /\ Servable(f.plugin, g) /\ CanAdmit(t, f.plugin, g)
                     /\ AdmitAndCall(t, f.plugin, g, task[t].at)
                     /\ UNCHANGED <<current, state>>

Stopped(p, g) == state[p][g] \in {"drained", "killed"}

Decided(r, j) ==
  [r EXCEPT !.calling = 0, !.next = j + 1, !.decided = @ \cup {<<r.at, j>>}]

\* applyMutation: a path means nothing once the backend has run, and who is
\* calling is settled in two phases, by the plugins permitted to.
Mutations(r, f) ==
  [path : {r.path} \cup IF r.at \in Early THEN f.rewrites ELSE {},
   identity : {r.identity, r.identity \/ (/\ f.allowIdentity
                                         /\ r.at \in {"authenticate", "authorize"})}]

Mutated(r, m) == [r EXCEPT !.path = m.path, !.identity = m.identity]

\* The filter stops the request, or lets it pass with what it changes.
Answer(t, f, j) ==
  \/ \E code \in {0, 403} : Goes(t, ShortCircuit(Decided(task[t], j), code))
  \/ \E m \in Mutations(task[t], f) : Goes(t, Mutated(Decided(task[t], j), m))

\* The call returns, or the transport or its timeout fails it.
FilterReturns(t) ==
  /\ task[t].at \in Phases /\ task[t].calling # 0
  /\ \E j \in DOMAIN Filters(t) :
       LET f == Filters(t)[j]
       IN /\ Reached(t, j)
          /\ \/ Goes(t, Failure([task[t] EXCEPT !.calling = 0], f, j, 503))
             \/ /\ ~Stopped(f.plugin, task[t].calling)
                /\ Answer(t, f, j)

(***************************************************************************)
(* PluginHandler.serve and servePlugin                                     *)
(***************************************************************************)
Enter(r, phase) == [r EXCEPT !.at = phase, !.next = 1]

Refuse(r, code) == [r EXCEPT !.at = "leaving", !.status = code, !.sent = code]

NeedsRequestBody(snap) ==
  \E phase \in Phases : \E j \in DOMAIN Chain[phase] :
    Chain[phase][j].needsBody /\ InChain(snap, Chain[phase][j])

Arrive(t) ==
  /\ task[t].at = "idle" /\ t[2] = "serve"
  /\ \E q \in Entries, b \in Bodies :
       LET plugin   == q # "elsewhere"
           buffered == plugin \/ NeedsRequestBody(current)
           r        == [Fresh EXCEPT !.snap = current, !.path = q, !.body = b,
                                     !.isPlugin = plugin, !.buffered = buffered]
       IN Goes(t, IF buffered /\ b = "over" THEN Refuse(r, 413)
                  ELSE Enter(r, "pre_route"))

\* Routing, and for a plugin's route Core's own answer to who is calling.
RoutesToPlugin(t) ==
  /\ PhaseEnds(t, "pre_route")
  /\ task[t].isPlugin \/ task[t].path # "elsewhere"
  /\ IF ~task[t].isPlugin /\ ~task[t].buffered /\ task[t].body = "over"
     THEN Goes(t, Refuse(task[t], 413))
     ELSE \E known \in BOOLEAN :
            Goes(t, [Enter(task[t], "authenticate")
                       EXCEPT !.isPlugin = TRUE, !.identity = known])

\* Mutant: the reservations are kept until the rest of the gateway is done.
HandsOnHolding(t) ==
  /\ PhaseEnds(t, "pre_route")
  /\ ~task[t].isPlugin /\ task[t].path = "elsewhere"
  /\ Goes(t, [task[t] EXCEPT !.at = "handed"])

\* Not a plugin's route: what the filters reserved is released first.
HandsOn(t) ==
  /\ PhaseEnds(t, "pre_route")
  /\ ~task[t].isPlugin /\ task[t].path = "elsewhere"
  /\ task' = [task EXCEPT ![t].at = "handed", ![t].admitted = NoneAdmitted]
  /\ inFlight' = Unreserved(t)
  /\ UNCHANGED <<current, state>>

\* The rest of the gateway answers.  An event stream never does.
NextServes(t) ==
  /\ task[t].at = "handed"
  /\ LET recorded == HasPhase(task[t].snap, "post_handler") \/ HasPhase(task[t].snap, "log")
     IN Goes(t, [task[t] EXCEPT !.at = "leaving", !.sent = 200,
                                !.status = IF recorded THEN 200 ELSE @])

EndAuthenticate(t) ==
  PhaseEnds(t, "authenticate") /\ Goes(t, Enter(task[t], "authorize"))

EndAuthorize(t) ==
  /\ PhaseEnds(t, "authorize")
  /\ Goes(t, IF task[t].identity THEN Enter(task[t], "pre_handler")
             ELSE Refuse(task[t], 401))

\* splitPluginPath finds no plugin: a 404 that is sent and not recorded.
EndPreHandler(t) ==
  /\ PhaseEnds(t, "pre_handler")
  /\ Goes(t, IF task[t].path \in Plugins THEN [task[t] EXCEPT !.at = "backend"]
             ELSE [task[t] EXCEPT !.at = "leaving", !.sent = 404])

\* The backend was not reached, or its call failed.
FailedCall(r, code) == [Enter(r, "on_error") EXCEPT !.failed = TRUE, !.status = code]

\* callBackend, through the snapshot.
CallBackend(t) ==
  /\ task[t].at = "backend" /\ task[t].calling = 0
  /\ LET p == task[t].path
         g == task[t].snap[p]
     IN IF Servable(p, g) /\ CanAdmit(t, p, g)
        THEN AdmitAndCall(t, p, g, "backend") /\ UNCHANGED <<current, state>>
        ELSE Goes(t, [task[t] EXCEPT !.at = "live"])

\* callBackend, once more through the registry as it is now.
CallLiveBackend(t) ==
  /\ task[t].at = "live"
  /\ LET p == task[t].path
         g == current[p]
     IN IF Servable(p, g) /\ g # task[t].snap[p] /\ CanAdmit(t, p, g)
        THEN AdmitAndCall(t, p, g, "backend") /\ UNCHANGED <<current, state>>
        ELSE Goes(t, FailedCall(task[t], IF Servable(p, g) THEN 503 ELSE 404))

\* dispatch returns, with an answer unless the process is gone.
BackendReturns(t) ==
  /\ task[t].at = "backend" /\ task[t].calling # 0
  /\ LET r == [task[t] EXCEPT !.calling = 0]
     IN \/ Goes(t, FailedCall(r, 502))
        \/ /\ ~Stopped(r.path, task[t].calling)
           /\ \E code \in Replies :
                Goes(t, [Enter(r, IF code >= 500 THEN "on_error" ELSE "post_handler")
                           EXCEPT !.status = code])

EndOnError(t) ==
  /\ PhaseEnds(t, "on_error")
  /\ Goes(t, IF task[t].failed
             THEN [task[t] EXCEPT !.at = "leaving", !.sent = task[t].status]
             ELSE Enter(task[t], "post_handler"))

EndPostHandler(t) ==
  /\ PhaseEnds(t, "post_handler")
  /\ Goes(t, [task[t] EXCEPT !.at = "leaving", !.sent = NormalizeStatus(task[t].status)])

EndLog(t) == PhaseEnds(t, "log") /\ Goes(t, [task[t] EXCEPT !.at = "leaving"])

\* Mutant: the log phase runs on the request's own context.
ForAsyncShares(r) ==
  [Enter(r, "log") EXCEPT !.sent = 0, !.decided = {}]

\* The copy the log phase works on has admissions of its own.
ForAsync(r) ==
  [Enter(r, "log") EXCEPT !.admitted = NoneAdmitted, !.sent = 0, !.decided = {}]

\* The deferred logPhase.
StartLog(t) ==
  /\ task[t].at = "leaving"
  /\ LET gone == [task EXCEPT ![t].at = "releasing"]
     IN task' = IF t[2] = "serve" /\ HasPhase(task[t].snap, "log")
                THEN [gone EXCEPT ![Log(t)] = ForAsync(task[t])]
                ELSE gone
  /\ UNCHANGED <<current, state, inFlight>>

\* The deferred ReleaseAdmissions, of the request or of its log phase.
Release(t) ==
  /\ task[t].at = "releasing"
  /\ task' = [task EXCEPT ![t] = [Fresh EXCEPT !.at = "done", !.sent = task[t].sent]]
  /\ inFlight' = Unreserved(t)
  /\ UNCHANGED <<current, state>>

Environment ==
  \E p \in Plugins :
    \/ Install(p)
    \/ Remove(p)
    \/ \E g \in 1..Generations[p] :
         BeginDrain(p, g) \/ DrainEnds(p, g) \/ DrainTimesOut(p, g)

\* What the goroutine does between its arrival and its end.
Proceeds(t) ==
  \/ RunFilter(t) \/ FilterReturns(t)
  \/ RoutesToPlugin(t) \/ HandsOn(t)
  \/ EndAuthenticate(t) \/ EndAuthorize(t) \/ EndPreHandler(t)
  \/ CallBackend(t) \/ CallLiveBackend(t) \/ BackendReturns(t)
  \/ EndOnError(t) \/ EndPostHandler(t) \/ EndLog(t)
  \/ StartLog(t) \/ Release(t)

GatewayNext ==
  \/ Environment
  \/ \E t \in Tasks : Arrive(t) \/ NextServes(t) \/ Proceeds(t)

\* The request writes its answer to the client, or reads the body it had left
\* unread until a filter rewrote the path.  The server has no timeout for either.
WaitsForClient(t) ==
  /\ t[2] = "serve"
  /\ \/ task[t].at = "leaving"
     \/ /\ PhaseEnds(t, "pre_route") /\ ~task[t].buffered
        /\ ~task[t].isPlugin /\ task[t].path # "elsewhere"

\* Every call of a plugin has a timeout and a drain polls.  Nothing makes a client
\* read or send, nor the rest of the gateway answer, nor a drain time out before it
\* has to.
GatewayFairness ==
  /\ \A t \in Tasks : WF_gatewayVars(~WaitsForClient(t) /\ Proceeds(t))
  /\ \A p \in Plugins : \A g \in 1..Generations[p] : WF_gatewayVars(DrainEnds(p, g))

GatewaySpec == GatewayInit /\ [][GatewayNext]_gatewayVars /\ GatewayFairness

(***************************************************************************)
(* Properties                                                              *)
(***************************************************************************)
\* A generation of every plugin, 0 for none.
Choices == {h \in [Plugins -> Nat] : \A p \in Plugins : h[p] <= Generations[p]}

TaskType ==
  [at : Stations, next : Nat, calling : Nat, snap : Choices, path : Paths,
   identity : BOOLEAN, body : BodySizes, buffered : BOOLEAN, isPlugin : BOOLEAN,
   failed : BOOLEAN, status : StatusCodes, sent : StatusCodes, admitted : Choices,
   decided : SUBSET (Phases \X Nat)]

\* The variables have their types: reservations are counted from zero up, and
\* a task holds and calls generations that may be launched.
GatewayTypeOK ==
  /\ current \in Choices
  /\ DOMAIN state = Plugins /\ DOMAIN inFlight = Plugins
  /\ \A p \in Plugins : /\ state[p] \in [1..Generations[p] -> Lifecycle]
                        /\ inFlight[p] \in [1..Generations[p] -> Nat]
  /\ task \in [Tasks -> TaskType]

\* An instance counts in flight exactly the requests and log phases that hold
\* a reservation on it (Instance.BeginRequest, ReleaseAdmissions): none is
\* lost, none is released twice, none outlives its goroutine.
ReservationsAreExact ==
  \A p \in Plugins : \A g \in 1..Generations[p] :
    inFlight[p][g] = Cardinality({t \in Tasks : task[t].admitted[p] = g})

\* The backend is called for a caller somebody has identified, after every
\* fail-closed filter of the snapshot that covers all paths has decided,
\* whatever was upgraded, removed or refused by a breaker meanwhile
\* (Runner.failure, servePlugin).
BackendIsGuarded ==
  \A t \in Tasks :
    task[t].at = "backend" =>
      /\ task[t].identity
      /\ \A phase \in Early : \A j \in DOMAIN Chain[phase] :
           LET f == Chain[phase][j]
           IN f.failClosed /\ f.routes = Paths /\ InChain(task[t].snap, f)
                => <<phase, j>> \in task[t].decided

\* The log phase is told the status the client was sent, up to the
\* normalisation of what a backend answered; the exit for a path with no
\* plugin in it is the one that records nothing (servePlugin, writeResponse).
LogKnowsWhatWasSent ==
  \A r \in Requests :
    LET served == task[<<r, "serve">>]
        logged == task[<<r, "log">>]
    IN logged.at \notin {"idle", "done"} /\ (logged.status = 0 => logged.path \in Plugins)
         => NormalizeStatus(logged.status) = served.sent

\* A drain whose timeout does not fire is kept waiting by clients alone: if it never
\* ends, then from some moment on a request that waits for its own client holds a
\* reservation there (serve; core/main.go:339 sets no timeouts).  Filters and
\* backends that fail, log phases, and requests handed on to a stream that never
\* ends, which release first, do not keep it.
OnlyClientsHoldDrains ==
  \A p \in Plugins : \A g \in 1..Generations[p] :
    <>[](state[p][g] = "draining") =>
      <>[](\E t \in Tasks : task[t].admitted[p] = g /\ WaitsForClient(t))

\* "Begin reserves capacity on the instance so a drain waits for this call."
\* (core/pipeline/runner.go:26)  No call is in progress on an instance whose
\* drain ended because it had nothing in flight.
DrainWaitsForCalls ==
  \A t \in Tasks :
    task[t].calling # 0 =>
      /\ task[t].at = "backend" => state[task[t].path][task[t].calling] # "drained"
      /\ task[t].at \in Phases =>
           \A j \in DOMAIN Filters(t) :
             Reached(t, j) => state[Filters(t)[j].plugin][task[t].calling] # "drained"
=============================================================================

------------------------------ MODULE Exchange ------------------------------
(***************************************************************************)
(* What a request carries through its phases: headers, identity and values *)
(* that filters read and edit, on the way from Core over the wire to the   *)
(* SDK, through the results a filter builds there, and back; and what the  *)
(* client and the log phase are told in the end.  Which filters run, and   *)
(* what a failing one means, is the module Gateway's subject; here every   *)
(* phase has one filter, and a path is left as it is.  A header has two    *)
(* spellings and a list of values, and one value is kept under a key.      *)
(* Source: core/pipeline/context.go, headers.go and runner.go, core/       *)
(* gateway/plugin_handler.go, sdk/plugin/context.go and bridge.go.         *)
(***************************************************************************)
EXTENDS Integers, Sequences, SequencesExt

CONSTANTS
  Authenticates,  \* phases whose filter holds filter:authenticate
  FailClosed,     \* phases whose filter refuses what it cannot judge
  Statuses,       \* numbers a plugin answers with
  MaxEdits        \* bound: calls on one result, or on one response

VARIABLES
  hop,    \* the phase, or the place, the request has come to
  rc,     \* RequestContext
  protoHeaders,  \* the cached wire form of the request's header
  informed,  \* every filter and backend so far was told what the edits before it add up to
  meant,  \* what the edits so far add up to
  reply   \* what the client gets, and the status the log phase reports

exchangeVars == <<hop, rc, protoHeaders, informed, meant, reply>>

Spellings == {"X-A", "x-a"}
Canonical(n) == "X-A"
NoHeader == [n \in Spellings |-> <<>>]

Phases == {"pre_route", "authenticate", "authorize", "pre_handler", "on_error", "post_handler"}

isResponsePhase(phase) == phase \in {"post_handler", "on_error"}
identityMutationAllowed(phase) == phase \in {"authenticate", "authorize"}

NotCached == [cached |-> FALSE, headers |-> NoHeader]
NoReply == [by |-> "nobody", status |-> 0, header |-> NoHeader, logged |-> 0]

\* NewRequestContext, for a header of no value or of two.
ExchangeInit ==
  /\ hop = "pre_route"
  /\ rc \in [header : {NoHeader, [NoHeader EXCEPT !["X-A"] = <<"a", "b">>]},
             response : {NoHeader}, status : {0}, identity : {"none"}, value : {"none"}]
  /\ protoHeaders = NotCached
  /\ informed = TRUE /\ meant = rc /\ reply = NoReply

-----------------------------------------------------------------------------
(* Headers on the wire.                                                    *)

ToProtoHeaders(h) == [n \in {m \in Spellings : h[m] # <<>>} |-> h[n]]

\* Spellings are made canonical one by one: of two spellings, either one stays.
FromProtoHeaders(w) ==
  IF DOMAIN w = {} THEN {NoHeader}
  ELSE {[NoHeader EXCEPT ![Canonical(n)] = w[n]] : n \in DOMAIN w}

\* Removals run before additions.
applyHeaderMutation(h, set, remove) ==
  LET rest == [n \in Spellings |-> IF n \in {Canonical(m) : m \in remove} THEN <<>> ELSE h[n]]
  IN IF set = <<>> THEN rest ELSE [rest EXCEPT !["X-A"] = set]

\* The request's header as it is sent, converted once and kept.
wireHeaders == IF protoHeaders.cached THEN protoHeaders.headers ELSE ToProtoHeaders(rc.header)

-----------------------------------------------------------------------------
(* Results, as a filter builds them with the SDK.                          *)

Edits == {"SetRequestHeader", "RemoveRequestHeader", "SetResponseHeader",
          "RemoveResponseHeader", "SetIdentity", "SetValue"}

\* Continue, Stop and Mutate: only Mutate makes the maps that setters write to.
Result(action) ==
  [action |-> action, maps |-> action = "mutate", setRequest |-> <<>>, removeRequest |-> {},
   setResponse |-> <<>>, removeResponse |-> {}, identity |-> "none", value |-> "none"]

\* One call on a result; a setter on a map that is not there panics, which ends
\* the process and fails the call.
Edited(r, edit, by) ==
  CASE edit = "SetRequestHeader" /\ r.maps -> [r EXCEPT !.setRequest = <<by>>]
    [] edit = "SetResponseHeader" /\ r.maps -> [r EXCEPT !.setResponse = <<by>>]
    [] edit \in {"SetRequestHeader", "SetResponseHeader"} /\ ~r.maps -> [r EXCEPT !.action = "panic"]
    [] edit = "RemoveRequestHeader" -> [r EXCEPT !.removeRequest = @ \cup {"x-a"}]
    [] edit = "RemoveResponseHeader" -> [r EXCEPT !.removeResponse = @ \cup {"x-a"}]
    [] edit = "SetIdentity" -> [r EXCEPT !.identity = by]
    [] edit = "SetValue" -> [r EXCEPT !.value = by]

Built(action, edits, by) ==
  FoldLeft(LAMBDA r, edit : IF r.action = "panic" THEN r ELSE Edited(r, edit, by), Result(action), edits)

\* Only a mutation carries the edits.
toProto(r) == IF r.action = "mutate" THEN r ELSE Result(r.action)

\* The SDK's Filter: a phase that is not handled, and no result, continue.
SdkFilter(handled, r) == IF handled THEN toProto(r) ELSE Result("continue")

\* FilterRequest: what the filter of a phase is told.
buildFilterRequest(phase) ==
  {[header |-> h, response |-> IF isResponsePhase(phase) THEN rc.response ELSE NoHeader,
    status |-> IF isResponsePhase(phase) THEN rc.status ELSE 0,
    identity |-> rc.identity, value |-> rc.value]
    : h \in FromProtoHeaders(wireHeaders)}

\* What the callee can read is what the edits so far add up to.
Hears(known) == informed' = (informed /\ \A field \in DOMAIN known : known[field] = meant[field])

\* What a filter can read, from its argument and from its context.
withFilterValues(t) == [header |-> t.header, identity |-> t.identity, value |-> t.value]

\* What a handler can read: values do not reach it.
withRequestValues(h) == [header |-> h, identity |-> rc.identity]

-----------------------------------------------------------------------------
(* Phases.                                                                 *)

normalizeStatus(code) == IF code = 0 THEN 200 ELSE IF code < 100 \/ code > 599 THEN 502 ELSE code

\* The hop after the filter of a phase has let the request pass.
Onward(phase) ==
  CASE phase = "pre_route" -> {"authenticate", "core"}
    [] phase = "authenticate" -> {"authorize"}
    [] phase = "authorize" -> {"pre_handler"}
    [] phase = "pre_handler" -> {"backend"}
    [] phase = "on_error" -> IF meant.status = 0 THEN {"error"} ELSE {"post_handler"}
    [] phase = "post_handler" -> {"final"}

\* writeResponse: a short circuit is sent, and recorded for the log phase.
writeResponse(status) ==
  /\ hop' = "sent"
  /\ reply' = [by |-> "filter", status |-> normalizeStatus(status), header |-> NoHeader, logged |-> normalizeStatus(status)]
  /\ rc' = [rc EXCEPT !.status = normalizeStatus(status), !.response = NoHeader]
  /\ UNCHANGED meant

\* applyMutation, without the cache it drops.
Mutated(state, m, phase) ==
  [state EXCEPT
    !.header = applyHeaderMutation(@, m.setRequest, m.removeRequest),
    !.response = IF isResponsePhase(phase) THEN applyHeaderMutation(@, m.setResponse, m.removeResponse) ELSE @,
    !.identity = IF m.identity # "none" /\ phase \in Authenticates /\ identityMutationAllowed(phase)
                 THEN m.identity ELSE @,
    !.value = IF m.value # "none" THEN m.value ELSE @]

\* What a list of edits says, read one by one: the last addition of a header, or
\* else its removal; an identity where it may still be given.
Denoted(state, edits, phase) ==
  LET has(edit) == \E i \in DOMAIN edits : edits[i] = edit
      edited(old, set, remove) ==
        IF has(set) THEN [NoHeader EXCEPT !["X-A"] = <<phase>>]
        ELSE IF has(remove) THEN NoHeader ELSE old
  IN [state EXCEPT
       !.header = edited(@, "SetRequestHeader", "RemoveRequestHeader"),
       !.response = IF phase \in {"on_error", "post_handler"}
                    THEN edited(@, "SetResponseHeader", "RemoveResponseHeader") ELSE @,
       !.identity = IF has("SetIdentity") /\ phase \in Authenticates \cap {"authenticate", "authorize"} THEN phase ELSE @,
       !.value = IF has("SetValue") THEN phase ELSE @]

\* The filter of a phase is called and answers.
CallFilter(phase) ==
  /\ protoHeaders' = [cached |-> TRUE, headers |-> wireHeaders]
  /\ \E t \in buildFilterRequest(phase) : Hears(withFilterValues(t))

\* Mutant: what the filter of an earlier phase was sent is sent to later ones.
applyKeepingCache(phase, edits) ==
  /\ CallFilter(phase)
  /\ rc' = Mutated(rc, toProto(Built("mutate", edits, phase)), phase)
  /\ meant' = Denoted(meant, edits, phase)
  /\ hop' \in Onward(phase) /\ UNCHANGED reply

\* A mutation is applied, and the cached wire form dropped.
applyMutation(phase, edits) ==
  /\ \E t \in buildFilterRequest(phase) : Hears(withFilterValues(t))
  /\ protoHeaders' = NotCached
  /\ rc' = Mutated(rc, toProto(Built("mutate", edits, phase)), phase)
  /\ meant' = Denoted(meant, edits, phase)
  /\ hop' \in Onward(phase) /\ UNCHANGED reply

\* A result that is not a mutation lets the request pass, whatever was called on
\* it, unless it panics.
FilterContinues(phase, handled, edits) ==
  /\ CallFilter(phase)
  /\ SdkFilter(handled, Built("continue", edits, phase)).action = "continue"
  /\ hop' \in Onward(phase) /\ UNCHANGED <<rc, meant, reply>>

FilterStops(phase, status) ==
  /\ CallFilter(phase)
  /\ SdkFilter(TRUE, Built("stop", <<>>, phase)).action = "stop"
  /\ writeResponse(status)

\* The filter returns an error, or its process ends: refused or let pass.
FilterFails(phase) ==
  /\ CallFilter(phase)
  /\ IF phase \in FailClosed THEN writeResponse(503)
     ELSE hop' \in Onward(phase) /\ UNCHANGED <<rc, meant, reply>>

\* The filter of the phase the request has come to runs.
RunPhase ==
  /\ hop \in Phases
  /\ \/ FilterFails(hop)
     \/ \E status \in Statuses : FilterStops(hop, status)
     \/ \E edits \in BoundedSeq(Edits, MaxEdits) :
          applyMutation(hop, edits) \/ \E handled \in BOOLEAN : FilterContinues(hop, handled, edits)

-----------------------------------------------------------------------------
(* The backend.                                                            *)

\* responseRecorder: the first status counts, and a Write before any is 200.
\* A call is a status, or -1 for a Write.
StatusOf(calls) ==
  IF calls = <<>> THEN 200 ELSE IF Head(calls) = -1 THEN 200 ELSE Head(calls)

\* What the handler of the plugin answers: nothing to call, a path it cannot
\* parse, or the calls its handler makes.
HandleHTTP == {501, 400} \cup {StatusOf(calls) : calls \in BoundedSeq(Statuses \cup {-1}, MaxEdits)}

\* A response header with one spelling or with both.
ResponseHeaders ==
  {NoHeader, [NoHeader EXCEPT !["x-a"] = <<"p", "q">>], [n \in Spellings |-> <<"p", n>>]}

\* dispatch, and what servePlugin does with the response.
Dispatch ==
  /\ hop = "backend"
  /\ \E h \in FromProtoHeaders(ToProtoHeaders(rc.header)) : Hears(withRequestValues(h))
  /\ \E status \in HandleHTTP, sent \in ResponseHeaders :
       \E h \in FromProtoHeaders(ToProtoHeaders(sent)) :
         /\ rc' = [rc EXCEPT !.status = status, !.response = h]
         /\ meant' = [meant EXCEPT !.status = normalizeStatus(status), !.response = h]
         /\ hop' = IF status >= 500 THEN "on_error" ELSE "post_handler"
  /\ UNCHANGED <<protoHeaders, reply>>

\* The backend cannot be called, or fails.
DispatchFails ==
  /\ hop = "backend"
  /\ \E status \in {502, 503, 404} : rc' = [rc EXCEPT !.status = status]
  /\ hop' = "on_error"
  /\ UNCHANGED <<protoHeaders, informed, meant, reply>>

\* http.Error: what filters made of a response that is not there is not sent.
SendError ==
  /\ hop = "error" /\ hop' = "sent"
  /\ reply' = [by |-> "error", status |-> rc.status, header |-> NoHeader, logged |-> rc.status]
  /\ UNCHANGED <<rc, protoHeaders, informed, meant>>

\* writeFinal.
SendFinal ==
  /\ hop = "final" /\ hop' = "sent"
  /\ reply' = [by |-> "backend", status |-> normalizeStatus(rc.status), header |-> rc.response, logged |-> rc.status]
  /\ UNCHANGED <<rc, protoHeaders, informed, meant>>

\* One of Core's own handlers answers, through a recorder.
ServeCore ==
  /\ hop = "core" /\ hop' = "sent"
  /\ \E status \in {200, 404, 500} :
       /\ reply' = [by |-> "core", status |-> status, header |-> NoHeader, logged |-> status]
       /\ rc' = [rc EXCEPT !.status = status]
  /\ UNCHANGED <<protoHeaders, informed, meant>>

-----------------------------------------------------------------------------
ExchangeNext == RunPhase \/ Dispatch \/ DispatchFails \/ SendError \/ SendFinal \/ ServeCore

ExchangeSpec == ExchangeInit /\ [][ExchangeNext]_exchangeVars

-----------------------------------------------------------------------------
(* Properties.                                                             *)

\* The variables have their types.
ExchangeTypeOK ==
  /\ hop \in Phases \cup {"backend", "core", "error", "final", "sent"}
  /\ rc.value \in Phases \cup {"none"} /\ rc.identity \in Phases \cup {"none"}
  /\ protoHeaders.cached \in BOOLEAN /\ informed \in BOOLEAN

\* A callee is told the header, identity and values that the edits of all filters
\* before it add up to, every value of a repeated header included: "later filters
\* must see the edit" (context.go:238-239), although the wire form is kept.
EditsAreSeen == informed

\* The client gets a status that net/http accepts, and the log phase the same
\* one unless the plugin's was none; what the filters made of the backend's
\* response is what is sent.  Edits of the response are lost where there is none.
ReplyIsTrue == hop = "sent" =>
  /\ reply.status \in 100..599
  /\ reply.logged # reply.status => reply.logged \notin 100..599
  /\ reply.by = "backend" => reply.header = meant.response /\ reply.status = meant.status

\* A request and its reply are what the filters made them.
ExchangeIsTrue == EditsAreSeen /\ ReplyIsTrue
=============================================================================

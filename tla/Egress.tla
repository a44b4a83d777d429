------------------------------- MODULE Egress -------------------------------
(***************************************************************************)
(* Outbound requests of one plugin: refused by their URL, by the           *)
(* allow-list or by the rate, or made; and audited in every case.          *)
(* Source: core/hostsvc/egress.go, core/hostsvc/rpc_runtime.go (Fetch).    *)
(***************************************************************************)
EXTENDS Naturals, FiniteSets

CONSTANTS
  MaxFetches,  \* bound: requests in a behaviour, numbered as they come
  RateLimit,   \* RatePerMinute
  Minute,      \* a minute, in ticks
  MaxTick      \* bound: the clock

VARIABLES
  tick,        \* the clock
  window,      \* [start, count]; a count of 0 is no window
  fetch,       \* fetch[n]: [at, passed], how far n is and when it passed the rate
  audits,      \* audits[n]: how often n was audited
  spent        \* every refusal for the rate found the rate used up

egressVars == <<tick, window, fetch, audits, spent>>

Fetches == 1..MaxFetches
Never == MaxTick + Minute

EgressInit ==
  /\ tick = 0 /\ window = [start |-> 0, count |-> 0]
  /\ fetch = [n \in Fetches |-> [at |-> "new", passed |-> Never]]
  /\ audits = [n \in Fetches |-> 0] /\ spent = TRUE

EgressTick == tick < MaxTick /\ tick' = tick + 1 /\ UNCHANGED <<window, fetch, audits, spent>>

\* Fetch returns a response, or an error that egressErr classifies.
FetchEnds(n) ==
  /\ fetch' = [fetch EXCEPT ![n].at = "ended"]
  /\ audits' = [audits EXCEPT ![n] = @ + 1]

\* parseTarget and the allow-list let it go on, or refuse it.
FetchBegins(n) ==
  /\ fetch[n].at = "new" /\ \A m \in Fetches : m < n => fetch[m].at # "new"
  /\ \/ fetch' = [fetch EXCEPT ![n].at = "allowed"] /\ UNCHANGED audits
     \/ FetchEnds(n)
  /\ UNCHANGED <<tick, window, spent>>

\* allowRate, a window that begins with the first request after the last one.
NewWindow == window.count = 0 \/ tick - window.start >= Minute

\* Mutants: one more in a window; the window moves with every request.
PassesOneMore == NewWindow \/ window.count <= RateLimit
CountedSliding == [start |-> tick, count |-> IF NewWindow THEN 1 ELSE window.count + 1]

RatePasses == NewWindow \/ window.count < RateLimit

RateCounted ==
  IF NewWindow THEN [start |-> tick, count |-> 1] ELSE [window EXCEPT !.count = @ + 1]

FetchPasses(n) ==
  /\ fetch[n].at = "allowed" /\ RatePasses
  /\ window' = RateCounted
  /\ fetch' = [fetch EXCEPT ![n] = [at |-> "calling", passed |-> tick]]
  /\ UNCHANGED <<tick, audits, spent>>

\* Requests that passed in the minute that begins at t.
PassedIn(t) == {n \in Fetches : t <= fetch[n].passed /\ fetch[n].passed < t + Minute}

PassedLately == {n \in Fetches : fetch[n].passed <= tick /\ tick < fetch[n].passed + Minute}

\* Mutant: the refusal is not audited.
FetchRefusedQuietly(n) ==
  /\ fetch[n].at = "allowed" /\ ~RatePasses
  /\ fetch' = [fetch EXCEPT ![n].at = "ended"]
  /\ spent' = (spent /\ Cardinality(PassedLately) >= RateLimit)
  /\ UNCHANGED <<tick, window, audits>>

FetchRefused(n) ==
  /\ fetch[n].at = "allowed" /\ ~RatePasses
  /\ FetchEnds(n)
  /\ spent' = (spent /\ Cardinality(PassedLately) >= RateLimit)
  /\ UNCHANGED <<tick, window>>

\* The request cannot be built, the dial is refused, the host does not answer,
\* the deadline passes, the body breaks off, or there is a response.
FetchReturns(n) ==
  /\ fetch[n].at = "calling"
  /\ FetchEnds(n)
  /\ UNCHANGED <<tick, window, spent>>

EgressNext ==
  \/ EgressTick
  \/ \E n \in Fetches : FetchBegins(n) \/ FetchPasses(n) \/ FetchRefused(n) \/ FetchReturns(n)

EgressSpec == EgressInit /\ [][EgressNext]_egressVars

-----------------------------------------------------------------------------
(* Properties.                                                             *)

\* The variables have their types.
EgressTypeOK ==
  /\ tick \in 0..MaxTick
  /\ window.start <= tick /\ window.count \in 0..RateLimit
  /\ \A n \in Fetches : fetch[n].at \in {"new", "allowed", "calling", "ended"}

\* In no minute, wherever it begins, do more requests pass than two windows can
\* hold that share it (egress.go:219-220).
MinuteIsBounded == \A t \in 0..MaxTick : Cardinality(PassedIn(t)) <= 2 * RateLimit - 1

\* A request is refused for the rate only when as many as the rate passed within
\* the last minute (egress.go:117, "too many requests this minute").
RefusedWhenSpent == spent

\* Every request is audited once, whichever way it ends (egress.go:45-47, "every
\* attempt ..., including the ones that were refused").
AuditedOnce == \A n \in Fetches : audits[n] = IF fetch[n].at = "ended" THEN 1 ELSE 0

\* The rate window is neither too generous nor too strict, and every request is
\* in the audit trail (egress.go:45-47, :117, :219-226).
EgressIsFair == MinuteIsBounded /\ RefusedWhenSpent /\ AuditedOnce
=============================================================================

---------------------------- MODULE AtLeastOnce -----------------------------
(***************************************************************************)
(* What the durable queue promises (core/db/queue.go:15-25): a message it  *)
(* accepted waits until a handler has succeeded with it, or until it is    *)
(* parked where an operator can bring it back.  It is never dropped.       *)
(***************************************************************************)
CONSTANT Messages

VARIABLES
  phase,    \* phase[m]: "new", "waiting", "parked" or "finished"
  handled   \* the messages a handler has succeeded with

avars == <<phase, handled>>

AInit ==
  /\ phase = [m \in Messages |-> "new"]
  /\ handled = {}

Move(ms, from, to) ==
  /\ \A m \in ms : phase[m] = from
  /\ phase' = [m \in Messages |-> IF m \in ms THEN to ELSE phase[m]]
  /\ UNCHANGED handled

Accept(m) == Move({m}, "new", "waiting")

Revive(m) == Move({m}, "parked", "waiting")

Finish(m) == m \in handled /\ Move({m}, "waiting", "finished")

Park(ms) == Move(ms, "waiting", "parked")

\* A handler may succeed late: after its message was parked or finished.
Handle(m) ==
  /\ phase[m] # "new"
  /\ handled' = handled \cup {m}
  /\ UNCHANGED phase

ANext ==
  \/ \E m \in Messages : Accept(m) \/ Revive(m) \/ Finish(m) \/ Handle(m)
  \/ \E ms \in SUBSET Messages : Park(ms)

ASpec == AInit /\ [][ANext]_avars
=============================================================================

------------------------------ MODULE Limiter ------------------------------
(***************************************************************************)
(* The rate limiter of the example plugin ratelimit: a bucket of tokens    *)
(* per caller that refills with time, and a sweep that forgets idle        *)
(* buckets.  Tokens are counted in parts, Token of them a token, so that   *)
(* rates are whole numbers of parts per tick.                              *)
(* Source: extension-example/ratelimit/main.go.                            *)
(***************************************************************************)
EXTENDS Naturals, FiniteSetsExt

CONSTANTS
  BucketKeys,    \* callers
  LimitSettings, \* [rate, burst], in parts; burst is a multiple of rate
  Token, SweepEvery,
  Sec,           \* a second, in ticks
  MaxNow         \* bound: the clock

VARIABLES
  now, limit,    \* limit: the settings
  buckets,       \* buckets[k]: [tokens, last], or none
  sweptAt,
  kept,          \* kept[k]: the bucket k would have, were none ever swept
  retry,         \* retry[k]: when k was told to come back, or none
  steady,        \* the settings are those it began with
  alike, kindly  \* every answer was that of kept; every promise was held

limiterVars == <<now, limit, buckets, sweptAt, kept, retry, steady, alike, kindly>>

NoBucket == [tokens |-> 0, last |-> MaxNow + 1]
NoPromise == MaxNow + 1
Full == [tokens |-> limit.burst, last |-> now]

LimiterInit ==
  /\ now = 0 /\ limit \in LimitSettings
  /\ buckets = [k \in BucketKeys |-> NoBucket] /\ sweptAt = 0
  /\ kept = [k \in BucketKeys |-> [tokens |-> limit.burst, last |-> 0]]
  /\ retry = [k \in BucketKeys |-> NoPromise]
  /\ steady = TRUE /\ alike = TRUE /\ kindly = TRUE

LimiterTick ==
  /\ now < MaxNow /\ now' = now + 1
  /\ UNCHANGED <<limit, buckets, sweptAt, kept, retry, steady, alike, kindly>>

\* Mutant: idle does not wait for the bucket to be full.
IdleForSweep == SweepEvery

\* sweepLocked.
IdleFor == limit.burst \div limit.rate + SweepEvery

SweptBuckets ==
  IF now - sweptAt < SweepEvery THEN buckets
  ELSE [k \in BucketKeys |->
          IF buckets[k] # NoBucket /\ now - buckets[k].last > IdleFor THEN NoBucket ELSE buckets[k]]

\* Mutant: what is earned is not capped.
EarnedUncapped(b) == [tokens |-> b.tokens + (now - b.last) * limit.rate, last |-> now]

\* take: the bucket of k with what it earned since, and without the token taken.
Earned(b) ==
  [tokens |-> Min({b.tokens + (now - b.last) * limit.rate, limit.burst}), last |-> now]

Taken(b) == IF b.tokens < Token THEN b ELSE [b EXCEPT !.tokens = @ - Token]

\* Mutant: rounded without a second to spare.
RetryAfterExact(b) ==
  Sec * ((2 * (Token - b.tokens) + Sec * limit.rate) \div (2 * Sec * limit.rate))

\* The time to a whole token and a second, rounded to seconds by check.
RetryAfter(b) ==
  Sec * ((2 * (Token - b.tokens) + 3 * Sec * limit.rate) \div (2 * Sec * limit.rate))

TakeToken(k) ==
  LET b == Earned(IF SweptBuckets[k] = NoBucket THEN Full ELSE SweptBuckets[k])
      r == Earned(kept[k])
      allowed == b.tokens >= Token
  IN /\ buckets' = [SweptBuckets EXCEPT ![k] = Taken(b)]
     /\ sweptAt' = IF now - sweptAt < SweepEvery THEN sweptAt ELSE now
     /\ kept' = [kept EXCEPT ![k] = Taken(r)]
     /\ alike' = (alike /\ (steady => allowed = (r.tokens >= Token)))
     /\ kindly' = (kindly /\ (allowed \/ now < retry[k]))
     /\ retry' = [retry EXCEPT ![k] =
          IF allowed THEN NoPromise ELSE Min({retry[k], now + RetryAfter(b)})]
     /\ UNCHANGED <<now, limit, steady>>

\* Mutant: saving the settings fills the buckets.
ConfigureRefills(settings) ==
  /\ limit' = settings
  /\ steady' = (steady /\ settings = limit)
  /\ buckets' = [k \in BucketKeys |-> NoBucket]
  /\ retry' = IF settings = limit THEN retry ELSE [k \in BucketKeys |-> NoPromise]
  /\ UNCHANGED <<now, sweptAt, kept, alike, kindly>>

\* configure: the buckets stay as they are.
Configure(settings) ==
  /\ limit' = settings
  /\ steady' = (steady /\ settings = limit)
  /\ retry' = IF settings = limit THEN retry ELSE [k \in BucketKeys |-> NoPromise]
  /\ UNCHANGED <<now, buckets, sweptAt, kept, alike, kindly>>

LimiterNext ==
  \/ LimiterTick
  \/ \E k \in BucketKeys : TakeToken(k)
  \/ \E settings \in LimitSettings : Configure(settings)

LimiterSpec == LimiterInit /\ [][LimiterNext]_limiterVars

-----------------------------------------------------------------------------
(* Properties.                                                             *)

MaxBurst == Max({settings.burst : settings \in LimitSettings})

\* The variables have their types.
LimiterTypeOK ==
  /\ limit \in LimitSettings /\ sweptAt \in 0..now
  /\ \A k \in BucketKeys :
       buckets[k] = NoBucket \/ (buckets[k].tokens \in 0..MaxBurst /\ buckets[k].last <= now)

\* Forgetting a bucket, or saving the same settings again, changes no answer
\* (main.go:176-177, "forgetting them changes nothing"; :219-221).
ForgettingChangesNothing == alike

\* A caller that comes back after Retry-After is let in (main.go:167-169),
\* unless the settings changed.
RetryAfterIsEnough == kindly

\* A caller sees the limit of its settings: forgetting is unseen, and waiting as
\* long as it was told is enough (ratelimit/main.go:167-169, :176-177).
LimiterIsFair == ForgettingChangesNothing /\ RetryAfterIsEnough
=============================================================================

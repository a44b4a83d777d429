----------------------------- MODULE Scheduler -----------------------------
(***************************************************************************)
(* The cron jobs of one plugin: the ticks that claim a minute for a job,   *)
(* the goroutines that run it, restarts of Core in the middle of a minute, *)
(* and the summary the notes example publishes from its job, which is      *)
(* deduplicated on the scheduled minute for as long as it is in the queue. *)
(* Source: core/pluginhost/scheduler.go, extension-example/notes/main.go,  *)
(* core/db/queue.go.                                                       *)
(***************************************************************************)
EXTENDS Integers, FiniteSets

CONSTANTS
  Jobs,
  FiresIn,         \* FiresIn[j]: the minutes Schedule.Matches accepts
  TicksPerMinute,  \* a minute over DefaultSchedulerInterval
  Hour,            \* the minutes claim remembers
  MaxMinute        \* bound on the clock

ASSUME SchedulerAssumption ==
  /\ IsFiniteSet(Jobs) /\ FiresIn \in [Jobs -> SUBSET (0..MaxMinute)]
  /\ {TicksPerMinute, Hour} \subseteq Nat \ {0} /\ MaxMinute \in Nat

VARIABLES
  slot,       \* the clock, in intervals between two ticks
  lastRun,    \* Scheduler.lastRun; Never when a job has no entry
  serves,     \* the plugin: absent from the snapshot, draining or accepting
  runs,       \* the runs under way: [job, scheduled, at]
  starts,     \* starts[j][m]: how often this Core started j for minute m
  summaries,  \* those pending or being processed, by job, occurrence and dedup key
  met         \* how the ticks of this minute have found the plugin

schedulerVars == <<slot, lastRun, serves, runs, starts, summaries, met>>

Never == -1
Minutes == 0..MaxMinute
Minute(t) == t \div TicksPerMinute
Now == Minute(slot)

SchedulerInit ==
  /\ slot = 0
  /\ lastRun = [j \in Jobs |-> Never]
  /\ serves = "absent"
  /\ runs = {}
  /\ starts = [j \in Jobs |-> [m \in Minutes |-> 0]]
  /\ summaries = {}
  /\ met = {}

-----------------------------------------------------------------------------
\* Mutant: a claim that remembers the tick instead of its minute.
UnclaimedTick(j) == lastRun[j] # slot

\* Mutant: a job that has an entry is taken for done.
UnclaimedEver(j) == lastRun[j] = Never

\* claim: the minute is free for the job.
Unclaimed(j) == lastRun[j] # Now

Due == {j \in Jobs : Now \in FiresIn[j] /\ Unclaimed(j)}

\* Mutant: an age is kept instead of the entry.
ForgottenOff(m) == IF m # Never /\ Now - m > Hour THEN Now - m + MaxMinute ELSE m

\* claim drops the entries older than an hour.
Forgotten(m) == IF m # Never /\ Now - m > Hour THEN Never ELSE m

\* claim: the jobs that are due take the minute.
Claimed ==
  IF Due = {} THEN lastRun
  ELSE [j \in Jobs |-> IF j \in Due THEN Now ELSE Forgotten(lastRun[j])]

\* run: an instance is picked and admits the run.
Admits == serves = "accepting"

\* Tick claims before it picks an instance: a plugin that is draining has lost
\* the minute.
Tick ==
  /\ met' = met \cup {serves}
  /\ IF serves = "absent" THEN UNCHANGED <<lastRun, runs, starts>>
     ELSE /\ lastRun' = Claimed
          /\ IF ~Admits THEN UNCHANGED <<runs, starts>>
             ELSE /\ runs' = runs \cup {[job |-> j, scheduled |-> Now, at |-> "ready"] : j \in Due}
                  /\ starts' = [j \in Jobs |-> [starts[j] EXCEPT ![Now] =
                                  IF j \in Due THEN @ + 1 ELSE @]]
  /\ UNCHANGED <<slot, serves, summaries>>

\* The next interval; its tick may come late or not at all.
Elapse ==
  /\ Minute(slot + 1) <= MaxMinute
  /\ slot' = slot + 1
  /\ met' = IF Minute(slot + 1) = Now THEN met ELSE {}
  /\ UNCHANGED <<lastRun, serves, runs, starts, summaries>>

\* Mutant: the key is taken from the clock when the job gets to run.
KeyWhenRun(r) == Now

\* nightlySummary keys its message on job.Scheduled.
DedupKey(r) == r.scheduled

\* The partial unique index: a message with the key is pending or processing.
Deduplicated(r) == \E s \in summaries : s.job = r.job /\ s.key = DedupKey(r)

\* The job publishes; Enqueue does nothing on a conflict.
Publish(r) ==
  /\ r \in runs /\ r.at = "ready"
  /\ summaries' = IF Deduplicated(r) THEN summaries
                  ELSE summaries \cup {[job |-> r.job, of |-> r.scheduled, key |-> DedupKey(r)]}
  /\ runs' = (runs \ {r}) \cup {[r EXCEPT !.at = "published"]}
  /\ UNCHANGED <<slot, lastRun, serves, starts, met>>

\* The consumer is done with a summary, or it is parked: the key is free again.
Settled(s) ==
  /\ summaries' = summaries \ {s}
  /\ UNCHANGED <<slot, lastRun, serves, runs, starts, met>>

\* RunJob returns, with an error when the job did not get to publish.
JobReturns(r) ==
  /\ r \in runs /\ runs' = runs \ {r}
  /\ UNCHANGED <<slot, lastRun, serves, starts, summaries, met>>

\* Enabling, draining and disabling the plugin.
PluginTurns(s) ==
  /\ serves # s /\ serves' = s
  /\ UNCHANGED <<slot, lastRun, runs, starts, summaries, met>>

\* Core restarts: what it had claimed is forgotten, the queue is not.
RestartCore ==
  /\ lastRun' = [j \in Jobs |-> Never]
  /\ serves' = "absent" /\ runs' = {}
  /\ starts' = [j \in Jobs |-> [m \in Minutes |-> 0]]
  /\ met' = {}
  /\ UNCHANGED <<slot, summaries>>

SchedulerNext ==
  \/ Tick \/ Elapse \/ RestartCore
  \/ \E r \in runs : Publish(r) \/ JobReturns(r)
  \/ \E s \in summaries : Settled(s)
  \/ \E s \in {"absent", "draining", "accepting"} : PluginTurns(s)

SchedulerSpec == SchedulerInit /\ [][SchedulerNext]_schedulerVars

-----------------------------------------------------------------------------
(* Properties.                                                             *)

\* The scheduler's variables have their types.
SchedulerTypeOK ==
  /\ Now \in Minutes
  /\ lastRun \in [Jobs -> {Never} \cup Minutes]
  /\ serves \in {"absent", "draining", "accepting"}
  /\ runs \subseteq [job : Jobs, scheduled : Minutes, at : {"ready", "published"}]
  /\ summaries \subseteq [job : Jobs, of : Minutes, key : Minutes]

\* However often the ticker looks, and whatever it forgets, a Core starts a job
\* at most once for a minute (scheduler.go:42-45).
OncePerMinute == \A j \in Jobs, m \in Minutes : starts[j][m] <= 1

\* A plugin that deduplicates on job.Scheduled never has two results for an
\* occurrence waiting to be processed, although runs start late and a Core that
\* restarts in the minute runs the job again (scheduler.go:158-164).  It is not one
\* for ever: the key is free once its message is settled, and a Core that restarts
\* in the minute after that makes a second one, as notes/README.md:44 warns.
SummarisedOnce ==
  \A s, t \in summaries : s.job = t.job /\ s.of = t.of => s = t

\* Nor does the result of one occurrence stand in for that of another, which was
\* due later and is deduplicated against it.
EachHasItsOwn ==
  \A r \in runs : Publish(r) => \E s \in summaries' : s.job = r.job /\ s.of = r.scheduled

\* "A job still fires in its minute even if one tick is delayed"
\* (scheduler.go:57-58): a minute ends with every job due in it started, unless
\* no tick came or one found the plugin draining.
ServedJobsFire ==
  Elapse /\ Minute(slot') # Now /\ "accepting" \in met /\ "draining" \notin met
    => \A j \in Jobs : Now \in FiresIn[j] => starts[j][Now] = 1

\* A Core starts every occurrence that it can, once, and what the occurrence is for
\* is queued once at a time: late ticks, claims that are forgotten, runs that start
\* late and a Core that restarts change neither (scheduler.go:42-45, :57-58,
\* :158-164).
JobsFireInTheirMinute ==
  [](OncePerMinute /\ SummarisedOnce) /\ [][EachHasItsOwn /\ ServedJobsFire]_schedulerVars
=============================================================================

----------------------------- MODULE StopWatch -----------------------------
(***************************************************************************)
(* timeutil.StopWatch (pkg/util/timeutil/stopwatch.go), one action for     *)
(* each access to its shared fields and each reading of the clock.         *)
(***************************************************************************)
EXTENDS Integers

CONSTANTS
  Goroutines,   \* the goroutines that use the stop watch
  Serial,       \* whether they take turns, a call at a time
  Epoch,        \* the time of the clock when the watch is made; the zero of
                \* startedAt is long before it
  MaxTime       \* a bound on the clock

StopWatchAssumption ==
  /\ Serial \in BOOLEAN
  /\ Epoch \in Nat \ {0}
  /\ MaxTime \in Nat

VARIABLES
  started, startedAt, elapsed,   \* the stop watch
  now,                           \* the clock timeSource reads
  at,                            \* the step each goroutine is at
  t, since,                      \* what it read: the clock, startedAt
  measuring, ran                 \* whether a run has begun, and the time of all runs

watchVars == <<started, startedAt, elapsed, now, at, t, since, measuring, ran>>

WatchInit ==
  /\ started = 0
  /\ startedAt = 0
  /\ elapsed = 0
  /\ now = Epoch
  /\ at = [g \in Goroutines |-> "idle"]
  /\ t = [g \in Goroutines |-> 0]
  /\ since = [g \in Goroutines |-> 0]
  /\ measuring = FALSE
  /\ ran = 0

MayCall(g) == at[g] = "idle" /\ (Serial => \A h \in Goroutines : at[h] = "idle")
GoOn(g, step) == at' = [at EXCEPT ![g] = step]
Done == "idle"

\* Mutant: Start does not ask whether the watch runs.
StartAlways(g) ==
  /\ MayCall(g)
  /\ started' = 1
  /\ GoOn(g, "start")
  /\ UNCHANGED <<startedAt, elapsed, now, t, since, measuring, ran>>

\* Start: the compare-and-swap, the clock and the assignment.
Start(g) ==
  /\ MayCall(g)
  /\ started' = 1
  /\ GoOn(g, IF started = 0 THEN "start" ELSE Done)
  /\ UNCHANGED <<startedAt, elapsed, now, t, since, measuring, ran>>

StartClock(g) ==
  /\ at[g] = "start"
  /\ t' = [t EXCEPT ![g] = now]
  /\ measuring' = TRUE
  /\ GoOn(g, "startedAt")
  /\ UNCHANGED <<started, startedAt, elapsed, now, since, ran>>

StartedAt(g) ==
  /\ at[g] = "startedAt"
  /\ startedAt' = t[g]
  /\ GoOn(g, Done)
  /\ UNCHANGED <<started, elapsed, now, t, since, measuring, ran>>

\* Stop: the compare-and-swap, the clock, startedAt, and the sum.
Stop(g) ==
  /\ MayCall(g)
  /\ started' = 0
  /\ GoOn(g, IF started = 1 THEN "stop" ELSE Done)
  /\ UNCHANGED <<startedAt, elapsed, now, t, since, measuring, ran>>

StopClock(g) ==
  /\ at[g] = "stop"
  /\ t' = [t EXCEPT ![g] = now]
  /\ measuring' = FALSE
  /\ GoOn(g, "sub")
  /\ UNCHANGED <<started, startedAt, elapsed, now, since, ran>>

StopSub(g) ==
  /\ at[g] = "sub"
  /\ since' = [since EXCEPT ![g] = t[g] - startedAt]
  /\ GoOn(g, "load")
  /\ UNCHANGED <<started, startedAt, elapsed, now, t, measuring, ran>>

StopLoad(g) ==
  /\ at[g] = "load"
  /\ since' = [since EXCEPT ![g] = elapsed + @]
  /\ GoOn(g, "store")
  /\ UNCHANGED <<started, startedAt, elapsed, now, t, measuring, ran>>

\* Mutant: the last run replaces the earlier ones.
StopStoreLast(g) ==
  /\ at[g] = "store"
  /\ elapsed' = t[g] - startedAt
  /\ GoOn(g, Done)
  /\ UNCHANGED <<started, startedAt, now, t, since, measuring, ran>>

StopStore(g) ==
  /\ at[g] = "store"
  /\ elapsed' = since[g]
  /\ GoOn(g, Done)
  /\ UNCHANGED <<started, startedAt, now, t, since, measuring, ran>>

Tick ==
  /\ now < MaxTime
  /\ now' = now + 1
  /\ ran' = IF measuring THEN ran + 1 ELSE ran
  /\ UNCHANGED <<started, startedAt, elapsed, at, t, since, measuring>>

WatchNext ==
  \/ Tick
  \/ \E g \in Goroutines :
       \/ Start(g) \/ StartClock(g) \/ StartedAt(g)
       \/ Stop(g) \/ StopClock(g) \/ StopSub(g) \/ StopLoad(g) \/ StopStore(g)

WatchSpec == WatchInit /\ [][WatchNext]_watchVars
-----------------------------------------------------------------------------
\* The watch has measured no more than the time since it was made (stopwatch.go
\* 18-19 and 27-28: it can be used concurrently, and elapsed is the time
\* between all Starts and Stops).
NoInventedTime == elapsed <= now - Epoch

\* Between two calls of callers that take turns, what Elapsed returns is the
\* time of the runs that were started and stopped: a Start of a running watch
\* and a Stop of a stopped one change nothing (stopwatch.go 50-68).
ElapsedIsRunning ==
  (\A g \in Goroutines : at[g] = Done) /\ ~measuring => elapsed = ran
=============================================================================

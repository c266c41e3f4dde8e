----------------------------- MODULE UtilProofs -----------------------------
(***************************************************************************)
(* Proofs about four parts of pkg/util that keep a state of their own: the *)
(* stop watch, for every number of goroutines that take turns and every    *)
(* movement of the clock; the pooled timers, for every number of clients;  *)
(* the generator of UUIDs, for every number of callers; and the ring       *)
(* buffer, which implements the deque of module Deque.                     *)
(***************************************************************************)
EXTENDS RingBuffer, StopWatch, Timer, UuidGen, SequenceTheorems, TLAPS

(* The stop watch *)

WatchPlaces == {Done, "start", "startedAt", "stop", "sub", "load", "store"}

WatchTypeOK ==
  /\ started \in {0, 1} /\ measuring \in BOOLEAN
  /\ startedAt \in Int /\ elapsed \in Int /\ now \in Int /\ ran \in Int
  /\ at \in [Goroutines -> WatchPlaces]
  /\ t \in [Goroutines -> Int] /\ since \in [Goroutines -> Int]

\* The callers take turns.
OneCaller == \A g, h \in Goroutines : at[g] # Done /\ at[h] # Done => g = h

\* Between two calls the watch runs if a run has begun, and what is missing of the
\* time of all runs is the time since startedAt.
IdleInv ==
  (\A g \in Goroutines : at[g] = Done) =>
    /\ measuring <=> started = 1
    /\ ran = elapsed + (IF measuring THEN now - startedAt ELSE 0)

\* In a call, what is missing is in what the caller has read.
CallAt(g) ==
  /\ at[g] \in {"start", "startedAt"} => started = 1
  /\ at[g] \in {"stop", "sub", "load", "store"} => started = 0
  /\ at[g] \in {"startedAt", "stop"} => measuring
  /\ at[g] \in {"start", "sub", "load", "store"} => ~measuring
  /\ at[g] = "start"     => ran = elapsed
  /\ at[g] = "startedAt" => ran = elapsed + (now - t[g])
  /\ at[g] = "stop"      => ran = elapsed + (now - startedAt)
  /\ at[g] = "sub"       => ran = elapsed + (t[g] - startedAt)
  /\ at[g] = "load"      => ran = elapsed + since[g]
  /\ at[g] = "store"     => ran = since[g]
CallInv == \A g \in Goroutines : CallAt(g)

\* No more was measured than there was.
TimeInv ==
  /\ ran <= now - Epoch
  /\ elapsed <= ran

WatchIInv == WatchTypeOK /\ OneCaller /\ IdleInv /\ CallInv
-----------------------------------------------------------------------------
\* A step of g leaves the others where they are, out of every call.
LEMMA OthersAreDone ==
  ASSUME WatchTypeOK, OneCaller, NEW g \in Goroutines, NEW p \in WatchPlaces, GoOn(g, p),
         at[g] # Done \/ \A h \in Goroutines : at[h] = Done
  PROVE  /\ at' \in [Goroutines -> WatchPlaces] /\ at'[g] = p
         /\ \A h \in Goroutines \ {g} : at[h] = Done /\ at'[h] = Done
         /\ OneCaller'
<1>1. at' \in [Goroutines -> WatchPlaces] /\ at'[g] = p /\ \A h \in Goroutines \ {g} : at'[h] = at[h]
  BY DEF WatchTypeOK, GoOn
<1>2. \A h \in Goroutines \ {g} : at[h] = Done
  BY DEF OneCaller
<1> QED
  BY <1>1, <1>2 DEF OneCaller

\* What holds of the caller holds of all, and between calls when it returns.
LEMMA OnlyCaller ==
  ASSUME NEW g \in Goroutines, \A h \in Goroutines \ {g} : at'[h] = Done,
         at'[g] = Done =>
           /\ measuring' <=> started' = 1
           /\ ran' = elapsed' + (IF measuring' THEN now' - startedAt' ELSE 0),
         /\ at'[g] \in {"start", "startedAt"} => started' = 1
         /\ at'[g] \in {"stop", "sub", "load", "store"} => started' = 0
         /\ at'[g] \in {"startedAt", "stop"} => measuring'
         /\ at'[g] \in {"start", "sub", "load", "store"} => ~measuring'
         /\ at'[g] = "start"     => ran' = elapsed'
         /\ at'[g] = "startedAt" => ran' = elapsed' + (now' - t'[g])
         /\ at'[g] = "stop"      => ran' = elapsed' + (now' - startedAt')
         /\ at'[g] = "sub"       => ran' = elapsed' + (t'[g] - startedAt')
         /\ at'[g] = "load"      => ran' = elapsed' + since'[g]
         /\ at'[g] = "store"     => ran' = since'[g]
  PROVE  IdleInv' /\ CallInv'
BY DEF IdleInv, CallInv, CallAt, Done

\* A stop watch begins at rest.
LEMMA WatchInitially == StopWatchAssumption => (WatchInit => WatchIInv /\ TimeInv)
<1> SUFFICES ASSUME StopWatchAssumption, WatchInit PROVE WatchIInv /\ TimeInv
  OBVIOUS
<1>1. WatchTypeOK
  <2>1. at \in [Goroutines -> WatchPlaces] /\ t \in [Goroutines -> Int] /\ since \in [Goroutines -> Int]
    BY DEF WatchInit, WatchPlaces, Done
  <2> QED
    <3>1. now \in Int /\ started \in {0, 1} /\ startedAt \in Int /\ elapsed \in Int /\ ran \in Int
      BY DEF StopWatchAssumption, WatchInit
    <3>2. measuring \in BOOLEAN
      BY DEF WatchInit
    <3> QED
      BY <2>1, <3>1, <3>2 DEF WatchTypeOK
<1>2. OneCaller /\ CallInv
  BY DEF WatchInit, OneCaller, CallInv, CallAt, Done
<1>3. IdleInv /\ TimeInv
  BY DEF StopWatchAssumption, WatchInit, IdleInv, TimeInv
<1> QED
  BY <1>1, <1>2, <1>3 DEF WatchIInv

\* Every step of the one caller keeps the invariants (stopwatch.go 50-76).
LEMMA WatchStepKeeps ==
  ASSUME StopWatchAssumption, Serial, WatchIInv, TimeInv, [WatchNext]_watchVars
  PROVE  WatchIInv' /\ TimeInv'
<1> USE DEF WatchIInv, StopWatchAssumption
<1>1. CASE UNCHANGED watchVars
  BY <1>1 DEF watchVars, WatchTypeOK, OneCaller, IdleInv, CallInv, CallAt, TimeInv
<1>2. CASE Tick
  <2>1. WatchTypeOK' /\ OneCaller'
    BY <1>2 DEF Tick, WatchTypeOK, OneCaller
  <2>2. now' = now + 1 /\ UNCHANGED <<started, startedAt, elapsed, at, t, since, measuring>>
    BY <1>2 DEF Tick
  <2>3. (measuring => ran' = ran + 1) /\ (~measuring => ran' = ran)
    BY <1>2 DEF Tick
  <2>4. /\ now \in Int /\ ran \in Int /\ startedAt \in Int /\ elapsed \in Int
        /\ \A g \in Goroutines : t[g] \in Int /\ since[g] \in Int
    BY DEF WatchTypeOK
  <2>5. TimeInv'
    BY <2>2, <2>3, <2>4 DEF TimeInv
  <2>6. IdleInv'
    BY <2>2, <2>3, <2>4 DEF IdleInv
  <2>7. CallInv'
    <3>1. ASSUME NEW g \in Goroutines, at[g] \in {"startedAt", "stop"} PROVE ran' = ran + 1
      BY <2>3, <3>1 DEF CallInv, CallAt
    <3>2. ASSUME NEW g \in Goroutines, at[g] \in {"start", "sub", "load", "store"} PROVE ran' = ran
      BY <2>3, <3>2 DEF CallInv, CallAt
    <3>3. \A g \in Goroutines : at[g] = "startedAt" => ran' = elapsed + (now + 1 - t[g])
      BY <2>4, <3>1 DEF CallInv, CallAt
    <3>4. \A g \in Goroutines : at[g] = "stop" => ran' = elapsed + (now + 1 - startedAt)
      BY <2>4, <3>1 DEF CallInv, CallAt
    <3> QED
      <4> SUFFICES ASSUME NEW g \in Goroutines PROVE CallAt(g)'
        BY DEF CallInv, CallAt
      <4>0. now' = now + 1 /\ elapsed' = elapsed /\ startedAt' = startedAt /\ t'[g] = t[g]
        BY <2>2
      <4>1. at'[g] = at[g] /\ t'[g] = t[g] /\ since'[g] = since[g] /\ CallAt(g)
        BY <2>2 DEF CallInv, CallAt
      <4>2. CASE at[g] \in {"start", "sub", "load", "store"}
        BY <2>2, <3>2, <4>1, <4>2 DEF CallAt
      <4>3. CASE at[g] = "startedAt"
        <5>1. ran' = elapsed' + (now' - t'[g])
          BY <2>4, <3>3, <4>0, <4>3
        <5>2. started' = 1 /\ measuring'
          BY <2>2, <4>1, <4>3 DEF CallAt
        <5> QED
          BY <4>1, <4>3, <5>1, <5>2 DEF CallAt
      <4>4. CASE at[g] = "stop"
        <5>1. ran' = elapsed' + (now' - startedAt')
          BY <2>4, <3>4, <4>0, <4>4
        <5>2. started' = 0 /\ measuring'
          BY <2>2, <4>1, <4>4 DEF CallAt
        <5> QED
          BY <4>1, <4>4, <5>1, <5>2 DEF CallAt
      <4>5. CASE at[g] = Done
        BY <4>1, <4>5 DEF CallAt, Done
      <4> QED
        BY <4>2, <4>3, <4>4, <4>5 DEF WatchTypeOK, WatchPlaces
  <2> QED
    BY <2>1, <2>5, <2>6, <2>7
<1>3. ASSUME NEW g \in Goroutines, Start(g) PROVE WatchIInv' /\ TimeInv'
  <2>1. \A h \in Goroutines : at[h] = Done
    BY <1>3 DEF Start, MayCall, Done
  <2>2. PICK p \in {"start", Done} : GoOn(g, p) /\ (p = "start" <=> started = 0)
    BY <1>3 DEF Start, Done
  <2>3. /\ at' \in [Goroutines -> WatchPlaces] /\ at'[g] = p
        /\ \A h \in Goroutines \ {g} : at[h] = Done /\ at'[h] = Done
        /\ OneCaller'
    BY <2>1, <2>2, OthersAreDone DEF WatchPlaces
  <2>4. WatchTypeOK' /\ TimeInv'
    BY <1>3, <2>3 DEF Start, WatchTypeOK, TimeInv
  <2>5. IdleInv' /\ CallInv'
    BY <1>3, <2>1, <2>2, <2>3, OnlyCaller DEF Start, IdleInv, WatchTypeOK, Done
  <2> QED
    BY <2>3, <2>4, <2>5
<1>4. ASSUME NEW g \in Goroutines, Stop(g) PROVE WatchIInv' /\ TimeInv'
  <2>1. \A h \in Goroutines : at[h] = Done
    BY <1>4 DEF Stop, MayCall, Done
  <2>2. PICK p \in {"stop", Done} : GoOn(g, p) /\ (p = "stop" <=> started = 1)
    BY <1>4 DEF Stop, Done
  <2>3. /\ at' \in [Goroutines -> WatchPlaces] /\ at'[g] = p
        /\ \A h \in Goroutines \ {g} : at[h] = Done /\ at'[h] = Done
        /\ OneCaller'
    BY <2>1, <2>2, OthersAreDone DEF WatchPlaces
  <2>4. WatchTypeOK' /\ TimeInv'
    BY <1>4, <2>3 DEF Stop, WatchTypeOK, TimeInv
  <2>5. IdleInv' /\ CallInv'
    BY <1>4, <2>1, <2>2, <2>3, OnlyCaller DEF Stop, IdleInv, WatchTypeOK, Done
  <2> QED
    BY <2>3, <2>4, <2>5
<1>5. ASSUME NEW g \in Goroutines, StartClock(g) PROVE WatchIInv' /\ TimeInv'
  <2>1. at[g] = "start" /\ GoOn(g, "startedAt")
    BY <1>5 DEF StartClock
  <2>2. /\ at' \in [Goroutines -> WatchPlaces] /\ at'[g] = "startedAt"
        /\ \A h \in Goroutines \ {g} : at[h] = Done /\ at'[h] = Done
        /\ OneCaller'
    BY <2>1, OthersAreDone DEF WatchPlaces, Done
  <2>3. WatchTypeOK' /\ TimeInv'
    BY <1>5, <2>1, <2>2 DEF StartClock, WatchTypeOK, TimeInv, CallInv, CallAt
  <2>4. IdleInv' /\ CallInv'
    BY <1>5, <2>1, <2>2, OnlyCaller DEF StartClock, CallInv, CallAt, WatchTypeOK, Done
  <2> QED
    BY <2>2, <2>3, <2>4
<1>6. ASSUME NEW g \in Goroutines, StartedAt(g) PROVE WatchIInv' /\ TimeInv'
  <2>1. at[g] = "startedAt" /\ GoOn(g, Done)
    BY <1>6 DEF StartedAt
  <2>2. /\ at' \in [Goroutines -> WatchPlaces] /\ at'[g] = Done
        /\ \A h \in Goroutines \ {g} : at[h] = Done /\ at'[h] = Done
        /\ OneCaller'
    BY <2>1, OthersAreDone DEF WatchPlaces, Done
  <2>3. WatchTypeOK' /\ TimeInv'
    BY <1>6, <2>1, <2>2 DEF StartedAt, WatchTypeOK, TimeInv, CallInv, CallAt
  <2>4. IdleInv' /\ CallInv'
    BY <1>6, <2>1, <2>2, OnlyCaller DEF StartedAt, CallInv, CallAt, WatchTypeOK, Done
  <2> QED
    BY <2>2, <2>3, <2>4
<1>7. ASSUME NEW g \in Goroutines, StopClock(g) PROVE WatchIInv' /\ TimeInv'
  <2>1. at[g] = "stop" /\ GoOn(g, "sub")
    BY <1>7 DEF StopClock
  <2>2. /\ at' \in [Goroutines -> WatchPlaces] /\ at'[g] = "sub"
        /\ \A h \in Goroutines \ {g} : at[h] = Done /\ at'[h] = Done
        /\ OneCaller'
    BY <2>1, OthersAreDone DEF WatchPlaces, Done
  <2>3. WatchTypeOK' /\ TimeInv'
    BY <1>7, <2>1, <2>2 DEF StopClock, WatchTypeOK, TimeInv, CallInv, CallAt
  <2>4. IdleInv' /\ CallInv'
    BY <1>7, <2>1, <2>2, OnlyCaller DEF StopClock, CallInv, CallAt, WatchTypeOK, Done
  <2> QED
    BY <2>2, <2>3, <2>4
<1>8. ASSUME NEW g \in Goroutines, StopSub(g) PROVE WatchIInv' /\ TimeInv'
  <2>1. at[g] = "sub" /\ GoOn(g, "load")
    BY <1>8 DEF StopSub
  <2>2. /\ at' \in [Goroutines -> WatchPlaces] /\ at'[g] = "load"
        /\ \A h \in Goroutines \ {g} : at[h] = Done /\ at'[h] = Done
        /\ OneCaller'
    BY <2>1, OthersAreDone DEF WatchPlaces, Done
  <2>3. WatchTypeOK' /\ TimeInv'
    <3>1. t[g] - startedAt \in Int
      BY DEF WatchTypeOK
    <3> QED
      BY <1>8, <2>2, <3>1 DEF StopSub, WatchTypeOK, TimeInv
  <2>4. IdleInv' /\ CallInv'
    BY <1>8, <2>1, <2>2, OnlyCaller DEF StopSub, CallInv, CallAt, WatchTypeOK, Done
  <2> QED
    BY <2>2, <2>3, <2>4
<1>9. ASSUME NEW g \in Goroutines, StopLoad(g) PROVE WatchIInv' /\ TimeInv'
  <2>1. at[g] = "load" /\ GoOn(g, "store")
    BY <1>9 DEF StopLoad
  <2>2. /\ at' \in [Goroutines -> WatchPlaces] /\ at'[g] = "store"
        /\ \A h \in Goroutines \ {g} : at[h] = Done /\ at'[h] = Done
        /\ OneCaller'
    BY <2>1, OthersAreDone DEF WatchPlaces, Done
  <2>3. WatchTypeOK' /\ TimeInv'
    BY <1>9, <2>1, <2>2 DEF StopLoad, WatchTypeOK, TimeInv, CallInv, CallAt
  <2>4. IdleInv' /\ CallInv'
    BY <1>9, <2>1, <2>2, OnlyCaller DEF StopLoad, CallInv, CallAt, WatchTypeOK, Done
  <2> QED
    BY <2>2, <2>3, <2>4
<1>10. ASSUME NEW g \in Goroutines, StopStore(g) PROVE WatchIInv' /\ TimeInv'
  <2>1. at[g] = "store" /\ GoOn(g, Done)
    BY <1>10 DEF StopStore
  <2>2. /\ at' \in [Goroutines -> WatchPlaces] /\ at'[g] = Done
        /\ \A h \in Goroutines \ {g} : at[h] = Done /\ at'[h] = Done
        /\ OneCaller'
    BY <2>1, OthersAreDone DEF WatchPlaces, Done
  <2>3. WatchTypeOK' /\ TimeInv'
    BY <1>10, <2>1, <2>2 DEF StopStore, WatchTypeOK, TimeInv, CallInv, CallAt
  <2>4. IdleInv' /\ CallInv'
    BY <1>10, <2>1, <2>2, OnlyCaller DEF StopStore, CallInv, CallAt, WatchTypeOK, Done
  <2> QED
    BY <2>2, <2>3, <2>4
<1> QED
  BY <1>1, <1>2, <1>3, <1>4, <1>5, <1>6, <1>7, <1>8, <1>9, <1>10 DEF WatchNext

\* Between two calls of callers that take turns, the watch has measured exactly the
\* time of the runs that were started and stopped (stopwatch.go 50-68).
THEOREM MeasuresRuns ==
  ASSUME StopWatchAssumption, Serial
  PROVE  WatchSpec => []ElapsedIsRunning
<1>1. WatchIInv => ElapsedIsRunning
  BY DEF WatchIInv, WatchTypeOK, IdleInv, ElapsedIsRunning
<1>2. WatchIInv /\ TimeInv /\ [WatchNext]_watchVars => WatchIInv' /\ TimeInv'
  BY WatchStepKeeps
<1> QED
  BY <1>1, <1>2, WatchInitially, PTL DEF WatchSpec

\* Callers that take turns are never told of more time than has passed since the
\* watch was made; what run stop_watch_shared refutes needs two at a time
\* (stopwatch.go 18-19 and 27-28).
THEOREM SerialInventsNoTime ==
  ASSUME StopWatchAssumption, Serial
  PROVE  WatchSpec => []NoInventedTime
<1>1. WatchIInv /\ TimeInv => NoInventedTime
  BY DEF WatchIInv, WatchTypeOK, TimeInv, NoInventedTime, StopWatchAssumption
<1>2. WatchIInv /\ TimeInv /\ [WatchNext]_watchVars => WatchIInv' /\ TimeInv'
  BY WatchStepKeeps
<1> QED
  BY <1>1, <1>2, WatchInitially, PTL DEF WatchSpec
-----------------------------------------------------------------------------
(* The timer *)

TimerSteps == {"none", "idle", "drain", "rearm"}

TimerTypeOK ==
  /\ step \in [Clients -> TimerSteps]
  /\ tm \in [Clients -> [timer : Lib \cup {NoTimer}, Read : BOOLEAN]]
  /\ active \in [Lib -> Nat] /\ sending \in [Lib -> Nat] /\ chan \in [Lib -> Nat]
  /\ due \in [Clients -> Nat]
  /\ timerPool \subseteq {FreshTimer} /\ libPool \subseteq Lib
  /\ resets \in Nat

\* Where the expiry of r is: counted down, about to be sent, in the channel.
Holds(r, a, s, q) == active[r] = a /\ sending[r] = s /\ chan[r] = q

\* The expiry of a client's last reset is in one place, and Read says whether it
\* was read; what Reset waits for is on its way; what it sets again is quiet.
OwnExpiry(c, r) ==
  /\ step[c] = "idle" =>
       /\ due[c] # 0
       /\ tm[c].Read => Quiet(r)
       /\ ~tm[c].Read => Holds(r, due[c], 0, 0) \/ Holds(r, 0, due[c], 0) \/ Holds(r, 0, 0, due[c])
  /\ step[c] = "drain" => active[r] = 0 /\ (sending[r] = 0 <=> chan[r] # 0)
  /\ step[c] = "rearm" => Quiet(r)

ClientInv(c) ==
  /\ step[c] = "none" => tm[c].timer = NoTimer
  /\ tm[c].timer = NoTimer => step[c] \in {"none", "idle"} /\ ~tm[c].Read
  /\ tm[c].timer # NoTimer => OwnExpiry(c, tm[c].timer)

TimerIInv == TimerTypeOK /\ OneOwner /\ \A c \in Clients : ClientInv(c)
-----------------------------------------------------------------------------
\* A timer begins without a library timer.
LEMMA TimerInitially == TimerInit => TimerIInv
<1> SUFFICES ASSUME TimerInit PROVE TimerIInv
  OBVIOUS
<1>1. tm \in [Clients -> [timer : Lib \cup {NoTimer}, Read : BOOLEAN]]
  BY DEF TimerInit, FreshTimer
<1>2. TimerTypeOK
  BY <1>1 DEF TimerInit, TimerTypeOK, TimerSteps
<1>3. \A c \in Clients : tm[c].timer = NoTimer /\ ~tm[c].Read /\ step[c] = "none"
  BY DEF TimerInit, FreshTimer
<1> QED
  BY <1>2, <1>3 DEF TimerInit, TimerIInv, OneOwner, ClientInv

\* A step of c, or of the library, that touches one library timer r leaves the
\* other clients and their timers alone.
LEMMA OthersApart ==
  ASSUME \A d \in Clients : ClientInv(d),
         NEW d \in Clients, NEW r, tm[d].timer # r,
         step'[d] = step[d], tm'[d] = tm[d], due'[d] = due[d],
         \A x \in Lib \ {r} : active'[x] = active[x] /\ sending'[x] = sending[x] /\ chan'[x] = chan[x],
         TimerTypeOK
  PROVE  ClientInv(d)'
<1>1. ClientInv(d) /\ tm[d].timer \in Lib \cup {NoTimer}
  BY DEF TimerTypeOK
<1>2. CASE tm[d].timer = NoTimer
  BY <1>1, <1>2 DEF ClientInv
<1>3. CASE tm[d].timer # NoTimer
  <2>1. tm[d].timer \in Lib \ {r}
    BY <1>1, <1>3
  <2>2. OwnExpiry(d, tm[d].timer)'
    BY <1>1, <1>3, <2>1 DEF ClientInv, OwnExpiry, Holds, Quiet
  <2> QED
    BY <1>1, <1>3, <2>2 DEF ClientInv
<1> QED
  BY <1>2, <1>3

\* The clients keep their timers, and the pool what it has or less.
LEMMA OwnersStay ==
  ASSUME OneOwner, TimerTypeOK, NEW r,
         \A d \in Clients : tm'[d].timer = tm[d].timer,
         libPool' \subseteq libPool, r \notin libPool',
         \A x \in Lib \ {r} : active'[x] = active[x] /\ sending'[x] = sending[x] /\ chan'[x] = chan[x]
  PROVE  OneOwner'
<1>1. \A x \in libPool' : x \in Lib \ {r} /\ Quiet(x) /\ \A d \in Clients : tm[d].timer # x
  BY DEF OneOwner, TimerTypeOK
<1> QED
  BY <1>1 DEF OneOwner, Quiet

\* Every step of a client or of a library timer keeps the invariant
\* (timer.go 61-104).
LEMMA TimerStepKeeps ==
  ASSUME TimerAssumption, TimerIInv, [TimerNext]_timerVars
  PROVE  TimerIInv'
<1> USE DEF TimerIInv
<1> DEFINE Records == [timer : Lib \cup {NoTimer}, Read : BOOLEAN]
<1>0. NoTimer \notin Lib
  BY DEF TimerAssumption
<1>a. \A c \in Clients : /\ tm[c] \in Records /\ tm[c].timer \in Lib \cup {NoTimer}
                          /\ step[c] \in TimerSteps /\ ClientInv(c)
  BY DEF TimerTypeOK
<1>b. \A c, d \in Clients : c # d /\ tm[c].timer # NoTimer => tm[d].timer # tm[c].timer
  BY DEF OneOwner
<1>c. \A c \in Clients : tm[c].timer \notin libPool
  BY DEF OneOwner
<1>1. CASE UNCHANGED timerVars
  BY <1>1 DEF timerVars, TimerTypeOK, OneOwner, ClientInv, OwnExpiry, Holds, Quiet
<1>2. ASSUME NEW c \in Clients, NewTimer(c) PROVE TimerIInv'
  <2>1. /\ step[c] = "none" /\ step' = [step EXCEPT ![c] = "idle"]
        /\ tm' = [tm EXCEPT ![c] = FreshTimer] /\ timerPool' \subseteq {FreshTimer}
        /\ UNCHANGED <<active, sending, chan, due, libPool, resets>>
    BY <1>2 DEF NewTimer, TimerTypeOK
  <2>2. FreshTimer \in Records /\ FreshTimer.timer = NoTimer /\ ~FreshTimer.Read
    BY DEF FreshTimer
  <2>3. tm[c].timer = NoTimer
    BY <1>a, <2>1 DEF ClientInv
  <2>4. TimerTypeOK'
    BY <2>1, <2>2 DEF TimerTypeOK, TimerSteps
  <2>5. /\ tm'[c] = FreshTimer /\ step'[c] = "idle"
        /\ \A d \in Clients \ {c} : tm'[d] = tm[d] /\ step'[d] = step[d]
    BY <2>1 DEF TimerTypeOK
  <2>6. \A d \in Clients : tm'[d].timer = tm[d].timer
    BY <2>2, <2>3, <2>5
  <2>7. OneOwner'
    BY <2>1, <2>6 DEF OneOwner, Quiet
  <2>8. ClientInv(c)'
    BY <2>2, <2>5 DEF ClientInv
  <2>9. \A d \in Clients \ {c} : ClientInv(d)'
    BY <1>a, <2>1, <2>5 DEF ClientInv, OwnExpiry, Holds, Quiet
  <2> QED
    BY <2>4, <2>7, <2>8, <2>9
<1>3. ASSUME NEW c \in Clients, ResetFirst(c) PROVE TimerIInv'
  <2>1. PICK r \in libPool \cup Unused :
          /\ Rearm(c, r) /\ tm' = [tm EXCEPT ![c].timer = r] /\ libPool' = libPool \ {r}
    BY <1>3 DEF ResetFirst
  <2>2. /\ step[c] = "idle" /\ tm[c].timer = NoTimer /\ UNCHANGED <<step, sending, chan, timerPool>>
    BY <1>3 DEF ResetFirst
  <2>3. r \in Lib /\ Quiet(r) /\ \A d \in Clients : tm[d].timer # r
    BY DEF OneOwner, Unused, TimerTypeOK
  <2>4. /\ resets' = resets + 1 /\ active' = [active EXCEPT ![r] = resets + 1]
        /\ due' = [due EXCEPT ![c] = resets + 1]
    BY <2>1 DEF Rearm
  <2>5. resets + 1 \in Nat /\ resets + 1 # 0
    BY DEF TimerTypeOK
  <2>6. /\ tm' \in [Clients -> Records] /\ tm'[c].timer = r /\ tm'[c].Read = tm[c].Read
        /\ \A d \in Clients \ {c} : tm'[d] = tm[d]
    BY <1>a, <2>1, <2>3 DEF TimerTypeOK
  <2>7. /\ active' \in [Lib -> Nat] /\ due' \in [Clients -> Nat] /\ resets' \in Nat
        /\ active'[r] = resets + 1 /\ due'[c] = resets + 1
        /\ \A x \in Lib \ {r} : active'[x] = active[x]
        /\ \A d \in Clients \ {c} : due'[d] = due[d]
    BY <2>3, <2>4, <2>5 DEF TimerTypeOK
  <2>8. TimerTypeOK'
    BY <2>1, <2>2, <2>6, <2>7 DEF TimerTypeOK
  <2>9. OneOwner'
    <3>1. \A x \in libPool' : x \in Lib \ {r} /\ x \in libPool
      BY <2>1 DEF TimerTypeOK
    <3>2. \A x \in libPool' : Quiet(x)'
      BY <2>2, <2>7, <3>1 DEF OneOwner, Quiet
    <3> QED
      BY <1>0, <2>3, <2>6, <3>1, <3>2 DEF OneOwner
  <2>10. ClientInv(c)'
    BY <1>0, <1>a, <2>2, <2>3, <2>5, <2>6, <2>7 DEF ClientInv, OwnExpiry, Holds, Quiet
  <2>11. \A d \in Clients \ {c} : ClientInv(d)'
    BY <2>2, <2>3, <2>6, <2>7, OthersApart
  <2> QED
    BY <2>8, <2>9, <2>10, <2>11
\* A step of a client with the library timer it has.
<1>4. ASSUME NEW c \in Clients, NEW r \in Lib, r = tm[c].timer,
             TimerTypeOK', ClientInv(c)', tm'[c].timer = r, UNCHANGED libPool,
             \A d \in Clients \ {c} : tm'[d] = tm[d] /\ step'[d] = step[d] /\ due'[d] = due[d],
             \A x \in Lib \ {r} : active'[x] = active[x] /\ sending'[x] = sending[x] /\ chan'[x] = chan[x]
      PROVE  TimerIInv'
  <2>1. \A d \in Clients : tm'[d].timer = tm[d].timer
    BY <1>4
  <2>2. OneOwner'
    BY <1>4, <1>c, <2>1, OwnersStay
  <2>3. \A d \in Clients \ {c} : ClientInv(d)'
    BY <1>0, <1>4, <1>b, OthersApart
  <2> QED
    BY <1>4, <2>2, <2>3
<1>5. ASSUME NEW c \in Clients, ResetLater(c) PROVE TimerIInv'
  <2>1. PICK r \in Lib : r = tm[c].timer
    BY <1>5, <1>a DEF ResetLater
  <2>2. /\ step[c] = "idle" /\ r # NoTimer /\ active' = [active EXCEPT ![r] = 0]
        /\ UNCHANGED <<tm, sending, chan, due, timerPool, libPool, resets>>
    BY <1>5, <2>1 DEF ResetLater
  <2>3. PICK s \in {"drain", "rearm"} : /\ step' = [step EXCEPT ![c] = s]
                                        /\ s = "drain" <=> active[r] = 0 /\ ~tm[c].Read
    BY <1>5, <2>1 DEF ResetLater
  <2>4. /\ active' \in [Lib -> Nat] /\ active'[r] = 0 /\ \A x \in Lib \ {r} : active'[x] = active[x]
        /\ step' \in [Clients -> TimerSteps] /\ step'[c] = s /\ \A d \in Clients \ {c} : step'[d] = step[d]
    BY <2>2, <2>3 DEF TimerTypeOK, TimerSteps
  <2>5. TimerTypeOK'
    BY <2>2, <2>4 DEF TimerTypeOK
  <2>6. OwnExpiry(c, r) /\ due[c] # 0
    BY <1>a, <2>1, <2>2 DEF ClientInv, OwnExpiry
  <2>7. OwnExpiry(c, r)'
    BY <2>2, <2>3, <2>4, <2>6 DEF OwnExpiry, Holds, Quiet
  <2>8. ClientInv(c)'
    BY <2>1, <2>2, <2>4, <2>7 DEF ClientInv
  <2> QED
    BY <1>4, <2>1, <2>2, <2>4, <2>5, <2>8
<1>6. ASSUME NEW c \in Clients, Drain(c) PROVE TimerIInv'
  <2>1. step[c] = "drain" /\ tm[c].timer # NoTimer
    BY <1>6, <1>a DEF Drain, ClientInv
  <2>2. PICK r \in Lib : r = tm[c].timer
    BY <1>a, <2>1
  <2>3. /\ chan[r] # 0 /\ chan' = [chan EXCEPT ![r] = 0] /\ step' = [step EXCEPT ![c] = "rearm"]
        /\ UNCHANGED <<tm, active, sending, due, timerPool, libPool, resets>>
    BY <1>6, <2>2 DEF Drain
  <2>4. /\ chan' \in [Lib -> Nat] /\ chan'[r] = 0 /\ \A x \in Lib \ {r} : chan'[x] = chan[x]
        /\ step' \in [Clients -> TimerSteps] /\ step'[c] = "rearm" /\ \A d \in Clients \ {c} : step'[d] = step[d]
    BY <2>3 DEF TimerTypeOK, TimerSteps
  <2>5. TimerTypeOK'
    BY <2>3, <2>4 DEF TimerTypeOK
  <2>6. OwnExpiry(c, r)
    BY <1>a, <2>1, <2>2 DEF ClientInv
  <2>7. OwnExpiry(c, r)'
    BY <2>1, <2>3, <2>4, <2>6 DEF OwnExpiry, Quiet
  <2>8. ClientInv(c)'
    BY <2>1, <2>2, <2>3, <2>4, <2>7 DEF ClientInv
  <2> QED
    BY <1>4, <2>2, <2>3, <2>4, <2>5, <2>8
<1>7. ASSUME NEW c \in Clients, ResetAgain(c) PROVE TimerIInv'
  <2>1. step[c] = "rearm" /\ tm[c].timer # NoTimer
    BY <1>7, <1>a DEF ResetAgain, ClientInv
  <2>2. PICK r \in Lib : r = tm[c].timer
    BY <1>a, <2>1
  <2>3. /\ resets' = resets + 1 /\ active' = [active EXCEPT ![r] = resets + 1]
        /\ due' = [due EXCEPT ![c] = resets + 1]
        /\ tm' = [tm EXCEPT ![c].Read = FALSE] /\ step' = [step EXCEPT ![c] = "idle"]
        /\ UNCHANGED <<sending, chan, timerPool, libPool>>
    BY <1>7, <2>2 DEF ResetAgain, Rearm
  <2>4. resets + 1 \in Nat /\ resets + 1 # 0
    BY DEF TimerTypeOK
  <2>5. /\ active' \in [Lib -> Nat] /\ due' \in [Clients -> Nat] /\ resets' \in Nat
        /\ active'[r] = resets + 1 /\ due'[c] = resets + 1
        /\ \A x \in Lib \ {r} : active'[x] = active[x]
        /\ \A d \in Clients \ {c} : due'[d] = due[d]
        /\ step' \in [Clients -> TimerSteps] /\ step'[c] = "idle" /\ \A d \in Clients \ {c} : step'[d] = step[d]
    BY <2>3, <2>4 DEF TimerTypeOK, TimerSteps
  <2>6. /\ tm' \in [Clients -> Records] /\ tm'[c].timer = r /\ tm'[c].Read = FALSE
        /\ \A d \in Clients \ {c} : tm'[d] = tm[d]
    BY <1>a, <2>2, <2>3 DEF TimerTypeOK
  <2>7. TimerTypeOK'
    BY <2>3, <2>5, <2>6 DEF TimerTypeOK
  <2>8. Quiet(r)
    BY <1>a, <2>1, <2>2 DEF ClientInv, OwnExpiry
  <2>9. OwnExpiry(c, r)'
    BY <2>3, <2>4, <2>5, <2>6, <2>8 DEF OwnExpiry, Holds, Quiet
  <2>10. ClientInv(c)'
    BY <2>1, <2>2, <2>5, <2>6, <2>9 DEF ClientInv
  <2> QED
    BY <1>4, <2>2, <2>3, <2>5, <2>6, <2>7, <2>10
<1>8. ASSUME NEW c \in Clients, Receive(c) PROVE TimerIInv'
  <2>1. PICK r \in Lib : r = tm[c].timer
    BY <1>8, <1>a DEF Receive
  <2>2. /\ step[c] = "idle" /\ r # NoTimer /\ chan[r] # 0 /\ chan' = [chan EXCEPT ![r] = 0]
        /\ tm' = [tm EXCEPT ![c].Read = TRUE]
        /\ UNCHANGED <<step, active, sending, due, timerPool, libPool, resets>>
    BY <1>8, <2>1 DEF Receive
  <2>3. /\ tm' \in [Clients -> Records] /\ tm'[c].timer = r /\ tm'[c].Read = TRUE
        /\ \A d \in Clients \ {c} : tm'[d] = tm[d]
    BY <1>a, <2>1, <2>2 DEF TimerTypeOK
  <2>4. chan' \in [Lib -> Nat] /\ chan'[r] = 0 /\ \A x \in Lib \ {r} : chan'[x] = chan[x]
    BY <2>2 DEF TimerTypeOK
  <2>5. TimerTypeOK'
    BY <2>2, <2>3, <2>4 DEF TimerTypeOK
  <2>6. OwnExpiry(c, r)
    BY <1>a, <2>1, <2>2 DEF ClientInv
  <2>7. OwnExpiry(c, r)'
    BY <2>2, <2>3, <2>4, <2>6 DEF OwnExpiry, Holds, Quiet
  <2>8. ClientInv(c)'
    BY <2>1, <2>2, <2>3, <2>7 DEF ClientInv
  <2> QED
    BY <1>4, <2>1, <2>2, <2>3, <2>4, <2>5, <2>8
<1>9. ASSUME NEW c \in Clients, StopTimer(c) PROVE TimerIInv'
  <2>0. PICK r \in Lib \cup {NoTimer} : r = tm[c].timer
    BY <1>a
  <2>1. /\ step[c] = "idle" /\ active' = [x \in Lib |-> IF x = r THEN 0 ELSE active[x]]
        /\ tm' = [tm EXCEPT ![c] = FreshTimer] /\ step' = [step EXCEPT ![c] = "none"]
        /\ timerPool' = timerPool \cup {FreshTimer} /\ UNCHANGED <<sending, chan, due, resets>>
    BY <1>9, <2>0 DEF StopTimer
  <2>2. libPool' = IF r # NoTimer /\ active[r] # 0 THEN libPool \cup {r} ELSE libPool
    BY <1>9, <2>0 DEF StopTimer
  <2>3. FreshTimer \in Records /\ FreshTimer.timer = NoTimer /\ ~FreshTimer.Read
    BY DEF FreshTimer
  <2>4. /\ active' \in [Lib -> Nat] /\ (r \in Lib => active'[r] = 0)
        /\ \A x \in Lib \ {r} : active'[x] = active[x]
        /\ step' \in [Clients -> TimerSteps] /\ step'[c] = "none" /\ \A d \in Clients \ {c} : step'[d] = step[d]
        /\ tm' \in [Clients -> Records] /\ tm'[c] = FreshTimer /\ \A d \in Clients \ {c} : tm'[d] = tm[d]
    BY <2>1, <2>3 DEF TimerTypeOK, TimerSteps
  <2>5. TimerTypeOK'
    BY <1>a, <2>1, <2>2, <2>4 DEF TimerTypeOK
  <2>6. r # NoTimer /\ active[r] # 0 => r \in Lib /\ Quiet(r)'
    <3> SUFFICES ASSUME r # NoTimer, active[r] # 0 PROVE r \in Lib /\ Quiet(r)'
      OBVIOUS
    <3>1. r \in Lib /\ OwnExpiry(c, r)
      BY <1>a, <2>0 DEF ClientInv
    <3>2. sending[r] = 0 /\ chan[r] = 0
      BY <2>1, <3>1 DEF OwnExpiry, Holds, Quiet
    <3> QED
      BY <2>1, <2>4, <3>1, <3>2 DEF Quiet
  <2>7. OneOwner'
    <3>1. \A d, e \in Clients : tm'[d].timer = tm'[e].timer /\ tm'[d].timer # NoTimer => d = e
      BY <2>3, <2>4 DEF OneOwner
    <3>2. ASSUME NEW x \in libPool' PROVE Quiet(x)' /\ \A d \in Clients : tm'[d].timer # x
      <4>1. CASE x \in libPool
        <5>1. x \in Lib \ {r} /\ x # NoTimer /\ Quiet(x) /\ \A d \in Clients : tm[d].timer # x
          BY <1>0, <2>0, <4>1 DEF OneOwner, TimerTypeOK
        <5> QED
          BY <2>1, <2>3, <2>4, <5>1 DEF Quiet
      <4>2. CASE x \notin libPool
        <5>1. x = r /\ r # NoTimer /\ active[r] # 0
          BY <2>2, <3>2, <4>2
        <5>2. \A d \in Clients \ {c} : tm[d].timer # x
          BY <1>b, <2>0, <5>1
        <5>3. Quiet(x)'
          BY <2>6, <5>1
        <5>4. \A d \in Clients : tm'[d].timer # x
          BY <2>3, <2>4, <5>1, <5>2
        <5> QED
          BY <5>3, <5>4
      <4> QED
        BY <4>1, <4>2
    <3> QED
      BY <3>1, <3>2 DEF OneOwner
  <2>8. ClientInv(c)'
    BY <2>3, <2>4 DEF ClientInv
  <2>9. ASSUME NEW d \in Clients \ {c} PROVE ClientInv(d)'
    <3>1. CASE r # NoTimer
      BY <1>b, <2>0, <2>1, <2>4, <3>1, OthersApart
    <3>2. CASE r = NoTimer
      <4>1. \A x \in Lib : active'[x] = active[x]
        BY <1>0, <2>4, <3>2
      <4> QED
        BY <1>a, <2>1, <2>4, <4>1 DEF ClientInv, OwnExpiry, Holds, Quiet
    <3> QED
      BY <3>1, <3>2
  <2> QED
    BY <2>5, <2>7, <2>8, <2>9
\* The library touches a timer that counts down, sends, or that nobody has.
<1>10. ASSUME NEW r \in Lib, TimerTypeOK', UNCHANGED <<step, tm, due>>,
              libPool' \subseteq libPool, r \notin libPool',
              \A x \in Lib \ {r} : active'[x] = active[x] /\ sending'[x] = sending[x] /\ chan'[x] = chan[x],
              \A c \in Clients : tm[c].timer = r => OwnExpiry(c, r)'
       PROVE  TimerIInv'
  <2>1. OneOwner'
    BY <1>10, OwnersStay
  <2>2. ASSUME NEW c \in Clients, tm[c].timer = r PROVE ClientInv(c)'
    BY <1>0, <1>10, <1>a, <2>2 DEF ClientInv
  <2>3. ASSUME NEW c \in Clients, tm[c].timer # r PROVE ClientInv(c)'
    BY <1>10, <2>3, OthersApart
  <2> QED
    BY <1>10, <2>1, <2>2, <2>3
<1>11. ASSUME NEW r \in Lib, Fire(r) PROVE TimerIInv'
  <2>1. /\ active[r] # 0 /\ sending[r] = 0
        /\ sending' = [sending EXCEPT ![r] = active[r]] /\ active' = [active EXCEPT ![r] = 0]
        /\ UNCHANGED <<step, tm, chan, due, timerPool, libPool, resets>>
    BY <1>11 DEF Fire
  <2>2. /\ sending' \in [Lib -> Nat] /\ active' \in [Lib -> Nat]
        /\ sending'[r] = active[r] /\ active'[r] = 0
        /\ \A x \in Lib \ {r} : active'[x] = active[x] /\ sending'[x] = sending[x]
    BY <2>1 DEF TimerTypeOK
  <2>3. TimerTypeOK'
    BY <2>1, <2>2 DEF TimerTypeOK
  <2>4. r \notin libPool
    BY <2>1 DEF OneOwner, Quiet
  <2>5. ASSUME NEW c \in Clients, tm[c].timer = r PROVE OwnExpiry(c, r)'
    <3>1. OwnExpiry(c, r)
      BY <1>0, <1>a, <2>5 DEF ClientInv
    <3> QED
      BY <2>1, <2>2, <3>1 DEF OwnExpiry, Holds, Quiet
  <2> QED
    BY <1>10, <2>1, <2>2, <2>3, <2>4, <2>5
<1>12. ASSUME NEW r \in Lib, Send(r) PROVE TimerIInv'
  <2>1. /\ sending[r] # 0 /\ chan' = [chan EXCEPT ![r] = IF chan[r] = 0 THEN sending[r] ELSE chan[r]]
        /\ sending' = [sending EXCEPT ![r] = 0]
        /\ UNCHANGED <<step, tm, active, due, timerPool, libPool, resets>>
    BY <1>12 DEF Send
  <2>2. /\ sending' \in [Lib -> Nat] /\ chan' \in [Lib -> Nat]
        /\ sending'[r] = 0 /\ chan'[r] = IF chan[r] = 0 THEN sending[r] ELSE chan[r]
        /\ \A x \in Lib \ {r} : chan'[x] = chan[x] /\ sending'[x] = sending[x]
    BY <2>1 DEF TimerTypeOK
  <2>3. TimerTypeOK'
    BY <2>1, <2>2 DEF TimerTypeOK
  <2>4. r \notin libPool
    BY <2>1 DEF OneOwner, Quiet
  <2>5. ASSUME NEW c \in Clients, tm[c].timer = r PROVE OwnExpiry(c, r)'
    <3>1. OwnExpiry(c, r)
      BY <1>0, <1>a, <2>5 DEF ClientInv
    <3> QED
      BY <2>1, <2>2, <3>1 DEF OwnExpiry, Holds, Quiet
  <2> QED
    BY <1>10, <2>1, <2>2, <2>3, <2>4, <2>5
<1>13. ASSUME NEW r \in Lib, Collect(r) PROVE TimerIInv'
  <2>1. /\ \A c \in Clients : tm[c].timer # r
        /\ chan' = [chan EXCEPT ![r] = 0] /\ libPool' = libPool \ {r}
        /\ UNCHANGED <<step, tm, active, sending, due, timerPool, resets>>
    BY <1>13 DEF Collect
  <2>2. chan' \in [Lib -> Nat] /\ \A x \in Lib \ {r} : chan'[x] = chan[x]
    BY <2>1 DEF TimerTypeOK
  <2>3. TimerTypeOK'
    BY <2>1, <2>2 DEF TimerTypeOK
  <2> QED
    BY <1>10, <2>1, <2>2, <2>3
<1> QED
  BY <1>1, <1>2, <1>3, <1>5, <1>6, <1>7, <1>8, <1>9, <1>11, <1>12, <1>13 DEF TimerNext, Step

\* A library timer has one owner, a pooled one is quiet, no client reads the expiry
\* of an earlier reset than its last, and what Reset waits for has been sent or is
\* about to be (timer.go 30-48, 62-104).
THEOREM TimersStayApart ==
  ASSUME TimerAssumption
  PROVE  TimerSpec => []TimersApart
<1>1. TimerIInv => TimersApart
  <2> SUFFICES ASSUME TimerIInv PROVE NoStaleExpiry /\ ResetReturns
    BY DEF TimerIInv, TimersApart
  <2>1. \A c \in Clients : ClientInv(c) /\ (tm[c].timer # NoTimer => OwnExpiry(c, tm[c].timer))
    BY DEF TimerIInv, ClientInv
  <2>2. NoStaleExpiry
    BY <2>1 DEF NoStaleExpiry, OwnExpiry, Holds, Quiet
  <2>3. ResetReturns
    BY <2>1 DEF ResetReturns, ClientInv, OwnExpiry
  <2> QED
    BY <2>2, <2>3
<1>2. TimerIInv /\ [TimerNext]_timerVars => TimerIInv'
  BY TimerStepKeeps
<1> QED
  BY <1>1, <1>2, TimerInitially, PTL DEF TimerSpec
-----------------------------------------------------------------------------
(* The generator of UUIDs *)

\* The clock sequences that SetVariant leaves apart, and what it leaves of one.
Variants == SeqSize \div 4
Left(seq) == seq % Variants

Addrs == {"zero", "device", "random"}
Uuid  == [time : Nat, seq : Nat, addr : Addrs]

GenTypeOK ==
  /\ seqOnce \in BOOLEAN /\ hwOnce \in BOOLEAN
  /\ clockSequence \in 0 .. SeqSize - 1 /\ hardwareAddr \in Addrs
  /\ lastTime \in Nat /\ bumps \in Nat /\ calls \in Nat
  /\ stage \in [Callers -> {"idle", "time", "address"}]
  /\ stamp \in [Callers -> Nat \X Nat]
  /\ uuids \in Seq(Uuid)

\* No stamp is taken before a clock sequence is drawn.
DrawnFirst == ~seqOnce => uuids = <<>> /\ \A c \in Callers : stage[c] = "idle"

\* How often the sequence went on from q to left.
Age(q, left) == left - q + (IF q <= left THEN 0 ELSE Variants)

\* A stamp was taken at most steps steps of the sequence ago, and if the sequence
\* still stands where it stood, not later than last.
Taken(time, q, left, steps, last) ==
  /\ q \in 0 .. Variants - 1
  /\ steps < Variants => Age(q, left) <= steps /\ (q = left => time <= last)
TakenNow(time, q) == Taken(time, q, Left(clockSequence), bumps, lastTime)

Pending(c) == stage[c] = "address"
StampsTaken ==
  /\ \A c \in Callers : Pending(c) => TakenNow(stamp[c][1], Left(stamp[c][2]))
  /\ \A i \in 1 .. Len(uuids) : TakenNow(uuids[i].time, uuids[i].seq)

\* Two stamps, in a call or in a UUID.
Apart ==
  bumps < Variants =>
    /\ \A c, d \in Callers : c # d /\ Pending(c) /\ Pending(d) =>
         stamp[c][1] # stamp[d][1] \/ Left(stamp[c][2]) # Left(stamp[d][2])
    /\ \A c \in Callers, i \in 1 .. Len(uuids) : Pending(c) =>
         stamp[c][1] # uuids[i].time \/ Left(stamp[c][2]) # uuids[i].seq
    /\ \A i, j \in 1 .. Len(uuids) : i < j =>
         uuids[i].time # uuids[j].time \/ uuids[i].seq # uuids[j].seq

GenIInv == GenTypeOK /\ DrawnFirst /\ StampsTaken /\ Apart
-----------------------------------------------------------------------------
(* What SetVariant leaves. *)

\* The sequence goes through four times as many values as SetVariant leaves apart.
LEMMA Sizes ==
  ASSUME UuidAssumption
  PROVE  Variants \in Nat \ {0} /\ SeqSize = 4 * Variants
BY DEF UuidAssumption, Variants

\* What SetVariant leaves of a sequence number.
LEMMA LeftInRange ==
  ASSUME UuidAssumption, NEW seq \in Nat
  PROVE  Left(seq) \in 0 .. Variants - 1
BY Sizes DEF Left

\* Quotient and remainder determine a number.
LEMMA ModUnique ==
  ASSUME NEW k \in Nat \ {0}, NEW a \in Nat, NEW q \in Int, NEW r \in 0 .. k - 1, a = q * k + r
  PROVE  a % k = r
OBVIOUS

\* When the sequence goes on, what is left of it goes on too, or starts again.
LEMMA LeftGoesOn ==
  ASSUME UuidAssumption, NEW seq \in 0 .. SeqSize - 1
  PROVE  /\ (seq + 1) % SeqSize \in 0 .. SeqSize - 1
         /\ Left((seq + 1) % SeqSize) = IF Left(seq) = Variants - 1 THEN 0 ELSE Left(seq) + 1
<1> DEFINE k == Variants
           n == (seq + 1) % SeqSize
           q == seq \div k
           r == seq % k
<1>1. k \in Nat \ {0} /\ SeqSize = 4 * k
  BY Sizes
<1>2. seq \in Nat /\ q \in Int /\ r \in 0 .. k - 1 /\ seq = q * k + r
  BY <1>1
<1>3. n = IF seq + 1 = 4 * k THEN 0 ELSE seq + 1
  BY <1>1
<1>4. n \in 0 .. SeqSize - 1
  BY <1>1, <1>2, <1>3
<1> HIDE DEF k, q, r, n
<1>5. CASE seq + 1 = 4 * k
  <2>1. n % k = 0 /\ seq = 3 * k + (k - 1)
    BY <1>1, <1>2, <1>3, <1>5
  <2>2. r = k - 1
    BY <1>1, <1>2, <2>1, ModUnique DEF r
  <2> QED
    BY <1>4, <2>1, <2>2 DEF Left, k, r, n
<1>6. CASE seq + 1 # 4 * k /\ r = k - 1
  <2>1. n = (q + 1) * k + 0 /\ q + 1 \in Int /\ 0 \in 0 .. k - 1
    BY <1>1, <1>2, <1>3, <1>6
  <2>2. n \in Nat
    BY <1>2, <1>3, <1>6
  <2>3. n % k = 0
    BY <1>1, <2>1, <2>2, ModUnique
  <2> QED
    BY <1>4, <1>6, <2>3 DEF Left, k, r, n
<1>7. CASE seq + 1 # 4 * k /\ r # k - 1
  <2>1. n = q * k + (r + 1) /\ r + 1 \in 0 .. k - 1 /\ n \in Nat
    BY <1>1, <1>2, <1>3, <1>7
  <2>2. n % k = r + 1
    BY <1>1, <1>2, <2>1, ModUnique
  <2> QED
    BY <1>4, <1>7, <2>2 DEF Left, k, r, n
<1> QED
  BY <1>5, <1>6, <1>7
-----------------------------------------------------------------------------
\* The generator begins without UUIDs.
LEMMA GenInitially == GenInit => (UuidAssumption => GenIInv)
<1> SUFFICES ASSUME GenInit, UuidAssumption PROVE GenIInv
  OBVIOUS
<1>1. clockSequence \in 0 .. SeqSize - 1 /\ uuids = <<>> /\ uuids \in Seq(Uuid) /\ Len(uuids) = 0
  BY DEF GenInit, UuidAssumption
<1>2. stamp \in [Callers -> Nat \X Nat] /\ stage \in [Callers -> {"idle", "time", "address"}]
  BY DEF GenInit, NoStamp
<1>3. \A c \in Callers : stage[c] = "idle"
  BY DEF GenInit
<1>4. GenTypeOK
  BY <1>1, <1>2 DEF GenInit, GenTypeOK, Addrs
<1> QED
  BY <1>1, <1>3, <1>4 DEF GenIInv, DrawnFirst, StampsTaken, Apart, Pending

\* A step that begins no stamp and ends none, and does not move the sequence.
LEMMA StampsStay ==
  ASSUME StampsTaken, Apart,
         UNCHANGED <<clockSequence, lastTime, bumps, uuids, stamp>>,
         \A c \in Callers : Pending(c)' => Pending(c)
  PROVE  StampsTaken' /\ Apart'
<1>1. StampsTaken'
  BY DEF StampsTaken, TakenNow
<1>2. Apart'
  BY DEF Apart
<1> QED
  BY <1>1, <1>2

\* Drawing the first clock sequence keeps the invariant (generator.go 203-219).
LEMMA DrawKeeps ==
  ASSUME UuidAssumption, GenIInv, NEW c \in Callers, DrawSequence(c)
  PROVE  GenIInv'
<1> USE DEF GenIInv
<1>1. /\ stage[c] = "idle" /\ seqOnce' = TRUE /\ calls' = calls + 1
      /\ UNCHANGED <<hwOnce, hardwareAddr, lastTime, stamp, uuids, bumps>>
  BY DEF DrawSequence
<1>2. PICK s \in {"idle", "time"} : stage' = [stage EXCEPT ![c] = s]
  BY DEF DrawSequence, Goto
<1>3. clockSequence' = clockSequence \/ (~seqOnce /\ clockSequence' \in 0 .. SeqSize - 1)
  BY DEF DrawSequence, UuidAssumption
<1>4. GenTypeOK'
  BY <1>1, <1>2, <1>3 DEF GenTypeOK
<1>5. \A d \in Callers : Pending(d)' => Pending(d)
  BY <1>1, <1>2 DEF Pending, GenTypeOK
<1>6. CASE clockSequence' = clockSequence
  BY <1>1, <1>4, <1>5, <1>6, StampsStay DEF DrawnFirst
<1>7. CASE ~seqOnce
  <2>1. uuids' = <<>> /\ Len(uuids') = 0 /\ \A d \in Callers : ~Pending(d)'
    BY <1>1, <1>5, <1>7 DEF DrawnFirst, Pending
  <2> QED
    BY <1>1, <1>4, <2>1 DEF DrawnFirst, StampsTaken, Apart
<1> QED
  BY <1>3, <1>6, <1>7

\* Under the mutex: either the time goes on, or the sequence does and every earlier
\* stamp is one step older.
LEMMA ClockKeeps ==
  ASSUME UuidAssumption, GenIInv, NEW c \in Callers, ClockSequence(c)
  PROVE  GenIInv'
<1> USE DEF GenIInv
<1>0. /\ Variants \in Nat \ {0} /\ clockSequence \in Nat /\ lastTime \in Nat /\ bumps \in Nat
      /\ Left(clockSequence) \in 0 .. Variants - 1
  BY Sizes, LeftInRange DEF GenTypeOK
<1>1. PICK timeNow \in Times :
        /\ clockSequence' = IF timeNow <= lastTime THEN (clockSequence + 1) % SeqSize ELSE clockSequence
        /\ bumps' = IF timeNow <= lastTime THEN bumps + 1 ELSE bumps
        /\ lastTime' = timeNow
        /\ stamp' = [stamp EXCEPT ![c] = <<timeNow, clockSequence'>>]
  BY DEF ClockSequence
<1>2. /\ stage[c] = "time" /\ stage' = [stage EXCEPT ![c] = "address"]
      /\ UNCHANGED <<seqOnce, hwOnce, hardwareAddr, uuids, calls>>
  BY DEF ClockSequence, Goto
<1>3. timeNow \in Nat
  BY DEF UuidAssumption
<1>4. /\ clockSequence' \in 0 .. SeqSize - 1
      /\ clockSequence' \in Nat
      /\ timeNow <= lastTime => Left(clockSequence') = IF Left(clockSequence) = Variants - 1 THEN 0
                                                  ELSE Left(clockSequence) + 1
  BY <1>0, <1>1, LeftGoesOn DEF GenTypeOK
<1>5. /\ stamp' \in [Callers -> Nat \X Nat] /\ stamp'[c] = <<timeNow, clockSequence'>>
      /\ stage' \in [Callers -> {"idle", "time", "address"}] /\ Pending(c)'
      /\ \A d \in Callers \ {c} : stamp'[d] = stamp[d] /\ (Pending(d)' <=> Pending(d))
  BY <1>1, <1>2, <1>3, <1>4 DEF GenTypeOK, Pending
<1>6. GenTypeOK'
  BY <1>1, <1>2, <1>3, <1>4, <1>5, <1>0 DEF GenTypeOK
<1>7. DrawnFirst'
  BY <1>2 DEF DrawnFirst
<1>8. bumps' \in Nat /\ Left(clockSequence') \in 0 .. Variants - 1
  BY <1>0, <1>1, <1>4, LeftInRange
<1>9. ASSUME NEW time \in Nat, NEW q, TakenNow(time, q)
      PROVE  /\ Taken(time, q, Left(clockSequence'), bumps', lastTime')
             /\ bumps' < Variants => time # timeNow \/ q # Left(clockSequence')
  <2>1. /\ q \in 0 .. Variants - 1
        /\ bumps < Variants => /\ Age(q, Left(clockSequence)) <= bumps
                               /\ q = Left(clockSequence) => time <= lastTime
    BY <1>9 DEF TakenNow, Taken
  <2>2. CASE timeNow <= lastTime
    <3>1. bumps' = bumps + 1
      BY <1>1, <2>2
    <3>2. bumps' < Variants => /\ q # Left(clockSequence')
                              /\ Age(q, Left(clockSequence')) <= bumps'
      <4> HIDE DEF Left
      <4> QED
        BY <1>0, <1>4, <1>8, <2>1, <2>2, <3>1 DEF Age
    <3> QED
      BY <2>1, <3>2 DEF Taken
  <2>3. CASE ~(timeNow <= lastTime)
    <3>1. UNCHANGED <<clockSequence, bumps>>
      BY <1>1, <2>3
    <3>2. bumps < Variants => q # Left(clockSequence) \/ time < timeNow
      BY <1>0, <1>3, <2>1, <2>3
    <3> QED
      BY <1>0, <1>1, <1>3, <2>1, <3>1, <3>2 DEF Taken
  <2> QED
    BY <2>2, <2>3
<1>10. Taken(timeNow, Left(clockSequence'), Left(clockSequence'), bumps', lastTime')
  BY <1>0, <1>1, <1>3, <1>8 DEF Taken, Age
<1>11. /\ \A d \in Callers : stamp[d][1] \in Nat
       /\ \A i \in 1 .. Len(uuids) : uuids[i].time \in Nat
  <2>1. \A d \in Callers : stamp[d] \in Nat \X Nat
    BY DEF GenTypeOK
  <2>2. \A i \in 1 .. Len(uuids) : uuids[i] \in Uuid
    BY DEF GenTypeOK
  <2> QED
    BY <2>1, <2>2 DEF Uuid
<1>12. stamp'[c][1] = timeNow /\ stamp'[c][2] = clockSequence'
  BY <1>5
<1>13. StampsTaken'
  <2> DEFINE Now(time, q) == Taken(time, q, Left(clockSequence'), bumps', lastTime')
  <2>1. \A d \in Callers \ {c} : Pending(d)' => Now(stamp'[d][1], Left(stamp'[d][2]))
    BY <1>5, <1>9, <1>11 DEF StampsTaken
  <2>2. Now(stamp'[c][1], Left(stamp'[c][2]))
    BY <1>10, <1>12
  <2>3. \A i \in 1 .. Len(uuids') : Now(uuids'[i].time, uuids'[i].seq)
    BY <1>2, <1>9, <1>11 DEF StampsTaken
  <2> QED
    BY <2>1, <2>2, <2>3 DEF StampsTaken, TakenNow
<1>14. Apart'
  <2> SUFFICES ASSUME bumps' < Variants PROVE Apart'
    BY DEF Apart, Variants
  <2>1. bumps < Variants
    BY <1>0, <1>1
  <2>2. \A d \in Callers \ {c} : Pending(d)' =>
          stamp'[d][1] # stamp'[c][1] \/ Left(stamp'[d][2]) # Left(stamp'[c][2])
    BY <1>5, <1>9, <1>11, <1>12 DEF StampsTaken
  <2>3. \A i \in 1 .. Len(uuids') : stamp'[c][1] # uuids'[i].time \/ Left(stamp'[c][2]) # uuids'[i].seq
    BY <1>2, <1>9, <1>11, <1>12 DEF StampsTaken
  <2>4. \A d, e \in Callers : d # e /\ Pending(d)' /\ Pending(e)' =>
          stamp'[d][1] # stamp'[e][1] \/ Left(stamp'[d][2]) # Left(stamp'[e][2])
    BY <1>5, <2>1, <2>2 DEF Apart
  <2>5. \A d \in Callers, i \in 1 .. Len(uuids') : Pending(d)' =>
          stamp'[d][1] # uuids'[i].time \/ Left(stamp'[d][2]) # uuids'[i].seq
    BY <1>2, <1>5, <2>1, <2>3 DEF Apart
  <2> QED
    BY <1>2, <2>1, <2>4, <2>5 DEF Apart
<1> QED
  BY <1>6, <1>7, <1>13, <1>14

\* A call that puts its UUID together keeps the invariant.
LEMMA ReturnKeeps ==
  ASSUME UuidAssumption, GenIInv, NEW c \in Callers, Return(c)
  PROVE  GenIInv'
<1> USE DEF GenIInv
<1>1. /\ stage[c] = "address" /\ hwOnce' = TRUE
      /\ stamp' = [stamp EXCEPT ![c] = NoStamp] /\ stage' = [stage EXCEPT ![c] = "idle"]
      /\ UNCHANGED <<seqOnce, clockSequence, lastTime, calls, bumps>>
  BY DEF Return, Goto
<1>2. /\ stamp' \in [Callers -> Nat \X Nat] /\ stage' \in [Callers -> {"idle", "time", "address"}]
      /\ ~Pending(c)' /\ Pending(c)
      /\ \A d \in Callers \ {c} : stamp'[d] = stamp[d] /\ (Pending(d)' <=> Pending(d))
  BY <1>1 DEF GenTypeOK, Pending, NoStamp
<1>4. CASE UNCHANGED <<hardwareAddr, uuids>>
  <2>1. GenTypeOK' /\ DrawnFirst'
    BY <1>1, <1>2, <1>4 DEF GenTypeOK, DrawnFirst
  <2>2. StampsTaken'
    BY <1>1, <1>2, <1>4 DEF StampsTaken, TakenNow
  <2>3. Apart'
    BY <1>1, <1>2, <1>4 DEF Apart
  <2> QED
    BY <2>1, <2>2, <2>3
<1>5. CASE hardwareAddr' \in Addrs /\ uuids' = Append(uuids, [time |-> stamp[c][1], seq |-> Left(stamp[c][2]),
                                                             addr |-> hardwareAddr'])
  <2> DEFINE time == stamp[c][1]
             seq  == Left(stamp[c][2])
             n    == Len(uuids)
  <2>1. time \in Nat /\ seq \in Nat /\ TakenNow(time, seq)
    BY <1>2, Sizes, LeftInRange DEF GenTypeOK, StampsTaken
  <2> HIDE DEF time, seq
  <2>2. PICK u \in Uuid : u.time = time /\ u.seq = seq /\ uuids' = Append(uuids, u)
    BY <1>5, <2>1 DEF Uuid, time, seq
  <2>3. /\ uuids' \in Seq(Uuid) /\ Len(uuids') = n + 1 /\ uuids'[n + 1] = u /\ n \in Nat
        /\ \A i \in 1 .. n : uuids'[i] = uuids[i]
        /\ uuids' # <<>>
    BY <2>2 DEF GenTypeOK
  <2>4. seqOnce
    BY <1>1 DEF DrawnFirst
  <2>5. GenTypeOK' /\ DrawnFirst'
    BY <1>1, <1>2, <1>5, <2>3, <2>4 DEF GenTypeOK, DrawnFirst
  <2>6. StampsTaken'
    <3> DEFINE Now(x, q) == Taken(x, q, Left(clockSequence'), bumps', lastTime')
    <3>0. \A x, q : TakenNow(x, q) => Now(x, q)
      BY <1>1 DEF TakenNow
    <3> HIDE DEF Now
    <3>1. \A d \in Callers : Pending(d)' => Now(stamp'[d][1], Left(stamp'[d][2]))
      BY <1>2, <3>0 DEF StampsTaken
    <3>2. ASSUME NEW i \in 1 .. Len(uuids') PROVE Now(uuids'[i].time, uuids'[i].seq)
      <4>1. CASE i \in 1 .. n
        BY <2>3, <3>0, <4>1 DEF StampsTaken
      <4>2. CASE i = n + 1
        BY <2>1, <2>2, <2>3, <3>0, <4>2
      <4> QED
        BY <2>3, <4>1, <4>2
    <3> QED
      BY <3>1, <3>2 DEF StampsTaken, TakenNow, Now
  <2>7. Apart'
    <3> SUFFICES ASSUME bumps < Variants PROVE Apart'
      BY <1>1 DEF Apart, Variants
    <3>1. \A d, e \in Callers : d # e /\ Pending(d)' /\ Pending(e)' =>
            stamp'[d][1] # stamp'[e][1] \/ Left(stamp'[d][2]) # Left(stamp'[e][2])
      BY <1>2 DEF Apart
    <3>2. \A d \in Callers : Pending(d)' => stamp'[d][1] # time \/ Left(stamp'[d][2]) # seq
      BY <1>2 DEF Apart, time, seq
    <3>3. \A i \in 1 .. n : time # uuids[i].time \/ seq # uuids[i].seq
      BY <1>2 DEF Apart, time, seq
    <3>4. \A d \in Callers, i \in 1 .. Len(uuids') : Pending(d)' =>
            stamp'[d][1] # uuids'[i].time \/ Left(stamp'[d][2]) # uuids'[i].seq
      <4> SUFFICES ASSUME NEW d \in Callers, NEW i \in 1 .. Len(uuids'), Pending(d)'
                   PROVE  stamp'[d][1] # uuids'[i].time \/ Left(stamp'[d][2]) # uuids'[i].seq
        OBVIOUS
      <4>1. CASE i \in 1 .. n
        BY <1>2, <2>3, <4>1 DEF Apart
      <4>2. CASE i = n + 1
        BY <2>2, <2>3, <3>2, <4>2
      <4> QED
        BY <2>3, <4>1, <4>2
    <3>5. \A i, j \in 1 .. Len(uuids') : i < j =>
            uuids'[i].time # uuids'[j].time \/ uuids'[i].seq # uuids'[j].seq
      <4> SUFFICES ASSUME NEW i \in 1 .. Len(uuids'), NEW j \in 1 .. Len(uuids'), i < j
                   PROVE  uuids'[i].time # uuids'[j].time \/ uuids'[i].seq # uuids'[j].seq
        OBVIOUS
      <4>1. i \in 1 .. n
        BY <2>3
      <4>2. CASE j \in 1 .. n
        BY <2>3, <4>1, <4>2 DEF Apart
      <4>3. CASE j = n + 1
        BY <2>2, <2>3, <3>3, <4>1, <4>3
      <4> QED
        BY <2>3, <4>2, <4>3
    <3> QED
      BY <3>1, <3>4, <3>5 DEF Apart
  <2> QED
    BY <2>5, <2>6, <2>7
<1>6. hardwareAddr' \in Addrs /\ (UNCHANGED <<hardwareAddr, uuids>> \/
        uuids' = Append(uuids, [time |-> stamp[c][1], seq |-> Left(stamp[c][2]), addr |-> hardwareAddr']))
  BY DEF Return, Left, Variants, GenTypeOK, Addrs
<1> QED
  BY <1>4, <1>5, <1>6

\* Two calls never return the same UUID, in whatever order they read the clock and
\* however it moves, unless the sequence has gone through all the values that
\* SetVariant leaves apart (generator.go 136-158 and 209-234).
THEOREM UuidsDiffer ==
  ASSUME UuidAssumption
  PROVE  GenSpec => []NeverTwice
<1>1. GenIInv => NeverTwice
  <2> SUFFICES ASSUME GenIInv, bumps < SeqSize \div 4,
                      NEW i \in 1 .. Len(uuids), NEW j \in 1 .. Len(uuids), i < j
               PROVE  uuids[i] # uuids[j]
    BY DEF NeverTwice
  <2> QED
    BY DEF GenIInv, Apart, Variants
<1>2. GenIInv /\ [GenNext]_genVars => GenIInv'
  <2>1. GenIInv /\ UNCHANGED genVars => GenIInv'
    BY DEF genVars, GenIInv, GenTypeOK, DrawnFirst, StampsTaken, TakenNow, Apart, Pending
  <2> QED
    BY <2>1, DrawKeeps, ClockKeeps, ReturnKeeps DEF GenNext
<1> QED
  BY <1>1, <1>2, GenInitially, PTL DEF GenSpec
-----------------------------------------------------------------------------
(* The ring buffer *)

Value == Elem \cup {Nil}

\* The places are 0 .. cap - 1; an empty buffer has its head where its tail is.
RingIInv ==
  /\ cap \in 0 .. MaxCap
  /\ buffer \in [0 .. cap - 1 -> Value]
  /\ nonEmpty \in BOOLEAN
  /\ cap = 0 => head = 0 /\ tail = 0 /\ ~nonEmpty
  /\ cap # 0 => head \in 0 .. cap - 1 /\ tail \in 0 .. cap - 1
  /\ ~nonEmpty => head = tail

\* What a % c is for an index that has gone round at most once.
Wrap(a, c) == IF a < c THEN a ELSE a - c
-----------------------------------------------------------------------------
\* Indices go round at most once, where the remainder is a subtraction.
LEMMA ModWraps ==
  ASSUME NEW c \in Nat \ {0}, NEW a \in Nat, a < 2 * c
  PROVE  a % c = Wrap(a, c)
BY DEF Wrap

\* Places in a ring of c: what is n after h.
LEMMA WrapIn ==
  ASSUME NEW c \in Nat \ {0}, NEW h \in 0 .. c - 1, NEW n \in 0 .. c
  PROVE  Wrap(h + n, c) \in 0 .. c - 1
BY DEF Wrap

\* The place of an element counted from the head (ring_buffer.go, Get).
LEMMA WrapMod ==
  ASSUME NEW c \in Nat \ {0}, NEW h \in 0 .. c - 1, NEW n \in 0 .. c - 1
  PROVE  (h + n) % c = Wrap(h + n, c) /\ (n + h) % c = Wrap(h + n, c)
<1>1. h + n \in Nat /\ h + n < 2 * c /\ h + n = n + h
  OBVIOUS
<1>2. (h + n) % c = Wrap(h + n, c)
  BY <1>1, ModWraps
<1> QED
  BY <1>1, <1>2

\* Head and tail tell how many elements there are, but for none and all
\* (ring_buffer.go, Len).
LEMMA WrapCounts ==
  ASSUME NEW c \in Nat \ {0}, NEW h \in 0 .. c - 1, NEW n \in 0 .. c,
         NEW place \in 0 .. c - 1, place = Wrap(h + n, c)
  PROVE  /\ n = 0 => h = place
         /\ n # 0 => n = IF h < place THEN place - h ELSE c + place - h
BY DEF Wrap

\* Different elements have different places.
LEMMA WrapDiffers ==
  ASSUME NEW c \in Nat \ {0}, NEW h \in 0 .. c - 1, NEW n \in 0 .. c - 1, NEW i \in 0 .. n, i # n
  PROVE  Wrap(h + i, c) # Wrap(h + n, c)
BY DEF Wrap

\* One place back (AddFirst).
LEMMA WrapBack ==
  ASSUME NEW c \in Nat \ {0}, NEW h \in 0 .. c - 1
  PROVE  \E k \in 0 .. c - 1 : /\ k = (c + h - 1) % c
                              /\ \A i \in 0 .. c - 1 : Wrap(k + (i + 1), c) = Wrap(h + i, c)
<1>1. c + h - 1 \in Nat /\ c + h - 1 < 2 * c
  OBVIOUS
<1>2. (c + h - 1) % c = Wrap(c + h - 1, c)
  BY <1>1, ModWraps
<1>3. Wrap(c + h - 1, c) \in 0 .. c - 1
  BY DEF Wrap
<1>4. \A i \in 0 .. c - 1 : Wrap(Wrap(c + h - 1, c) + (i + 1), c) = Wrap(h + i, c)
  BY DEF Wrap
<1> QED
  BY <1>2, <1>3, <1>4

\* One place on (RemoveFirst).
LEMMA WrapOn ==
  ASSUME NEW c \in Nat \ {0}, NEW h \in 0 .. c - 1
  PROVE  \E k \in 0 .. c - 1 : /\ k = (h + 1) % c
                              /\ \A i \in 0 .. c - 1 : Wrap(k + i, c) = Wrap(h + (i + 1), c)
<1>1. (h + 1) % c = Wrap(h + 1, c)
  <2>1. h + 1 \in Nat /\ h + 1 < 2 * c
    OBVIOUS
  <2> QED
    BY <2>1, ModWraps
<1>2. Wrap(h + 1, c) \in 0 .. c - 1
  BY DEF Wrap
<1>3. \A i \in 0 .. c - 1 : Wrap(Wrap(h + 1, c) + i, c) = Wrap(h + (i + 1), c)
  BY DEF Wrap
<1> QED
  BY <1>1, <1>2, <1>3

\* The place before the tail is that of the last element.
LEMMA WrapLess ==
  ASSUME NEW c \in Nat \ {0}, NEW h \in 0 .. c - 1, NEW n \in 1 .. c
  PROVE  (c + Wrap(h + n, c) - 1) % c = Wrap(h + (n - 1), c)
<1>1. PICK place \in 0 .. c - 1 : place = Wrap(h + n, c)
  <2>1. n \in 0 .. c
    OBVIOUS
  <2> QED
    BY <2>1, WrapIn
<1>2. c + place - 1 \in Nat /\ c + place - 1 < 2 * c
  OBVIOUS
<1>3. (c + place - 1) % c = Wrap(c + place - 1, c)
  BY <1>2, ModWraps
<1>4. Wrap(c + place - 1, c) = Wrap(h + (n - 1), c)
  BY <1>1 DEF Wrap
<1> QED
  BY <1>1, <1>3, <1>4

\* The length, and where the tail is.
LEMMA Lengths ==
  ASSUME RingAssumption, RingIInv
  PROVE  /\ RLen \in 0 .. cap
         /\ nonEmpty <=> RLen # 0
         /\ cap # 0 => tail = Wrap(head + RLen, cap)
         /\ \A i \in 0 .. RLen - 1 : Get(i) = buffer[Wrap(head + i, cap)] /\ Get(i) \in Value
<1>1. /\ RLen \in 0 .. cap /\ (nonEmpty <=> RLen # 0)
      /\ cap # 0 => tail = Wrap(head + RLen, cap)
  BY DEF RingAssumption, RingIInv, RLen, Wrap
<1>2. ASSUME NEW i \in 0 .. RLen - 1
      PROVE  Get(i) = buffer[Wrap(head + i, cap)] /\ Get(i) \in Value
  <2>1. cap \in Nat \ {0} /\ i \in 0 .. cap - 1 /\ head \in 0 .. cap - 1
    BY <1>1, <1>2 DEF RingAssumption, RingIInv
  <2>2. (i + head) % cap = Wrap(head + i, cap)
    BY <2>1, WrapMod
  <2>3. Wrap(head + i, cap) \in 0 .. cap - 1
    BY <2>1, WrapIn
  <2> QED
    BY <2>2, <2>3 DEF Get, RingIInv
<1> QED
  BY <1>1, <1>2

\* The elements as a sequence.
LEMMA ItemsSeq ==
  ASSUME RingAssumption, RingIInv
  PROVE  Items \in Seq(Value) /\ Len(Items) = RLen /\ \A i \in 1 .. RLen : Items[i] = Get(i - 1)
<1>1. RLen \in Nat /\ \A i \in 1 .. RLen : i - 1 \in 0 .. RLen - 1 /\ Get(i - 1) \in Value
  BY Lengths DEF RingAssumption, RingIInv
<1>2. Items \in [1 .. RLen -> Value]
  BY <1>1 DEF Items
<1> QED
  BY <1>1, <1>2 DEF Items

\* A slice that is full is doubled, and nothing moves with respect to the head.
LEMMA Grows ==
  ASSUME RingAssumption, RingIInv
  PROVE  /\ NewCap \in Nat \ {0} /\ RLen < NewCap
         /\ NewBuf \in [0 .. NewCap - 1 -> Value]
         /\ NewHead \in 0 .. NewCap - 1 /\ NewTail = Wrap(NewHead + RLen, NewCap)
         /\ \A i \in 0 .. RLen - 1 : NewBuf[Wrap(NewHead + i, NewCap)] = Get(i)
<1>0. RLen \in 0 .. cap /\ cap \in Nat /\ \A i \in 0 .. RLen - 1 : Get(i) \in Value
  BY Lengths DEF RingAssumption, RingIInv
<1>1. CASE Full
  <2>1. /\ NewCap = (IF cap = 0 THEN 1 ELSE 2 * cap) /\ NewHead = 0 /\ NewTail = cap /\ RLen = cap
        /\ NewBuf = Moved(NewCap)
    BY <1>1 DEF Full, NewCap, NewHead, NewTail, NewBuf, Grown
  <2>2. NewCap \in Nat \ {0} /\ RLen < NewCap
    BY <1>0, <2>1
  <2>3. NewBuf = [i \in 0 .. NewCap - 1 |-> IF i < RLen THEN Get(i) ELSE Nil]
    BY <2>1 DEF Moved
  <2> HIDE DEF NewCap, NewBuf
  <2>4. NewBuf \in [0 .. NewCap - 1 -> Value]
    BY <1>0, <2>2, <2>3 DEF Value
  <2>5. \A i \in 0 .. RLen - 1 : Wrap(NewHead + i, NewCap) = i /\ NewBuf[i] = Get(i)
    BY <1>0, <2>1, <2>2, <2>3 DEF Wrap
  <2>6. NewHead \in 0 .. NewCap - 1 /\ NewTail = Wrap(NewHead + RLen, NewCap)
    BY <1>0, <2>1, <2>2 DEF Wrap
  <2> QED
    BY <2>2, <2>4, <2>5, <2>6
<1>2. CASE ~Full
  <2>1. NewCap = cap /\ NewHead = head /\ NewTail = tail /\ NewBuf = buffer /\ RLen # cap
    BY <1>2 DEF Full, NewCap, NewHead, NewTail, NewBuf
  <2>2. cap # 0 /\ RLen < cap
    BY <1>0, <2>1
  <2> QED
    BY <1>0, <2>1, <2>2, Lengths DEF RingIInv
<1> QED
  BY <1>1, <1>2

\* What a step leaves: n elements in the slice b of c places, from h on.
Leaving(n, c, h, b) ==
  /\ cap' = c /\ head' = h /\ tail' = Wrap(h + n, c) /\ buffer' = b
  /\ nonEmpty' = (n # 0)

\* A ring of c places that holds n elements from place h on keeps the invariant
\* and has these elements.
LEMMA After ==
  ASSUME RingAssumption, NEW c \in 1 .. MaxCap, NEW n \in 0 .. c, NEW h \in 0 .. c - 1,
         NEW b \in [0 .. c - 1 -> Value], Leaving(n, c, h, b)
  PROVE  /\ RingIInv'
         /\ Items' \in Seq(Value) /\ Len(Items') = n
         /\ \A i \in 1 .. n : Items'[i] = b[Wrap(h + (i - 1), c)]
<1>0. MaxCap \in Nat /\ c \in Nat \ {0} /\ c \in 0 .. MaxCap
  BY DEF RingAssumption
<1>1. PICK place \in 0 .. c - 1 : place = Wrap(h + n, c)
  BY <1>0, WrapIn
<1>2. cap' = c /\ head' = h /\ tail' = place /\ buffer' = b
  BY <1>1 DEF Leaving
<1>3. (n = 0 => ~nonEmpty') /\ (n # 0 => nonEmpty') /\ nonEmpty' \in BOOLEAN
  BY DEF Leaving
<1>4. (n = 0 => h = place) /\ (n # 0 => n = IF h < place THEN place - h ELSE c + place - h)
  <2>1. n = 0 => h = place
    BY <1>0, <1>1, WrapCounts
  <2>2. n # 0 => n = IF h < place THEN place - h ELSE c + place - h
    BY <1>0, <1>1, WrapCounts
  <2> QED
    BY <2>1, <2>2
<1>5. RingIInv'
  <2>1. ~nonEmpty' => head' = tail'
    BY <1>2, <1>3, <1>4
  <2>2. cap' \in 0 .. MaxCap /\ cap' # 0 /\ buffer' \in [0 .. cap' - 1 -> Value]
    BY <1>0, <1>2
  <2>3. head' \in 0 .. cap' - 1 /\ tail' \in 0 .. cap' - 1
    BY <1>1, <1>2
  <2> QED
    BY <1>3, <2>1, <2>2, <2>3 DEF RingIInv
<1>6. RLen' = n
  <2>1. CASE n = 0
    BY <1>3, <2>1 DEF RLen
  <2>2. CASE n # 0
    <3>1. RLen' = IF head' < tail' THEN tail' - head' ELSE cap' + tail' - head'
      BY <1>3, <2>2 DEF RLen
    <3>2. RLen' = IF h < place THEN place - h ELSE c + place - h
      BY <1>2, <3>1
    <3> QED
      BY <1>4, <2>2, <3>2
  <2> QED
    BY <2>1, <2>2
<1>7. ASSUME NEW i \in 1 .. n
      PROVE  Get(i - 1)' = b[Wrap(h + (i - 1), c)] /\ b[Wrap(h + (i - 1), c)] \in Value
  <2>1. PICK k \in 0 .. c - 1 : k = i - 1
    BY <1>0
  <2>2. (k + h) % c = Wrap(h + k, c)
    BY <1>0, WrapMod
  <2>3. Wrap(h + k, c) \in 0 .. c - 1
    BY <1>0, WrapIn
  <2> QED
    BY <1>2, <2>1, <2>2, <2>3 DEF Get
<1>8. Items' = [i \in 1 .. n |-> b[Wrap(h + (i - 1), c)]]
  BY <1>6, <1>7 DEF Items
<1>9. Items' \in [1 .. n -> Value] /\ n \in Nat
  <2>1. n \in Nat
    BY <1>0
  <2>2. Items' \in [1 .. n -> Value]
    BY <1>7, <1>8
  <2> QED
    BY <2>1, <2>2
<1>10. Items' \in Seq(Value) /\ Len(Items') = n
  BY <1>9
<1> QED
  BY <1>5, <1>8, <1>10
-----------------------------------------------------------------------------
\* The new last element follows the others.
LEMMA AddLastAppends ==
  ASSUME RingAssumption, RingIInv, NEW e \in Elem, AddLast(e)
  PROVE  RingIInv' /\ Items' = Append(Items, e)
<1>1. PICK n \in Nat : n = RLen
  BY Lengths DEF RingAssumption, RingIInv
<1>2. NewCap \in Nat \ {0} /\ n \in 0 .. NewCap /\ n < NewCap /\ NewHead \in 0 .. NewCap - 1
  BY <1>1, Grows
<1>3. NewBuf \in [0 .. NewCap - 1 -> Value]
  BY Grows
<1>4. NewTail = Wrap(NewHead + n, NewCap)
  BY <1>1, Grows
<1>5. \A i \in 0 .. n - 1 : NewBuf[Wrap(NewHead + i, NewCap)] = Get(i)
  BY <1>1, Grows
<1>6. /\ NewCap <= MaxCap /\ cap' = NewCap /\ tail' = (NewTail + 1) % NewCap /\ head' = NewHead
  BY DEF AddLast
<1>7. buffer' = [NewBuf EXCEPT ![NewTail] = e] /\ nonEmpty' = TRUE
  BY DEF AddLast
<1>8. NewTail \in 0 .. NewCap - 1
  BY <1>2, <1>4, WrapIn
<1>9. tail' = Wrap(NewHead + (n + 1), NewCap)
  <2>1. NewTail + 1 \in Nat /\ NewTail + 1 < 2 * NewCap
    BY <1>2, <1>8
  <2>2. (NewTail + 1) % NewCap = Wrap(NewTail + 1, NewCap)
    BY <1>2, <2>1, ModWraps
  <2>3. Wrap(NewTail + 1, NewCap) = Wrap(NewHead + (n + 1), NewCap)
    BY <1>2, <1>4 DEF Wrap
  <2> QED
    BY <1>6, <2>2, <2>3
<1>10. PICK b \in [0 .. NewCap - 1 -> Value] : b = [NewBuf EXCEPT ![NewTail] = e]
  BY <1>3, <1>8 DEF Value
<1>11. /\ RingIInv' /\ Items' \in Seq(Value) /\ Len(Items') = n + 1
       /\ \A i \in 1 .. n + 1 : Items'[i] = b[Wrap(NewHead + (i - 1), NewCap)]
  <2>1. n + 1 \in 0 .. NewCap /\ NewCap \in 1 .. MaxCap /\ n + 1 # 0
    BY <1>2, <1>6 DEF RingAssumption
  <2>2. Leaving(n + 1, NewCap, NewHead, b)
    BY <1>6, <1>7, <1>9, <1>10, <2>1 DEF Leaving
  <2> QED
    BY <1>2, <2>1, <2>2, After
<1>12. Items \in Seq(Value) /\ Len(Items) = n /\ \A i \in 1 .. n : Items[i] = Get(i - 1)
  BY <1>1, ItemsSeq
<1>13. /\ Append(Items, e) \in Seq(Value) /\ Len(Append(Items, e)) = n + 1
       /\ \A i \in 1 .. n : Append(Items, e)[i] = Items[i]
       /\ Append(Items, e)[n + 1] = e
  BY <1>12 DEF Value
<1>14. ASSUME NEW i \in 1 .. n PROVE Items'[i] = Append(Items, e)[i]
  <2>1. PICK k \in 0 .. n - 1 : k = i - 1
    BY <1>2
  <2>2. Wrap(NewHead + k, NewCap) \in 0 .. NewCap - 1
    BY <1>2, WrapIn
  <2>3. Wrap(NewHead + k, NewCap) # NewTail
    <3>1. k \in 0 .. n /\ k # n /\ n \in 0 .. NewCap - 1
      BY <1>2
    <3> QED
      BY <1>2, <1>4, <3>1, WrapDiffers
  <2>4. Items'[i] = NewBuf[Wrap(NewHead + k, NewCap)]
    BY <1>3, <1>8, <1>10, <1>11, <2>1, <2>2, <2>3
  <2> QED
    BY <1>5, <1>12, <1>13, <2>1, <2>4
<1>15. Items'[n + 1] = e
  <2>1. n + 1 \in 1 .. n + 1 /\ NewHead + (n + 1 - 1) = NewHead + n
    BY <1>2
  <2> QED
    BY <1>3, <1>4, <1>8, <1>10, <1>11, <2>1
<1>16. \A i \in 1 .. Len(Items') : i \in 1 .. n \/ i = n + 1
  BY <1>11
<1>17. Items' = Append(Items, e)
  BY <1>11, <1>13, <1>14, <1>15, <1>16, SeqEqual
<1> QED
  BY <1>11, <1>17

\* The new first element comes before the others.
LEMMA AddFirstPrepends ==
  ASSUME RingAssumption, RingIInv, NEW e \in Elem, AddFirst(e)
  PROVE  RingIInv' /\ Items' = <<e>> \o Items
<1>1. PICK n \in Nat : n = RLen
  BY Lengths DEF RingAssumption, RingIInv
<1>2. NewCap \in Nat \ {0} /\ n \in 0 .. NewCap - 1 /\ n < NewCap /\ NewHead \in 0 .. NewCap - 1
  BY <1>1, Grows
<1>3. NewBuf \in [0 .. NewCap - 1 -> Value]
  BY Grows
<1>4. NewTail = Wrap(NewHead + n, NewCap)
  BY <1>1, Grows
<1>5. \A i \in 0 .. n - 1 : NewBuf[Wrap(NewHead + i, NewCap)] = Get(i)
  BY <1>1, Grows
<1>6. PICK h \in 0 .. NewCap - 1 : /\ h = (NewCap + NewHead - 1) % NewCap
                                  /\ \A i \in 0 .. NewCap - 1 : Wrap(h + (i + 1), NewCap) = Wrap(NewHead + i, NewCap)
  BY <1>2, WrapBack
<1>7. PICK b \in [0 .. NewCap - 1 -> Value] : b = [NewBuf EXCEPT ![h] = e]
  BY <1>3 DEF Value
<1>8. n + 1 \in 0 .. NewCap /\ NewCap \in 1 .. MaxCap /\ n + 1 # 0
  BY <1>2 DEF RingAssumption, AddFirst
<1>9. Leaving(n + 1, NewCap, h, b)
  <2>1. NewTail = Wrap(h + (n + 1), NewCap)
    BY <1>2, <1>4, <1>6
  <2> QED
    BY <1>6, <1>7, <1>8, <2>1 DEF AddFirst, Leaving
<1>10. /\ RingIInv' /\ Items' \in Seq(Value) /\ Len(Items') = n + 1
       /\ \A i \in 1 .. n + 1 : Items'[i] = b[Wrap(h + (i - 1), NewCap)]
  BY <1>8, <1>9, After
<1>11. Items \in Seq(Value) /\ Len(Items) = n /\ \A i \in 1 .. n : Items[i] = Get(i - 1)
  BY <1>1, ItemsSeq
<1>12. /\ <<e>> \o Items \in Seq(Value) /\ Len(<<e>> \o Items) = n + 1
       /\ (<<e>> \o Items)[1] = e
       /\ \A i \in 1 .. n : (<<e>> \o Items)[i + 1] = Items[i]
  BY <1>11 DEF Value
<1>13. Items'[1] = e
  <2>1. 1 \in 1 .. n + 1 /\ Wrap(h + (1 - 1), NewCap) = h
    BY <1>2 DEF Wrap
  <2> QED
    BY <1>3, <1>7, <1>10, <2>1
<1>14. ASSUME NEW i \in 1 .. n PROVE Items'[i + 1] = (<<e>> \o Items)[i + 1]
  <2>1. PICK k \in 0 .. n - 1 : k = i - 1
    BY <1>2
  <2>2. Wrap(NewHead + k, NewCap) \in 0 .. NewCap - 1 /\ Wrap(h + (k + 1), NewCap) = Wrap(NewHead + k, NewCap)
    <3>1. k \in 0 .. NewCap - 1 /\ k \in 0 .. NewCap
      BY <1>2
    <3> QED
      BY <1>2, <1>6, <3>1, WrapIn
  <2>3. Wrap(h + (k + 1), NewCap) # h
    <3>1. k + 1 \in 0 .. NewCap - 1 /\ 0 \in 0 .. k + 1 /\ 0 # k + 1
      BY <1>2
    <3>2. Wrap(h + 0, NewCap) # Wrap(h + (k + 1), NewCap)
      BY <1>2, <3>1, WrapDiffers
    <3>3. Wrap(h + 0, NewCap) = h
      BY <1>2 DEF Wrap
    <3> QED
      BY <3>2, <3>3
  <2>4. Items'[i + 1] = b[Wrap(h + (k + 1), NewCap)]
    <3>1. i + 1 \in 1 .. n + 1 /\ i + 1 - 1 = k + 1
      BY <1>2, <2>1
    <3> QED
      BY <1>10, <3>1
  <2>5. Items'[i + 1] = NewBuf[Wrap(NewHead + k, NewCap)]
    BY <1>3, <1>7, <2>2, <2>3, <2>4
  <2> QED
    BY <1>5, <1>11, <1>12, <2>1, <2>5
<1>15. ASSUME NEW i \in 1 .. Len(Items') PROVE Items'[i] = (<<e>> \o Items)[i]
  <2>1. CASE i = 1
    BY <1>12, <1>13, <2>1
  <2>2. CASE i # 1
    <3>1. PICK k \in 1 .. n : i = k + 1
      <4>1. i - 1 \in 1 .. n /\ i = (i - 1) + 1
        BY <1>10, <2>2
      <4> QED
        BY <4>1
    <3> QED
      BY <1>14, <3>1
  <2> QED
    BY <2>1, <2>2
<1>16. Items' = <<e>> \o Items
  BY <1>10, <1>12, <1>15, SeqEqual
<1> QED
  BY <1>10, <1>16

\* Without its first element, the others keep their order.
LEMMA RemoveFirstTail ==
  ASSUME RingAssumption, RingIInv, RemoveFirst
  PROVE  RingIInv' /\ Items # <<>> /\ Items' = Tail(Items)
<1>1. PICK n \in Nat : n + 1 = RLen /\ n + 1 \in 0 .. cap
  <2>1. RLen \in 0 .. cap /\ RLen # 0 /\ cap \in Nat
    BY Lengths DEF RingAssumption, RingIInv, RemoveFirst
  <2>2. RLen - 1 \in Nat /\ (RLen - 1) + 1 = RLen
    BY <2>1
  <2> QED
    BY <2>1, <2>2
<1>2. cap \in Nat \ {0} /\ n \in 0 .. cap - 1 /\ n \in 0 .. cap /\ cap \in 1 .. MaxCap
  <2>1. cap \in 0 .. MaxCap /\ MaxCap \in Nat
    BY DEF RingAssumption, RingIInv
  <2> QED
    BY <1>1, <2>1
<1>3. head \in 0 .. cap - 1 /\ buffer \in [0 .. cap - 1 -> Value]
  BY <1>2 DEF RingIInv
<1>4. tail = Wrap(head + (n + 1), cap)
  BY <1>1, <1>2, Lengths
<1>5. \A i \in 0 .. n : Get(i) = buffer[Wrap(head + i, cap)]
  <2>1. \A i \in 0 .. n : i \in 0 .. RLen - 1
    BY <1>1
  <2> QED
    BY <2>1, Lengths
<1>6. PICK h \in 0 .. cap - 1 : /\ h = (head + 1) % cap
                              /\ \A i \in 0 .. cap - 1 : Wrap(h + i, cap) = Wrap(head + (i + 1), cap)
  BY <1>2, <1>3, WrapOn
<1>7. PICK b \in [0 .. cap - 1 -> Value] : b = [buffer EXCEPT ![head] = Nil]
  BY <1>3 DEF Value
<1>8. tail = Wrap(h + n, cap)
  BY <1>2, <1>4, <1>6
<1>9. (h # tail) = (n # 0)
  <2>1. CASE n = 0
    BY <1>2, <1>8, <2>1 DEF Wrap
  <2>2. CASE n # 0
    <3>1. 0 \in 0 .. n /\ 0 # n
      BY <1>2, <2>2
    <3>2. Wrap(h + 0, cap) # Wrap(h + n, cap)
      BY <1>2, <3>1, WrapDiffers
    <3>3. Wrap(h + 0, cap) = h
      BY <1>2 DEF Wrap
    <3>4. h # tail
      BY <1>8, <3>2, <3>3
    <3> QED
      BY <2>2, <3>4
  <2> QED
    BY <2>1, <2>2
<1>10. Leaving(n, cap, h, b)
  <2>1. cap' = cap /\ head' = h /\ tail' = tail /\ buffer' = b
    BY <1>6, <1>7 DEF RemoveFirst
  <2>2. nonEmpty' = (h # tail)
    BY <1>6 DEF RemoveFirst
  <2> QED
    BY <1>8, <1>9, <2>1, <2>2, Zenon DEF Leaving
<1>11. /\ RingIInv' /\ Items' \in Seq(Value) /\ Len(Items') = n
       /\ \A i \in 1 .. n : Items'[i] = b[Wrap(h + (i - 1), cap)]
  BY <1>2, <1>10, After
<1>12. Items \in Seq(Value) /\ Len(Items) = n + 1 /\ \A i \in 1 .. n + 1 : Items[i] = Get(i - 1)
  BY <1>1, ItemsSeq
<1>13. Items # <<>>
  BY <1>2, <1>12
<1>14. /\ Tail(Items) \in Seq(Value) /\ Len(Tail(Items)) = n
       /\ \A i \in 1 .. n : Tail(Items)[i] = Items[i + 1]
  BY <1>2, <1>12, <1>13
<1>15. ASSUME NEW i \in 1 .. Len(Items') PROVE Items'[i] = Tail(Items)[i]
  <2>0. i \in 1 .. n
    BY <1>11
  <2>1. PICK k \in 0 .. n - 1 : k = i - 1
    BY <1>2, <2>0
  <2>2. k \in 0 .. cap - 1 /\ k + 1 \in 0 .. cap - 1 /\ k + 1 \in 0 .. cap /\ k + 1 \in 0 .. n
    BY <1>2
  <2>3. Wrap(head + (k + 1), cap) \in 0 .. cap - 1 /\ Wrap(h + k, cap) = Wrap(head + (k + 1), cap)
    BY <1>2, <1>3, <1>6, <2>2, WrapIn
  <2>4. Wrap(head + (k + 1), cap) # head
    <3>1. 0 \in 0 .. k + 1 /\ 0 # k + 1
      BY <1>2
    <3>2. Wrap(head + 0, cap) # Wrap(head + (k + 1), cap)
      BY <1>2, <1>3, <2>2, <3>1, WrapDiffers
    <3>3. Wrap(head + 0, cap) = head
      BY <1>2, <1>3 DEF Wrap
    <3> QED
      BY <3>2, <3>3
  <2>5. Items'[i] = buffer[Wrap(head + (k + 1), cap)]
    BY <1>3, <1>7, <1>11, <2>0, <2>1, <2>3, <2>4
  <2>6. Items[i + 1] = Get(k + 1)
    <3>1. i + 1 \in 1 .. n + 1 /\ i + 1 - 1 = k + 1
      BY <1>2, <2>0, <2>1
    <3> QED
      BY <1>12, <3>1
  <2> QED
    BY <1>5, <1>14, <2>0, <2>2, <2>5, <2>6
<1>16. Items' = Tail(Items)
  BY <1>11, <1>14, <1>15, SeqEqual
<1> QED
  BY <1>11, <1>13, <1>16

\* Without its last element, the others stay.
LEMMA RemoveLastCuts ==
  ASSUME RingAssumption, RingIInv, RemoveLast
  PROVE  RingIInv' /\ Items # <<>> /\ Items' = SubSeq(Items, 1, Len(Items) - 1)
<1>1. PICK n \in Nat : n + 1 = RLen /\ n + 1 \in 0 .. cap
  <2>1. RLen \in 0 .. cap /\ RLen # 0 /\ cap \in Nat
    BY Lengths DEF RingAssumption, RingIInv, RemoveLast
  <2>2. RLen - 1 \in Nat /\ (RLen - 1) + 1 = RLen
    BY <2>1
  <2> QED
    BY <2>1, <2>2
<1>2. cap \in Nat \ {0} /\ n \in 0 .. cap - 1 /\ n \in 0 .. cap /\ cap \in 1 .. MaxCap /\ n + 1 \in 1 .. cap
  <2>1. cap \in 0 .. MaxCap /\ MaxCap \in Nat
    BY DEF RingAssumption, RingIInv
  <2> QED
    BY <1>1, <2>1
<1>3. head \in 0 .. cap - 1 /\ buffer \in [0 .. cap - 1 -> Value]
  BY <1>2 DEF RingIInv
<1>4. tail = Wrap(head + (n + 1), cap)
  BY <1>1, <1>2, Lengths
<1>5. \A i \in 0 .. n : Get(i) = buffer[Wrap(head + i, cap)]
  <2>1. \A i \in 0 .. n : i \in 0 .. RLen - 1
    BY <1>1
  <2> QED
    BY <2>1, Lengths
<1>6. PICK place \in 0 .. cap - 1 : place = Wrap(head + n, cap)
  BY <1>2, <1>3, WrapIn
<1>7. (cap + tail - 1) % cap = place
  <2>1. (cap + Wrap(head + (n + 1), cap) - 1) % cap = Wrap(head + ((n + 1) - 1), cap)
    BY <1>2, <1>3, WrapLess
  <2>2. (n + 1) - 1 = n
    OBVIOUS
  <2> QED
    BY <1>4, <1>6, <2>1, <2>2
<1>8. PICK b \in [0 .. cap - 1 -> Value] : b = [buffer EXCEPT ![place] = Nil]
  BY <1>3 DEF Value
<1>9. (place # head) = (n # 0)
  <2>1. CASE n = 0
    BY <1>2, <1>3, <1>6, <2>1 DEF Wrap
  <2>2. CASE n # 0
    <3>1. 0 \in 0 .. n /\ 0 # n
      BY <1>2, <2>2
    <3>2. Wrap(head + 0, cap) # Wrap(head + n, cap)
      BY <1>2, <1>3, <3>1, WrapDiffers
    <3>3. Wrap(head + 0, cap) = head
      BY <1>2, <1>3 DEF Wrap
    <3>4. place # head
      BY <1>6, <3>2, <3>3
    <3> QED
      BY <2>2, <3>4
  <2> QED
    BY <2>1, <2>2
<1>10. Leaving(n, cap, head, b)
  <2>1. cap' = cap /\ head' = head /\ tail' = place /\ buffer' = b
    BY <1>7, <1>8 DEF RemoveLast
  <2>2. nonEmpty' = (place # head)
    BY <1>7 DEF RemoveLast
  <2> QED
    BY <1>6, <1>9, <2>1, <2>2, Zenon DEF Leaving
<1>11. /\ RingIInv' /\ Items' \in Seq(Value) /\ Len(Items') = n
       /\ \A i \in 1 .. n : Items'[i] = b[Wrap(head + (i - 1), cap)]
  BY <1>2, <1>3, <1>10, After
<1>12. Items \in Seq(Value) /\ Len(Items) = n + 1 /\ \A i \in 1 .. n + 1 : Items[i] = Get(i - 1)
  BY <1>1, ItemsSeq
<1>13. Items # <<>> /\ Len(Items) - 1 = n
  BY <1>2, <1>12
<1>14. /\ SubSeq(Items, 1, n) \in Seq(Value) /\ Len(SubSeq(Items, 1, n)) = n
       /\ \A i \in 1 .. n : SubSeq(Items, 1, n)[i] = Items[i]
  BY <1>2, <1>12
<1>15. ASSUME NEW i \in 1 .. Len(Items') PROVE Items'[i] = SubSeq(Items, 1, n)[i]
  <2>0. i \in 1 .. n /\ i \in 1 .. n + 1
    BY <1>2, <1>11
  <2>1. PICK k \in 0 .. n - 1 : k = i - 1
    BY <1>2, <2>0
  <2>2. k \in 0 .. cap /\ k \in 0 .. n /\ k # n
    BY <1>2
  <2>3. Wrap(head + k, cap) \in 0 .. cap - 1 /\ Wrap(head + k, cap) # place
    BY <1>2, <1>3, <1>6, <2>2, WrapIn, WrapDiffers
  <2>4. Items'[i] = buffer[Wrap(head + k, cap)]
    BY <1>3, <1>8, <1>11, <2>0, <2>1, <2>3
  <2> QED
    BY <1>5, <1>12, <1>14, <2>0, <2>1, <2>2, <2>4
<1>16. Items' = SubSeq(Items, 1, n)
  BY <1>11, <1>14, <1>15, SeqEqual
<1> QED
  BY <1>11, <1>13, <1>16

\* A slice that is full is replaced by a larger one, and the elements stay.
LEMMA ReserveStays ==
  ASSUME RingAssumption, ReserveFrom > MaxCap, RingIInv, NEW m \in 1 .. MaxCap, Reserve(m)
  PROVE  RingIInv' /\ Items' = Items
<1>1. PICK n \in Nat : n = RLen /\ n \in 0 .. cap
  BY Lengths DEF RingAssumption, RingIInv
<1>2. n = cap /\ cap \in Nat /\ m > cap
  <2>1. cap \in 0 .. MaxCap /\ MaxCap \in Nat /\ ReserveFrom \in Nat
    BY DEF RingAssumption, RingIInv
  <2>2. Full \/ n >= ReserveFrom
    BY <1>1 DEF Reserve
  <2>3. ~(n >= ReserveFrom)
    BY <1>1, <2>1
  <2> QED
    BY <1>1, <2>1, <2>2, <2>3 DEF Full, Reserve
<1>3. \A i \in 0 .. n - 1 : Get(i) \in Value
  BY <1>1, Lengths
<1>4. PICK b \in [0 .. m - 1 -> Value] : b = [i \in 0 .. m - 1 |-> IF i < n THEN Get(i) ELSE Nil]
  <2>1. \A i \in 0 .. m - 1 : (IF i < n THEN Get(i) ELSE Nil) \in Value
    BY <1>2, <1>3 DEF Value
  <2> QED
    BY <2>1
<1>5. Leaving(n, m, 0, b)
  <2>1. cap' = m /\ head' = 0 /\ tail' = n /\ buffer' = b
    BY <1>1, <1>2, <1>4 DEF Reserve, Moved
  <2>2. nonEmpty' = nonEmpty
    BY DEF Reserve
  <2>3. nonEmpty = (n # 0)
    BY <1>1, Lengths DEF RingIInv
  <2>4. Wrap(0 + n, m) = n
    BY <1>2 DEF Wrap
  <2> QED
    BY <2>1, <2>2, <2>3, <2>4, Zenon DEF Leaving
<1>6. 0 \in 0 .. m - 1 /\ n \in 0 .. m
  BY <1>2 DEF RingAssumption
<1>7. /\ RingIInv' /\ Items' \in Seq(Value) /\ Len(Items') = n
      /\ \A i \in 1 .. n : Items'[i] = b[Wrap(0 + (i - 1), m)]
  BY <1>5, <1>6, After
<1>8. Items \in Seq(Value) /\ Len(Items) = n /\ \A i \in 1 .. n : Items[i] = Get(i - 1)
  BY <1>1, ItemsSeq
<1>9. ASSUME NEW i \in 1 .. Len(Items') PROVE Items'[i] = Items[i]
  <2>1. PICK k \in 0 .. n - 1 : k = i - 1 /\ i \in 1 .. n
    BY <1>7
  <2>2. Wrap(0 + k, m) = k /\ k \in 0 .. m - 1 /\ k < n
    BY <1>2 DEF Wrap
  <2>3. b[k] = Get(k)
    BY <1>4, <2>2
  <2> QED
    BY <1>7, <1>8, <2>1, <2>2, <2>3
<1>10. Items' = Items
  BY <1>7, <1>8, <1>9, SeqEqual
<1> QED
  BY <1>7, <1>10

\* Reset leaves nothing but the capacity.
LEMMA ResetEmpties ==
  ASSUME RingAssumption, RingIInv, Reset
  PROVE  RingIInv' /\ Items' = <<>>
<1>1. head' = 0 /\ tail' = 0 /\ nonEmpty' = FALSE /\ cap' = cap /\ buffer' = buffer
  BY DEF Reset
<1>2. RingIInv'
  <2>1. cap \in 0 .. MaxCap /\ MaxCap \in Nat /\ (cap # 0 => 0 \in 0 .. cap - 1)
    BY DEF RingAssumption, RingIInv
  <2>2. buffer \in [0 .. cap - 1 -> Value]
    BY DEF RingIInv
  <2>3. nonEmpty' \in BOOLEAN /\ ~nonEmpty'
    BY <1>1
  <2> QED
    BY <1>1, <2>1, <2>2, <2>3 DEF RingIInv
<1>3. RLen' = 0
  BY <1>1 DEF RLen
<1> QED
  BY <1>2, <1>3 DEF Items
-----------------------------------------------------------------------------
\* The first and the last element are found where head and tail are.
RingEnds == nonEmpty => GetFirst = Items[1] /\ GetLast = Items[RLen]

\* GetFirst and GetLast give the ends of the sequence.
LEMMA EndsFound ==
  ASSUME RingAssumption, RingIInv
  PROVE  RingEnds
<1> SUFFICES ASSUME nonEmpty PROVE GetFirst = Items[1] /\ GetLast = Items[RLen]
  BY DEF RingEnds
<1>1. PICK n \in 1 .. cap : n = RLen
  <2>1. RLen \in 0 .. cap /\ RLen # 0 /\ cap \in Nat
    BY Lengths DEF RingAssumption, RingIInv
  <2> QED
    BY <2>1
<1>2. cap \in Nat \ {0} /\ 0 \in 0 .. n - 1 /\ n - 1 \in 0 .. n - 1
  BY <1>1 DEF RingAssumption, RingIInv
<1>3. head \in 0 .. cap - 1
  BY <1>2 DEF RingIInv
<1>4. \A i \in 0 .. n - 1 : Get(i) = buffer[Wrap(head + i, cap)]
  BY <1>1, Lengths
<1>5. \A i \in 1 .. n : Items[i] = Get(i - 1)
  BY <1>1, ItemsSeq
<1>6. Wrap(head + 0, cap) = head
  BY <1>2, <1>3 DEF Wrap
<1>7. (cap + tail - 1) % cap = Wrap(head + (n - 1), cap)
  <2>1. tail = Wrap(head + n, cap)
    BY <1>1, <1>2, Lengths
  <2> QED
    BY <1>2, <1>3, <2>1, WrapLess
<1>8. Items[1] = Get(0) /\ Items[n] = Get(n - 1)
  BY <1>1, <1>2, <1>5
<1> QED
  BY <1>1, <1>2, <1>4, <1>6, <1>7, <1>8 DEF GetFirst, GetLast

\* A buffer begins empty, as the deque does.
LEMMA RingInitially == RingAssumption /\ RingInit => RingIInv /\ D!Init
<1> SUFFICES ASSUME RingAssumption, RingInit PROVE RingIInv /\ Items = <<>>
  BY DEF D!Init
<1>1. buffer \in [0 .. cap - 1 -> Value]
  BY DEF RingInit
<1>2. RLen = 0
  BY DEF RingInit, RLen
<1> QED
  <2>1. Items = <<>>
    BY <1>2 DEF Items
  <2>2. cap = 0 /\ head = 0 /\ tail = 0 /\ 0 \in 0 .. MaxCap
    BY DEF RingInit, RingAssumption
  <2>3. ~nonEmpty /\ nonEmpty \in BOOLEAN
    BY DEF RingInit
  <2>4. RingIInv
    BY <1>1, <2>2, <2>3 DEF RingIInv
  <2> QED
    BY <2>1, <2>4

\* Every step is one of the deque, or none.
LEMMA RingStepImplements ==
  ASSUME RingAssumption, ReserveFrom > MaxCap, RingIInv, [RingNext]_ringVars
  PROVE  RingIInv' /\ [D!Next]_Items
<1>1. CASE UNCHANGED ringVars
  BY <1>1 DEF ringVars, RingIInv, Items, RLen, Get
<1>2. ASSUME NEW e \in Elem, AddFirst(e) PROVE RingIInv' /\ D!Next
  BY <1>2, AddFirstPrepends DEF D!Next, D!AddFirst
<1>3. ASSUME NEW e \in Elem, AddLast(e) PROVE RingIInv' /\ D!Next
  BY <1>3, AddLastAppends DEF D!Next, D!AddLast
<1>4. CASE RemoveFirst
  BY <1>4, RemoveFirstTail DEF D!Next, D!RemoveFirst
<1>5. CASE RemoveLast
  BY <1>5, RemoveLastCuts DEF D!Next, D!RemoveLast
<1>6. CASE Reset
  BY <1>6, ResetEmpties DEF D!Next, D!Reset
<1>7. ASSUME NEW m \in 1 .. MaxCap, Reserve(m) PROVE RingIInv' /\ Items' = Items
  BY <1>7, ReserveStays
<1> QED
  BY <1>1, <1>2, <1>3, <1>4, <1>5, <1>6, <1>7 DEF RingNext

\* The ring buffer implements the deque, and its first and last element are where
\* GetFirst and GetLast look for them, as long as Reserve is only asked for more
\* room when the buffer is full (ring_buffer.go 28-37, 70-80 and 96-105).
THEOREM ImplementsDeque ==
  ASSUME RingAssumption, ReserveFrom > MaxCap
  PROVE  RingSpec => IsDeque
<1>1. RingInit => RingIInv /\ D!Init
  BY RingInitially
<1>2. RingIInv /\ [RingNext]_ringVars => RingIInv' /\ [D!Next]_Items
  BY RingStepImplements
<1>3. RingIInv => RingEnds
  BY EndsFound
<1> QED
  BY <1>1, <1>2, <1>3, PTL DEF RingSpec, IsDeque, D!Spec, RingEnds
=============================================================================

-------------------------------- MODULE Timer --------------------------------
(***************************************************************************)
(* timeutil.Timer (pkg/util/timeutil/timer.go): a timer that is reset      *)
(* again and again, over the library's timers, which are pooled.           *)
(*                                                                         *)
(* A library timer fires by itself: it stops counting, and then sends the  *)
(* expiry of the Reset that set it, here a number, to a channel with room  *)
(* for one.                                                                *)
(***************************************************************************)
EXTENDS Integers, FiniteSets

CONSTANTS
  Clients,     \* the goroutines with a Timer of their own
  Lib,         \* the library timers
  NoTimer,     \* nil
  MaxResets    \* a bound on the resets

TimerAssumption == NoTimer \notin Lib /\ MaxResets \in Nat

VARIABLES
  step,          \* what each client is doing
  tm,            \* its Timer: the fields timer (and C) and Read
  active, sending, chan,  \* the library timers: the reset it counts down for,
                 \* the one it is about to send, and the one in its channel, or 0
  due,           \* the reset each client last made
  timerPool,     \* the Timers that wait in timerPool
  libPool,       \* the library timers that wait in timeTimerPool
  resets         \* how many resets there were

timerVars == <<step, tm, active, sending, chan, due, timerPool, libPool, resets>>

FreshTimer == [timer |-> NoTimer, Read |-> FALSE]

TimerInit ==
  /\ step = [c \in Clients |-> "none"]
  /\ tm = [c \in Clients |-> FreshTimer]
  /\ active = [r \in Lib |-> 0]
  /\ sending = [r \in Lib |-> 0]
  /\ chan = [r \in Lib |-> 0]
  /\ due = [c \in Clients |-> 0]
  /\ timerPool = {}
  /\ libPool = {}
  /\ resets = 0

\* A Timer from the pool or a new one.
NewTimer(c) ==
  /\ step[c] = "none"
  /\ \E timer \in timerPool \cup {FreshTimer} :
       /\ tm' = [tm EXCEPT ![c] = timer]
       /\ timerPool' \in {timerPool, timerPool \ {timer}}
  /\ step' = [step EXCEPT ![c] = "idle"]
  /\ UNCHANGED <<active, sending, chan, due, libPool, resets>>

Quiet(r) == active[r] = 0 /\ sending[r] = 0 /\ chan[r] = 0

\* A library timer nobody has: one that was never used or was collected.
Unused == {r \in Lib \ libPool : Quiet(r) /\ \A c \in Clients : tm[c].timer # r}

\* The library's Reset of r for the next reset of c.
Rearm(c, r) ==
  /\ resets < MaxResets
  /\ resets' = resets + 1
  /\ active' = [active EXCEPT ![r] = resets + 1]
  /\ due' = [due EXCEPT ![c] = resets + 1]

\* The first Reset: a library timer from the pool, or a new one.
ResetFirst(c) ==
  /\ step[c] = "idle"
  /\ tm[c].timer = NoTimer
  /\ \E r \in libPool \cup Unused :
       /\ Rearm(c, r)
       /\ tm' = [tm EXCEPT ![c].timer = r]
       /\ libPool' = libPool \ {r}
  /\ UNCHANGED <<step, sending, chan, timerPool>>

\* Mutant: the channel is never drained.
ResetNoDrain(c) ==
  LET r == tm[c].timer
  IN  /\ step[c] = "idle"
      /\ r # NoTimer
      /\ active' = [active EXCEPT ![r] = 0]
      /\ step' = [step EXCEPT ![c] = "rearm"]
      /\ UNCHANGED <<tm, sending, chan, due, timerPool, libPool, resets>>

\* Mutant: the channel is drained whether the expiry was read or not.
ResetAlwaysDrain(c) ==
  LET r == tm[c].timer
  IN  /\ step[c] = "idle"
      /\ r # NoTimer
      /\ active' = [active EXCEPT ![r] = 0]
      /\ step' = [step EXCEPT ![c] = IF active[r] = 0 THEN "drain" ELSE "rearm"]
      /\ UNCHANGED <<tm, sending, chan, due, timerPool, libPool, resets>>

\* A later Reset stops the library timer; if that came too late and the expiry
\* was not read, it waits for it.
ResetLater(c) ==
  LET r == tm[c].timer
  IN  /\ step[c] = "idle"
      /\ r # NoTimer
      /\ active' = [active EXCEPT ![r] = 0]
      /\ step' = [step EXCEPT ![c] =
                    IF active[r] = 0 /\ ~tm[c].Read THEN "drain" ELSE "rearm"]
      /\ UNCHANGED <<tm, sending, chan, due, timerPool, libPool, resets>>

Drain(c) ==
  LET r == tm[c].timer
  IN  /\ step[c] = "drain"
      /\ chan[r] # 0
      /\ chan' = [chan EXCEPT ![r] = 0]
      /\ step' = [step EXCEPT ![c] = "rearm"]
      /\ UNCHANGED <<tm, active, sending, due, timerPool, libPool, resets>>

ResetAgain(c) ==
  /\ step[c] = "rearm"
  /\ Rearm(c, tm[c].timer)
  /\ tm' = [tm EXCEPT ![c].Read = FALSE]
  /\ step' = [step EXCEPT ![c] = "idle"]
  /\ UNCHANGED <<sending, chan, timerPool, libPool>>

\* The client reads the channel and says so, as it must.
Receive(c) ==
  LET r == tm[c].timer
  IN  /\ step[c] = "idle"
      /\ r # NoTimer
      /\ chan[r] # 0
      /\ chan' = [chan EXCEPT ![r] = 0]
      /\ tm' = [tm EXCEPT ![c].Read = TRUE]
      /\ UNCHANGED <<step, active, sending, due, timerPool, libPool, resets>>

\* Mutant: every library timer goes back to the pool.
StopPoolsAll(c) ==
  LET r == tm[c].timer
  IN  /\ step[c] = "idle"
      /\ active' = [x \in Lib |-> IF x = r THEN 0 ELSE active[x]]
      /\ libPool' = libPool \cup ({r} \ {NoTimer})
      /\ tm' = [tm EXCEPT ![c] = FreshTimer]
      /\ timerPool' = timerPool \cup {FreshTimer}
      /\ step' = [step EXCEPT ![c] = "none"]
      /\ UNCHANGED <<sending, chan, due, resets>>

\* Stop: only a library timer that was stopped in time goes back to the pool.
StopTimer(c) ==
  LET r == tm[c].timer
      res == r # NoTimer /\ active[r] # 0
  IN  /\ step[c] = "idle"
      /\ active' = [x \in Lib |-> IF x = r THEN 0 ELSE active[x]]
      /\ libPool' = IF res THEN libPool \cup {r} ELSE libPool
      /\ tm' = [tm EXCEPT ![c] = FreshTimer]
      /\ timerPool' = timerPool \cup {FreshTimer}
      /\ step' = [step EXCEPT ![c] = "none"]
      /\ UNCHANGED <<sending, chan, due, resets>>

\* The library: a timer fires, and a timer nobody can reach is collected. A
\* pool may forget what is in it.
Fire(r) ==
  /\ active[r] # 0
  /\ sending[r] = 0
  /\ sending' = [sending EXCEPT ![r] = active[r]]
  /\ active' = [active EXCEPT ![r] = 0]
  /\ UNCHANGED <<step, tm, chan, due, timerPool, libPool, resets>>

Send(r) ==
  /\ sending[r] # 0
  /\ chan' = [chan EXCEPT ![r] = IF @ = 0 THEN sending[r] ELSE @]
  /\ sending' = [sending EXCEPT ![r] = 0]
  /\ UNCHANGED <<step, tm, active, due, timerPool, libPool, resets>>

Collect(r) ==
  /\ \A c \in Clients : tm[c].timer # r
  /\ active[r] = 0 /\ sending[r] = 0
  /\ chan[r] # 0 \/ r \in libPool
  /\ chan' = [chan EXCEPT ![r] = 0]
  /\ libPool' = libPool \ {r}
  /\ UNCHANGED <<step, tm, active, sending, due, timerPool, resets>>

Step(c) ==
  \/ NewTimer(c) \/ ResetFirst(c) \/ ResetLater(c) \/ Drain(c) \/ ResetAgain(c)
  \/ Receive(c) \/ StopTimer(c)

TimerNext == (\E c \in Clients : Step(c)) \/ (\E r \in Lib : Fire(r) \/ Send(r) \/ Collect(r))

TimerSpec == TimerInit /\ [][TimerNext]_timerVars
-----------------------------------------------------------------------------
\* A library timer has one owner: a Timer or the pool; the pooled ones do not
\* count down and their channel is empty, so that the next Timer to take one
\* does not expire with somebody else's (timer.go 96-104).
OneOwner ==
  /\ \A c, d \in Clients : tm[c].timer = tm[d].timer /\ tm[c].timer # NoTimer => c = d
  /\ \A r \in libPool : /\ Quiet(r)
                        /\ \A c \in Clients : tm[c].timer # r

\* No client reads the expiry of an earlier reset than its last, or of another
\* client's (timer.go 30-48, 70-89).
NoStaleExpiry ==
  \A c \in Clients : tm[c].timer # NoTimer /\ step[c] = "idle" /\ chan[tm[c].timer] # 0 =>
    chan[tm[c].timer] = due[c]

\* A client that sets Read whenever it has read does not wait forever in Reset:
\* what it waits for has been sent or is about to be (timer.go 32-35 and 82-84).
ResetReturns ==
  \A c \in Clients : step[c] = "drain" => chan[tm[c].timer] # 0 \/ sending[tm[c].timer] # 0

\* Timers do not disturb each other.
TimersApart == OneOwner /\ NoStaleExpiry /\ ResetReturns
=============================================================================

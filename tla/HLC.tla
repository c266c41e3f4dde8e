-------------------------------- MODULE HLC --------------------------------
(***************************************************************************)
(* The hybrid logical clock (pkg/util/hlc/hlc.go, timestamp.go), called by *)
(* several goroutines.  What is accessed atomically is one action for each *)
(* access; what a call does under the mutex is one action.                 *)
(***************************************************************************)
EXTENDS Integers

CONSTANTS
  Threads,      \* the goroutines
  Refreshers,   \* those that set the upper bound: one, in a server
  Monitors,     \* those that monitor jumps: one, as setMonitoringClockJump sees to
  Walls, Logicals, \* the wall and logical times received from others
  MaxOffset,    \* maxOffset
  Delta,        \* what RefreshHLCUpperBound adds to the wall time
  MaxInt32,     \* the largest logical time
  MaxPhys,      \* a bound on the physical clock
  MaxCalls      \* a bound on the calls

ASSUME HLCAssumption ==
  /\ Refreshers \subseteq Threads /\ Monitors \subseteq Threads
  /\ MaxOffset \in Nat /\ Delta \in Nat /\ MaxInt32 \in Nat /\ MaxPhys \in Nat /\ MaxCalls \in Nat
  /\ Walls \subseteq Nat /\ Logicals \subseteq 0 .. MaxInt32

VARIABLES
  phys, fell,   \* the physical clock, and whether it ever went back
  last,         \* lastPhysicalTime
  check,        \* forwardClockJumpCheckEnabled
  ts, bound,    \* mu.timestamp and mu.wallTimeUpperBound
  persisted,    \* what persistFn last stored
  pc, call,     \* where each goroutine is, what it calls and its locals
  dead,         \* log.Fatalf has ended the process
  highest,      \* the latest timestamp given out or taken in
  begun         \* how many calls have begun

vars == <<phys, fell, last, check, ts, bound, persisted, pc, call, dead, highest, begun>>
physical == <<phys, fell>>
shared   == <<last, check>>
locked   == <<ts, bound, persisted, highest>>

Remote == [wall : Walls, logical : Logicals]

Less(a, b) == a.wall < b.wall \/ (a.wall = b.wall /\ a.logical < b.logical)
ZeroTs == [wall |-> 0, logical |-> 0]
NoCall == [op |-> "none"]

Init ==
  /\ phys = 1 /\ fell = FALSE
  /\ last = 0 /\ check = FALSE
  /\ ts = ZeroTs
  /\ bound = 0 /\ persisted = 0
  /\ pc = [t \in Threads |-> "idle"]
  /\ call = [t \in Threads |-> NoCall]
  /\ dead = FALSE
  /\ highest = ZeroTs
  /\ begun = 0

\* A call of op; rt is the timestamp received, enable what the monitor is told;
\* oldTime, newTime, lastPhysTime and hlcUpperBound are still 0.
Call(op, rt, enable) ==
  [op |-> op, rt |-> rt, enable |-> enable, old |-> 0, new |-> 0, seen |-> 0, limit |-> 0]
Calls ==
  {Call("Now", ZeroTs, FALSE)}
    \cup {Call("Update", rt, FALSE) : rt \in Remote}
    \cup {Call("UpdateAndCheckMaxOffset", rt, FALSE) : rt \in Remote}
BoundCalls   == {Call(op, ZeroTs, FALSE) : op \in {"RefreshHLCUpperBound", "ResetHLCUpperBound"}}
MonitorCalls == {Call("Monitor", ZeroTs, enable) : enable \in BOOLEAN}

\* A call begins. Update does not read the physical clock; neither does Reset.
Begin(t) ==
  /\ pc[t] = "idle" /\ ~dead
  /\ begun < MaxCalls
  /\ begun' = begun + 1
  /\ \E c \in Calls \cup (IF t \in Refreshers THEN BoundCalls ELSE {})
                  \cup (IF t \in Monitors THEN MonitorCalls ELSE {}) :
       /\ call' = [call EXCEPT ![t] = c]
       /\ pc' = [pc EXCEPT ![t] = CASE c.op = "Update" -> "lock"
                                    [] c.op = "ResetHLCUpperBound" -> "persist"
                                    [] OTHER -> "load"]
  /\ UNCHANGED <<physical, shared, locked, dead>>

At(t, step) == pc[t] = step /\ ~dead

\* The goroutine goes on to step, or returns and forgets its locals.
Goto(t, step, c) ==
  /\ pc' = [pc EXCEPT ![t] = step]
  /\ call' = [call EXCEPT ![t] = IF step = "idle" THEN NoCall ELSE c]
-----------------------------------------------------------------------------
(* getPhysicalClockAndCheck *)

Load(t) ==
  /\ At(t, "load")
  /\ Goto(t, "read", [call[t] EXCEPT !.old = last, !.seen = last])
  /\ UNCHANGED <<physical, shared, locked, dead, begun>>

Read(t) ==
  /\ At(t, "read")
  /\ Goto(t, "cas", [call[t] EXCEPT !.new = phys])
  /\ UNCHANGED <<physical, shared, locked, dead, begun>>

\* Mutant: a store in place of the compare-and-swap.
CasStore(t) ==
  /\ At(t, "cas")
  /\ last' = call[t].new
  /\ Goto(t, "reload", call[t])
  /\ UNCHANGED <<physical, check, locked, dead, begun>>

Cas(t) ==
  /\ At(t, "cas")
  /\ last' = IF last = call[t].seen THEN call[t].new ELSE last
  /\ Goto(t, "reload", call[t])
  /\ UNCHANGED <<physical, check, locked, dead, begun>>

\* Mutant: the loop retries with the value it loaded at first.
ReloadForgets(t) ==
  /\ At(t, "reload")
  /\ Goto(t, IF last >= call[t].new THEN "check" ELSE "cas", call[t])
  /\ UNCHANGED <<physical, shared, locked, dead, begun>>

Reload(t) ==
  /\ At(t, "reload")
  /\ Goto(t, IF last >= call[t].new THEN "check" ELSE "cas", [call[t] EXCEPT !.seen = last])
  /\ UNCHANGED <<physical, shared, locked, dead, begun>>

\* checkPhysicalClock, and what the caller goes on with. Jumps backwards are
\* only counted.
Checked(c) ==
  CASE c.op = "Monitor" -> "enable"
    [] c.op = "UpdateAndCheckMaxOffset" /\ MaxOffset > 0 /\ c.rt.wall - c.new > MaxOffset -> "idle"
    [] OTHER -> "lock"

Check(t) ==
  LET c == call[t]
  IN  /\ At(t, "check")
      /\ dead' = (check /\ c.old # 0 /\ MaxOffset \div 2 <= c.new - c.old)
      /\ Goto(t, Checked(c), c)
      /\ UNCHANGED <<physical, shared, locked, begun>>

\* setForwardJumpCheckEnabled, by the goroutine that monitors the clock. (When
\* the check is switched off the goroutine does not read the clock first; a
\* reading more is what its ticker does at any time.)
Enable(t) ==
  /\ At(t, "enable")
  /\ check' = call[t].enable
  /\ Goto(t, "idle", call[t])
  /\ UNCHANGED <<physical, last, locked, dead, begun>>
-----------------------------------------------------------------------------
(* Under the mutex. *)

\* int32 arithmetic.
NextLogical == IF ts.logical = MaxInt32 THEN -MaxInt32 - 1 ELSE ts.logical + 1

\* enforceWallTimeWithinBoundLocked; stamp is given out or was taken in.
Enforce(stamp) ==
  /\ dead' = (bound # 0 /\ ts'.wall > bound)
  /\ highest' = IF Less(highest, stamp) THEN stamp ELSE highest

\* Mutant: an equal wall time is taken for an earlier one.
TickStrict(t) ==
  ts' = IF ts.wall > call[t].new
        THEN [ts EXCEPT !.logical = NextLogical]
        ELSE [wall |-> call[t].new, logical |-> 0]

Tick(t) ==
  ts' = IF ts.wall >= call[t].new
        THEN [ts EXCEPT !.logical = NextLogical]
        ELSE [wall |-> call[t].new, logical |-> 0]

Now(t) ==
  /\ At(t, "lock")
  /\ call[t].op \in {"Now", "RefreshHLCUpperBound"}
  /\ Tick(t)
  /\ Enforce(ts')
  /\ Goto(t, IF call[t].op = "Now" THEN "idle" ELSE "persist",
          [call[t] EXCEPT !.limit = ts'.wall + Delta])
  /\ UNCHANGED <<physical, shared, bound, persisted, begun>>

\* Mutant: the logical time is taken over whatever the wall times are.
MergeLogical(rt) ==
  ts' = [wall |-> IF rt.wall > ts.wall THEN rt.wall ELSE ts.wall, logical |-> rt.logical]

Merge(rt) ==
  ts' = CASE rt.wall > ts.wall -> rt
          [] rt.wall = ts.wall /\ rt.logical > ts.logical -> [ts EXCEPT !.logical = rt.logical]
          [] OTHER -> ts

\* Update, called on the remote timestamp or, when that is behind it, on the
\* physical clock.
Update(t) ==
  /\ At(t, "lock")
  /\ call[t].op \in {"Update", "UpdateAndCheckMaxOffset"}
  /\ Merge(IF call[t].op = "UpdateAndCheckMaxOffset" /\ call[t].new > call[t].rt.wall
           THEN [wall |-> call[t].new, logical |-> 0]
           ELSE call[t].rt)
  /\ Enforce(call[t].rt)
  /\ Goto(t, "idle", call[t])
  /\ UNCHANGED <<physical, shared, bound, persisted, begun>>
-----------------------------------------------------------------------------
(* persistHLCUpperBound *)

\* Mutant: an error is ignored.
PersistIgnoresError(t) ==
  /\ At(t, "persist")
  /\ persisted' \in {persisted, call[t].limit}
  /\ Goto(t, "publish", call[t])
  /\ UNCHANGED <<physical, shared, ts, bound, dead, highest, begun>>

\* An error leaves open whether the value was stored.
Persist(t) ==
  /\ At(t, "persist")
  /\ \/ persisted' = call[t].limit /\ Goto(t, "publish", call[t])
     \/ persisted' \in {persisted, call[t].limit} /\ Goto(t, "idle", call[t])
  /\ UNCHANGED <<physical, shared, ts, bound, dead, highest, begun>>

Publish(t) ==
  /\ At(t, "publish")
  /\ bound' = call[t].limit
  /\ Goto(t, "idle", call[t])
  /\ UNCHANGED <<physical, shared, ts, persisted, dead, highest, begun>>
-----------------------------------------------------------------------------
\* The physical clock moves on, or is set back, at most once in a run.
Advance ==
  /\ \E p \in 1 .. MaxPhys :
       /\ p = phys + 1 \/ (p = phys - 1 /\ ~fell)
       /\ phys' = p
       /\ fell' = (fell \/ p < phys)
  /\ ~dead
  /\ UNCHANGED <<shared, locked, pc, call, dead, begun>>

Step(t) ==
  \/ Load(t) \/ Read(t) \/ Cas(t) \/ Reload(t) \/ Check(t) \/ Enable(t)
  \/ Now(t) \/ Update(t) \/ Persist(t) \/ Publish(t)

Next == Advance \/ \E t \in Threads : Begin(t) \/ Step(t)

\* A goroutine that is in a call goes on.
Fairness == \A t \in Threads : WF_vars(Step(t))

Spec == Init /\ [][Next]_vars /\ Fairness
-----------------------------------------------------------------------------
\* The goroutine leaves the critical section and the process lives.
Leaves(t) == pc[t] = "lock" /\ pc'[t] # "lock" /\ ~dead'

\* Every timestamp Now gives out is later than all that were given out and
\* taken in before, however the physical clock moves and in whatever order the
\* goroutines that read it get the lock (hlc.go
\* 277-294 and 330-352).
Causality ==
  [][\A t \in Threads :
       Leaves(t) /\ call[t].op \in {"Now", "RefreshHLCUpperBound"} => Less(highest, ts')]_vars

\* While an upper bound is in force, no timestamp is given out or taken in
\* beyond the bound that was stored for the next start of the server (hlc.go
\* 76-80 and 407-415).
CoveredByPersisted ==
  [][\A t \in Threads : Leaves(t) /\ bound # 0 /\ persisted # 0 => ts'.wall <= persisted]_vars

\* The physical time that jumps are measured from does not go back unless the
\* clock does: of two goroutines the one with the later time wins (hlc.go
\* 228-245).
LastFollows == [][fell' \/ last <= last']_vars

\* The timestamp of the clock never goes back.
NeverBack == [][~Less(ts', ts)]_vars

\* The loop ends, and with it every call, unless the process does. (While the
\* clock is behind what a goroutine has read, the others can undo its update as
\* often as it tries.)
CallsEnd == \A t \in Threads : pc[t] # "idle" ~> pc[t] = "idle" \/ dead \/ fell
=============================================================================

----------------------------- MODULE HLCProofs -----------------------------
(***************************************************************************)
(* Proofs about the hybrid logical clock, for every number of goroutines   *)
(* and of calls, and every movement of the physical clock.                 *)
(***************************************************************************)
EXTENDS HLC, TLAPS

USE HLCAssumption

Steps == {"idle", "load", "read", "cas", "reload", "check", "enable", "lock", "persist", "publish"}
Stamp == [wall : Nat, logical : Int]
Ops   == {"Now", "Update", "UpdateAndCheckMaxOffset", "RefreshHLCUpperBound",
          "ResetHLCUpperBound", "Monitor"}
CallRecord == [op : Ops, rt : Stamp, enable : BOOLEAN, old : Nat, new : Nat, seen : Nat, limit : Nat]

TypeOK ==
  /\ phys \in Nat /\ fell \in BOOLEAN
  /\ last \in Nat /\ check \in BOOLEAN
  /\ ts \in Stamp /\ highest \in Stamp
  /\ bound \in Nat /\ persisted \in Nat
  /\ pc \in [Threads -> Steps]
  /\ call \in [Threads -> CallRecord \cup {NoCall}]
  /\ \A t \in Threads : pc[t] # "idle" => call[t] \in CallRecord
  /\ dead \in BOOLEAN

\* The logical time has not used up its 32 bits.
Room == ts.logical < MaxInt32

\* A goroutine measures from a time that is not later than the one it has read.
LastInv ==
  ~fell => /\ last <= phys
           /\ \A t \in Threads :
                /\ pc[t] = "read" => call[t].seen <= phys
                /\ pc[t] \in {"cas", "reload"} => call[t].seen <= call[t].new /\ call[t].new <= phys

\* The clock is not behind what it gave out or took in.
HighestInv == ~Less(ts, highest)

\* Who sets the bound, and what it finds: the bound in force is not beyond the one
\* that was stored, nor beyond the one that is about to be stored.
RefreshInv ==
  \A t \in Threads :
    /\ pc[t] # "idle" /\ call[t].op \in {"RefreshHLCUpperBound", "ResetHLCUpperBound"} => t \in Refreshers
    /\ pc[t] \in {"persist", "publish"} => /\ call[t].op \in {"RefreshHLCUpperBound", "ResetHLCUpperBound"}
                                           /\ call[t].limit = 0 \/ bound <= call[t].limit
                                           /\ call[t].limit <= ts.wall + Delta
    /\ pc[t] = "publish" => persisted = call[t].limit
BoundInv ==
  /\ bound <= ts.wall + Delta
  /\ bound = 0 \/ persisted = 0 \/ bound <= persisted
-----------------------------------------------------------------------------
\* The calls that begin, and what Goto leaves.
LEMMA CallTypes ==
  \A c \in Calls \cup BoundCalls \cup MonitorCalls : c \in CallRecord /\ c.limit = 0
<1> SUFFICES ASSUME NEW c \in Calls \cup BoundCalls \cup MonitorCalls
             PROVE  c \in CallRecord /\ c.limit = 0
  OBVIOUS
<1>1. ZeroTs \in Stamp /\ \A rt \in Remote : rt \in Stamp
  <2>1. ASSUME NEW rt \in Remote PROVE rt \in Stamp
    <3>1. rt = [wall |-> rt.wall, logical |-> rt.logical] /\ rt.wall \in Walls /\ rt.logical \in Logicals
      BY DEF Remote
    <3>2. rt.wall \in Nat /\ rt.logical \in Int
      BY <3>1
    <3> QED
      BY <3>1, <3>2 DEF Stamp
  <2> QED
    BY <2>1 DEF ZeroTs, Stamp
<1>2. ASSUME NEW op \in Ops, NEW rt \in Stamp, NEW enable \in BOOLEAN, c = Call(op, rt, enable)
      PROVE  c \in CallRecord /\ c.limit = 0
  BY <1>2 DEF Call, CallRecord
<1>3. CASE c \in Calls
  BY <1>1, <1>2, <1>3, Zenon DEF Calls, Ops
<1>4. CASE c \in BoundCalls
  BY <1>1, <1>2, <1>4, Zenon DEF BoundCalls, Ops
<1>5. CASE c \in MonitorCalls
  BY <1>1, <1>2, <1>5, Zenon DEF MonitorCalls, Ops
<1> QED
  BY <1>3, <1>4, <1>5

\* A thread that moves on within a call keeps the types.
LEMMA GotoTypes ==
  ASSUME TypeOK, NEW t \in Threads, NEW s \in Steps, NEW c, c \in CallRecord, Goto(t, s, c)
  PROVE  /\ pc' \in [Threads -> Steps]
         /\ call' \in [Threads -> CallRecord \cup {NoCall}]
         /\ \A u \in Threads : pc'[u] # "idle" => call'[u] \in CallRecord
         /\ \A u \in Threads \ {t} : pc'[u] = pc[u] /\ call'[u] = call[u]
         /\ pc'[t] = s /\ (s # "idle" => call'[t] = c)
BY DEF TypeOK, Goto

\* The types, which the invariants rest on: every step of every call keeps them.
LEMMA Types == Spec => []TypeOK
<1> USE DEF Steps, Stamp, Ops, CallRecord
<1>1. Init => TypeOK
  <2> SUFFICES ASSUME Init PROVE TypeOK
    OBVIOUS
  <2>1. ts \in Stamp /\ highest \in Stamp
    BY DEF Init, ZeroTs
  <2>2. /\ pc \in [Threads -> Steps] /\ call \in [Threads -> CallRecord \cup {NoCall}]
        /\ \A t \in Threads : pc[t] = "idle"
    <3> HIDE DEF CallRecord
    <3> QED
      BY DEF Init
  <2> QED
    BY <2>1, <2>2 DEF Init, TypeOK
<1>2. TypeOK /\ [Next]_vars => TypeOK'
  <2> SUFFICES ASSUME TypeOK, [Next]_vars PROVE TypeOK'
    OBVIOUS
  <2> USE DEF TypeOK
  <2>1. CASE Advance
    BY <2>1 DEF Advance, shared, locked
  <2>2. ASSUME NEW t \in Threads, Begin(t) PROVE TypeOK'
    <3>1. PICK c \in Calls \cup BoundCalls \cup MonitorCalls, s \in {"lock", "persist", "load"} :
            call' = [call EXCEPT ![t] = c] /\ pc' = [pc EXCEPT ![t] = s]
      BY <2>2, Zenon DEF Begin
    <3>2. c \in CallRecord
      BY CallTypes
    <3> QED
      BY <3>1, <3>2, <2>2 DEF Begin, physical, shared, locked
  <2>3. ASSUME NEW t \in Threads, Load(t) PROVE TypeOK'
    <3>1. [call[t] EXCEPT !.old = last, !.seen = last] \in CallRecord
      BY <2>3 DEF Load, At
    <3>2. PICK s \in Steps : Goto(t, s, [call[t] EXCEPT !.old = last, !.seen = last])
      BY <2>3 DEF Load
    <3> HIDE DEF Steps, CallRecord
    <3> QED
      BY <3>1, <3>2, GotoTypes, <2>3 DEF Load, At, physical, shared, locked
  <2>4. ASSUME NEW t \in Threads, Read(t) PROVE TypeOK'
    <3>1. [call[t] EXCEPT !.new = phys] \in CallRecord
      BY <2>4 DEF Read, At
    <3>2. PICK s \in Steps : Goto(t, s, [call[t] EXCEPT !.new = phys])
      BY <2>4 DEF Read
    <3> HIDE DEF Steps, CallRecord
    <3> QED
      BY <3>1, <3>2, GotoTypes, <2>4 DEF Read, At, physical, shared, locked
  <2>5. ASSUME NEW t \in Threads, Cas(t) PROVE TypeOK'
    <3>1. call[t] \in CallRecord /\ last' \in Nat
      BY <2>5 DEF Cas, At
    <3>2. PICK s \in Steps : Goto(t, s, call[t])
      BY <2>5 DEF Cas
    <3> HIDE DEF Steps, CallRecord
    <3> QED
      BY <3>1, <3>2, GotoTypes, <2>5 DEF Cas, At, physical, locked
  <2>6. ASSUME NEW t \in Threads, Reload(t) PROVE TypeOK'
    <3>1. [call[t] EXCEPT !.seen = last] \in CallRecord
      BY <2>6 DEF Reload, At
    <3>2. PICK s \in Steps : Goto(t, s, [call[t] EXCEPT !.seen = last])
      BY <2>6 DEF Reload
    <3> HIDE DEF Steps, CallRecord
    <3> QED
      BY <3>1, <3>2, GotoTypes, <2>6 DEF Reload, At, physical, shared, locked
  <2>7. ASSUME NEW t \in Threads, Check(t) PROVE TypeOK'
    <3>1. call[t] \in CallRecord
      BY <2>7 DEF Check, At
    <3>2. PICK s \in Steps : Goto(t, s, call[t])
      BY <2>7 DEF Check, Checked
    <3> HIDE DEF Steps, CallRecord
    <3> QED
      BY <3>1, <3>2, GotoTypes, <2>7 DEF Check, At, physical, shared, locked
  <2>8. ASSUME NEW t \in Threads, Enable(t) PROVE TypeOK'
    <3>1. call[t] \in CallRecord /\ check' \in BOOLEAN
      BY <2>8 DEF Enable, At
    <3>2. PICK s \in Steps : Goto(t, s, call[t])
      BY <2>8 DEF Enable
    <3> HIDE DEF Steps, CallRecord
    <3> QED
      BY <3>1, <3>2, GotoTypes, <2>8 DEF Enable, At, physical, locked
  <2>9. ASSUME NEW t \in Threads, Now(t) PROVE TypeOK'
    <3>1. call[t] \in CallRecord
      BY <2>9 DEF Now, At
    <3>2. ts' \in Stamp
      BY <3>1, <2>9 DEF Now, Tick, NextLogical
    <3>3. highest' \in Stamp /\ dead' \in BOOLEAN
      BY <3>2, <2>9 DEF Now, Enforce
    <3>4. [call[t] EXCEPT !.limit = ts'.wall + Delta] \in CallRecord
      BY <3>1, <3>2
    <3>5. PICK s \in Steps : Goto(t, s, [call[t] EXCEPT !.limit = ts'.wall + Delta])
      BY <2>9 DEF Now
    <3> HIDE DEF Steps, CallRecord, Stamp
    <3> QED
      BY <3>2, <3>3, <3>4, <3>5, GotoTypes, <2>9 DEF Now, physical, shared
  <2>10. ASSUME NEW t \in Threads, Update(t) PROVE TypeOK'
    <3>1. call[t] \in CallRecord
      BY <2>10 DEF Update, At
    <3>2. PICK rt \in Stamp : Merge(rt)
      BY <3>1, <2>10 DEF Update
    <3>3. ts' \in Stamp
      BY <3>2 DEF Merge
    <3>4. highest' \in Stamp /\ dead' \in BOOLEAN
      BY <3>1, <3>3, <2>10 DEF Update, Enforce
    <3>5. Goto(t, "idle", call[t])
      BY <2>10 DEF Update
    <3> HIDE DEF CallRecord, Stamp
    <3> QED
      BY <3>1, <3>3, <3>4, <3>5, GotoTypes, <2>10 DEF Update, physical, shared
  <2>11. ASSUME NEW t \in Threads, Persist(t) PROVE TypeOK'
    <3>1. call[t] \in CallRecord
      BY <2>11 DEF Persist, At
    <3>2. persisted' \in Nat /\ \E s \in {"publish", "idle"} : Goto(t, s, call[t])
      BY <3>1, <2>11 DEF Persist
    <3> HIDE DEF CallRecord
    <3> QED
      BY <3>1, <3>2, GotoTypes, <2>11 DEF Persist, physical, shared
  <2>12. ASSUME NEW t \in Threads, Publish(t) PROVE TypeOK'
    <3>1. call[t] \in CallRecord
      BY <2>12 DEF Publish, At
    <3>2. bound' \in Nat /\ Goto(t, "idle", call[t])
      BY <3>1, <2>12 DEF Publish
    <3> HIDE DEF CallRecord
    <3> QED
      BY <3>1, <3>2, GotoTypes, <2>12 DEF Publish, physical, shared
  <2>13. CASE UNCHANGED vars
    BY <2>13 DEF vars
  <2> QED
    BY <2>1, <2>2, <2>3, <2>4, <2>5, <2>6, <2>7, <2>8, <2>9, <2>10, <2>11, <2>12, <2>13 DEF Next, Step
<1> QED
  BY <1>1, <1>2, PTL DEF Spec
-----------------------------------------------------------------------------
\* A begun call goes to a step that reads no clock yet, and sets no bound unless
\* its goroutine may.
LEMMA BeginMoves ==
  ASSUME TypeOK, NEW t \in Threads, Begin(t)
  PROVE  \E c \in Calls \cup BoundCalls \cup MonitorCalls, s \in {"lock", "persist", "load"} :
           /\ pc' = [pc EXCEPT ![t] = s] /\ call' = [call EXCEPT ![t] = c]
           /\ c \in CallRecord /\ c.limit = 0
           /\ \A u \in Threads \ {t} : pc'[u] = pc[u] /\ call'[u] = call[u]
           /\ pc'[t] = s /\ call'[t] = c
<1>1. PICK c \in Calls \cup BoundCalls \cup MonitorCalls, s \in {"lock", "persist", "load"} :
        call' = [call EXCEPT ![t] = c] /\ pc' = [pc EXCEPT ![t] = s]
  BY Zenon DEF Begin
<1>2. c \in CallRecord /\ c.limit = 0
  BY CallTypes
<1>3. /\ \A u \in Threads \ {t} : pc'[u] = pc[u] /\ call'[u] = call[u]
      /\ pc'[t] = s /\ call'[t] = c
  BY <1>1 DEF TypeOK
<1> QED
  BY <1>1, <1>2, <1>3, Zenon

\* No step moves the last reading back unless the clock fell (hlc.go 227-239).
LEMMA LastStep ==
  ASSUME TypeOK, LastInv, [Next]_vars
  PROVE  LastInv' /\ (fell' \/ last <= last')
<1>1. CASE Advance
  <2>1. phys' \in Nat /\ (fell' \/ phys <= phys') /\ (~fell' => ~fell)
    <3>1. PICK p \in 1 .. MaxPhys : phys' = p /\ fell' = (fell \/ p < phys)
      BY <1>1 DEF Advance
    <3>2. phys \in Nat /\ p \in Nat
      BY DEF TypeOK
    <3>3. (fell' <=> fell \/ p < phys)
      BY <3>1 DEF TypeOK
    <3> QED
      BY <3>1, <3>2, <3>3
  <2>2. UNCHANGED <<last, pc, call>>
    BY <1>1 DEF Advance, shared
  <2>3. ASSUME NEW t \in Threads, pc[t] \in {"read", "cas", "reload"}
        PROVE  call[t].seen \in Nat /\ call[t].new \in Nat
    BY <2>3 DEF TypeOK, CallRecord
  <2> QED
    BY <2>1, <2>2, <2>3 DEF LastInv, TypeOK
<1>2. ASSUME NEW t \in Threads, Begin(t) PROVE LastInv' /\ last' = last
  <2>1. UNCHANGED <<phys, fell, last>>
    BY <1>2 DEF Begin, physical, shared
  <2> QED
    BY <1>2, <2>1, BeginMoves DEF LastInv
<1>3. ASSUME NEW t \in Threads, NEW c, c \in CallRecord, NEW s \in Steps, Goto(t, s, c),
             UNCHANGED <<physical, last>>,
             s = "read" => (~fell => c.seen <= phys),
             s \in {"cas", "reload"} => (~fell => c.seen <= c.new /\ c.new <= phys)
      PROVE  LastInv' /\ last' = last
  <2>1. UNCHANGED <<phys, fell, last>>
    BY <1>3 DEF physical
  <2> QED
    BY <1>3, <2>1, GotoTypes DEF LastInv
<1>4. ASSUME NEW t \in Threads, Load(t) PROVE LastInv' /\ last' = last
  <2>1. [call[t] EXCEPT !.old = last, !.seen = last] \in CallRecord
    BY <1>4 DEF Load, At, TypeOK, CallRecord
  <2>2. Goto(t, "read", [call[t] EXCEPT !.old = last, !.seen = last]) /\ UNCHANGED <<physical, last>>
    BY <1>4 DEF Load, shared
  <2>3. [call[t] EXCEPT !.old = last, !.seen = last].seen = last
    BY <1>4 DEF Load, At, TypeOK, CallRecord
  <2> QED
    BY <1>3, <2>1, <2>2, <2>3 DEF LastInv, Steps
<1>5. ASSUME NEW t \in Threads, Read(t) PROVE LastInv' /\ last' = last
  <2>1. [call[t] EXCEPT !.new = phys] \in CallRecord
    BY <1>5 DEF Read, At, TypeOK, CallRecord
  <2>2. Goto(t, "cas", [call[t] EXCEPT !.new = phys]) /\ UNCHANGED <<physical, last>>
    BY <1>5 DEF Read, shared
  <2>3. /\ [call[t] EXCEPT !.new = phys].seen = call[t].seen
        /\ [call[t] EXCEPT !.new = phys].new = phys
    BY <1>5 DEF Read, At, TypeOK, CallRecord
  <2>4. ~fell => call[t].seen <= phys
    BY <1>5 DEF Read, At, LastInv
  <2>5. phys <= phys
    BY DEF TypeOK
  <2> QED
    BY <1>3, <2>1, <2>2, <2>3, <2>4, <2>5 DEF Steps
<1>6. ASSUME NEW t \in Threads, Cas(t) PROVE LastInv' /\ (fell' \/ last <= last')
  <2>1. /\ call[t] \in CallRecord /\ Goto(t, "reload", call[t])
        /\ UNCHANGED <<phys, fell>>
        /\ last' = IF last = call[t].seen THEN call[t].new ELSE last
    BY <1>6 DEF Cas, At, TypeOK, physical
  <2>2. last \in Nat /\ call[t].seen \in Nat /\ call[t].new \in Nat
    BY <2>1 DEF TypeOK, CallRecord
  <2>3. ~fell => last <= last' /\ last' <= phys /\ call[t].seen <= call[t].new /\ call[t].new <= phys
    BY <1>6, <2>1, <2>2 DEF Cas, At, LastInv
  <2>4. /\ \A u \in Threads \ {t} : pc'[u] = pc[u] /\ call'[u] = call[u]
        /\ pc'[t] = "reload" /\ call'[t] = call[t]
    BY <2>1, GotoTypes DEF Steps
  <2> QED
    BY <2>1, <2>3, <2>4 DEF LastInv
<1>7. ASSUME NEW t \in Threads, Reload(t) PROVE LastInv' /\ last' = last
  <2>1. call[t] \in CallRecord
    BY <1>7 DEF Reload, At, TypeOK
  <2> DEFINE c == [call[t] EXCEPT !.seen = last]
  <2>2. c \in CallRecord /\ c.seen = last /\ c.new = call[t].new
    BY <2>1 DEF TypeOK, CallRecord
  <2>3. last \in Nat /\ c.new \in Nat
    BY <2>2 DEF TypeOK, CallRecord
  <2>4. Goto(t, IF last >= c.new THEN "check" ELSE "cas", c) /\ UNCHANGED <<physical, last>>
    BY <1>7, <2>2 DEF Reload, shared
  <2>5. ~fell => c.new <= phys
    BY <1>7, <2>2 DEF Reload, At, LastInv
  <2> HIDE DEF c
  <2>6. CASE last >= c.new
    BY <1>3, <2>2, <2>4, <2>6 DEF Steps
  <2>7. CASE ~(last >= c.new)
    <3>1. c.seen <= c.new /\ Goto(t, "cas", c)
      BY <2>2, <2>3, <2>4, <2>7
    <3> QED
      BY <1>3, <2>2, <2>4, <2>5, <3>1 DEF Steps
  <2> QED
    BY <2>6, <2>7
<1>8. ASSUME NEW t \in Threads,
             Check(t) \/ Enable(t) \/ Now(t) \/ Update(t) \/ Persist(t) \/ Publish(t)
      PROVE  LastInv' /\ last' = last
  <2>1. UNCHANGED <<physical, last>> /\ pc[t] # "idle" /\ call[t] \in CallRecord
    BY <1>8 DEF Check, Enable, Now, Update, Persist, Publish, At, shared, TypeOK
  <2>2. PICK s \in {"idle", "enable", "lock", "persist", "publish"}, c \in CallRecord : Goto(t, s, c)
    <3>1. CASE Check(t)
      BY <3>1, <2>1 DEF Check, Checked
    <3>2. CASE Now(t)
      <4>1. ts'.wall + Delta \in Nat
        BY <1>8, <3>2 DEF Now, Tick, At, TypeOK, Stamp, CallRecord
      <4>2. [call[t] EXCEPT !.limit = ts'.wall + Delta] \in CallRecord
        BY <2>1, <4>1 DEF CallRecord
      <4> QED
        BY <3>2, <4>2 DEF Now
    <3>3. CASE Enable(t) \/ Update(t) \/ Publish(t)
      BY <3>3, <2>1 DEF Enable, Update, Publish
    <3>4. CASE Persist(t)
      BY <3>4, <2>1 DEF Persist
    <3> QED
      BY <1>8, <3>1, <3>2, <3>3, <3>4
  <2> QED
    BY <1>3, <2>1, <2>2 DEF Steps
<1>9. CASE UNCHANGED vars
  BY <1>9 DEF vars, LastInv, TypeOK
<1>10. last <= last
  BY DEF TypeOK
<1> QED
  BY <1>1, <1>2, <1>4, <1>5, <1>6, <1>7, <1>8, <1>9, <1>10 DEF Next, Step

\* The reading that jumps of the clock are measured from does not go back unless
\* the clock did, whichever goroutine wins the compare-and-swap (hlc.go 228-245).
THEOREM LastFollowed == Spec => LastFollows
<1>1. Init => LastInv
  BY DEF Init, LastInv
<1>2. TypeOK /\ LastInv /\ [Next]_vars => LastInv' /\ (fell' \/ last <= last')
  BY LastStep
<1>3. [](TypeOK /\ LastInv) /\ [][Next]_vars => LastFollows
  BY <1>2, PTL DEF LastFollows
<1> QED
  BY <1>1, <1>2, <1>3, Types, PTL DEF Spec
-----------------------------------------------------------------------------
\* Timestamps are totally ordered.
LEMMA Order ==
  /\ \A a \in Stamp : ~Less(a, a)
  /\ \A a, b \in Stamp : Less(a, b) => ~Less(b, a)
  /\ \A a, b, c \in Stamp : ~Less(b, a) /\ ~Less(c, b) => ~Less(c, a)
  /\ \A a, b, c \in Stamp : ~Less(b, a) /\ Less(b, c) => Less(a, c)
BY DEF Less, Stamp

\* What a call does to the timestamp under the mutex.
LEMMA TickLater ==
  ASSUME TypeOK, Room, NEW t \in Threads, call[t] \in CallRecord, Tick(t)
  PROVE  ts' \in Stamp /\ Less(ts, ts')
<1>1. ts \in Stamp /\ call[t].new \in Nat /\ ts.logical + 1 = NextLogical
  BY DEF TypeOK, Room, NextLogical, CallRecord, Stamp
<1> QED
  BY <1>1 DEF Tick, Less, Stamp

\* Merging a remote timestamp gives one that is not earlier than either
\* (hlc.go 330-341).
LEMMA MergeNotEarlier ==
  ASSUME ts \in Stamp, NEW rt \in Stamp, Merge(rt)
  PROVE  ts' \in Stamp /\ ~Less(ts', ts) /\ ~Less(ts', rt)
BY DEF Merge, Less, Stamp

\* The steps that move the timestamp.
LEMMA OthersKeepTime ==
  ASSUME [Next]_vars
  PROVE  \/ UNCHANGED <<ts, highest>> /\ (UNCHANGED bound \/ \E t \in Threads : Publish(t))
         \/ \E t \in Threads : Now(t) \/ Update(t)
BY DEF Next, Step, Advance, Begin, Load, Read, Cas, Reload, Check, Enable, Persist, Publish, locked, vars

\* A goroutine leaves the lock by its own step.
LEMMA LeavesByItself ==
  ASSUME TypeOK, [Next]_vars, NEW t \in Threads, pc[t] = "lock", pc'[t] # "lock"
  PROVE  Now(t) \/ Update(t)
<1>1. CASE Advance \/ UNCHANGED vars
  BY <1>1 DEF Advance, vars
<1>2. ASSUME NEW u \in Threads, Begin(u) PROVE FALSE
  BY <1>2, BeginMoves DEF Begin
<1>3. ASSUME NEW u \in Threads, Step(u) PROVE u = t
  BY <1>3 DEF Step, Load, Read, Cas, Reload, Check, Enable, Now, Update, Persist, Publish, Goto, TypeOK
<1>4. CASE Step(t)
  BY <1>4 DEF Step, Load, Read, Cas, Reload, Check, Enable, Persist, Publish, At
<1> QED
  BY <1>1, <1>2, <1>3, <1>4 DEF Next

\* No step moves the timestamp back, and a Now that returns has moved it past all
\* others (hlc.go 276-291, 326-367).
LEMMA TimeStep ==
  ASSUME TypeOK, HighestInv, Room, [Next]_vars
  PROVE  /\ HighestInv' /\ ~Less(ts', ts)
         /\ \A t \in Threads :
              Leaves(t) /\ call[t].op \in {"Now", "RefreshHLCUpperBound"} => Less(highest, ts')
<1>1. ts \in Stamp /\ highest \in Stamp
  BY DEF TypeOK
<1>2. ASSUME UNCHANGED <<ts, highest>> PROVE HighestInv' /\ ~Less(ts', ts)
  BY <1>1, <1>2, Order DEF HighestInv, Less
<1>3. ASSUME NEW t \in Threads, Now(t)
      PROVE  HighestInv' /\ ~Less(ts', ts) /\ Less(highest, ts')
  <2>1. Tick(t) /\ call[t] \in CallRecord /\ highest' = IF Less(highest, ts') THEN ts' ELSE highest
    BY <1>3 DEF Now, Enforce, At, TypeOK
  <2>2. ts' \in Stamp /\ Less(ts, ts')
    BY <2>1, TickLater
  <2>3. Less(highest, ts') /\ ~Less(ts', ts) /\ ~Less(ts', ts')
    BY <1>1, <2>2, Order DEF HighestInv
  <2> QED
    BY <2>1, <2>3 DEF HighestInv
<1>4. ASSUME NEW t \in Threads, Update(t)
      PROVE  HighestInv' /\ ~Less(ts', ts) /\ call[t].op \notin {"Now", "RefreshHLCUpperBound"}
  <2> DEFINE rt == call[t].rt
             up == IF call[t].op = "UpdateAndCheckMaxOffset" /\ call[t].new > rt.wall
                   THEN [wall |-> call[t].new, logical |-> 0] ELSE rt
  <2>1. /\ call[t] \in CallRecord /\ Merge(up)
        /\ highest' = IF Less(highest, rt) THEN rt ELSE highest
    BY <1>4 DEF Update, Enforce, At, TypeOK
  <2>2. rt \in Stamp /\ up \in Stamp /\ ~Less(up, rt)
    BY <2>1 DEF CallRecord, Stamp, Less
  <2>3. call[t].op \notin {"Now", "RefreshHLCUpperBound"}
    BY <1>4 DEF Update
  <2> HIDE DEF rt, up
  <2>4. ts' \in Stamp /\ ~Less(ts', ts) /\ ~Less(ts', up)
    BY <1>1, <2>1, <2>2, MergeNotEarlier
  <2>5. ~Less(ts', rt) /\ ~Less(ts', highest)
    BY <1>1, <2>2, <2>4, Order DEF HighestInv
  <2> QED
    BY <2>1, <2>3, <2>4, <2>5 DEF HighestInv
<1>5. ASSUME NEW t \in Threads, Leaves(t), call[t].op \in {"Now", "RefreshHLCUpperBound"}
      PROVE  Less(highest, ts')
  BY <1>3, <1>4, <1>5, LeavesByItself DEF Leaves
<1> QED
  BY <1>2, <1>3, <1>4, <1>5, OthersKeepTime

\* While the logical time has room in its 32 bits, every timestamp that Now gives
\* out is later than all that were given out or taken in before, whatever the
\* physical clock does (hlc.go 277-294 and 330-352). Without room the increment
\* wraps around (hlc.go 282).
THEOREM TimestampsIncrease == Spec /\ []Room => Causality
<1>1. Init => HighestInv
  BY DEF Init, HighestInv, Less, ZeroTs
<1>2. TypeOK /\ HighestInv /\ Room /\ [Next]_vars =>
        HighestInv' /\ \A t \in Threads :
          Leaves(t) /\ call[t].op \in {"Now", "RefreshHLCUpperBound"} => Less(highest, ts')
  BY TimeStep
<1> QED
  BY <1>1, <1>2, Types, PTL DEF Spec, Causality

\* As long as it has room, the timestamp of the clock never goes back, whatever is
\* merged into it (hlc.go 277-294 and 344-382).
THEOREM TimestampNeverBack == Spec /\ []Room => NeverBack
<1>1. Init => HighestInv
  BY DEF Init, HighestInv, Less, ZeroTs
<1>2. TypeOK /\ HighestInv /\ Room /\ [Next]_vars => HighestInv' /\ ~Less(ts', ts)
  BY TimeStep
<1> QED
  BY <1>1, <1>2, Types, PTL DEF Spec, NeverBack
-----------------------------------------------------------------------------
\* Upper bounds are set by one goroutine: of two, the one
\* that read the clock earlier could store its bound over the other's.
OneRefresher == \A r, s \in Refreshers : r = s

\* The wall time of the clock never goes back, room or not.
LEMMA WallGrows ==
  ASSUME TypeOK, [Next]_vars
  PROVE  ts'.wall \in Nat /\ ts.wall \in Nat /\ ts.wall <= ts'.wall
<1>1. ts.wall \in Nat
  BY DEF TypeOK, Stamp
<1>2. ASSUME NEW t \in Threads, Now(t) PROVE ts'.wall \in Nat /\ ts.wall <= ts'.wall
  <2>1. Tick(t) /\ call[t].new \in Nat /\ ts \in Stamp
    BY <1>2 DEF Now, At, TypeOK, CallRecord
  <2> QED
    BY <2>1 DEF Tick, Stamp
<1>3. ASSUME NEW t \in Threads, Update(t) PROVE ts'.wall \in Nat /\ ts.wall <= ts'.wall
  <2>1. call[t] \in CallRecord /\ ts \in Stamp
    BY <1>3 DEF Update, At, TypeOK
  <2>2. PICK rt \in Stamp : Merge(rt)
    BY <2>1, <1>3 DEF Update, CallRecord, Stamp
  <2> QED
    BY <2>1, <2>2 DEF Merge, Stamp
<1> QED
  BY <1>1, <1>2, <1>3, OthersKeepTime

\* Every step keeps what is in memory below what was persisted (hlc.go 389-414).
LEMMA BoundStep ==
  ASSUME OneRefresher, TypeOK, RefreshInv, BoundInv, [Next]_vars
  PROVE  RefreshInv' /\ BoundInv'
<1> DEFINE BoundOps == {"RefreshHLCUpperBound", "ResetHLCUpperBound"}
<1>1. bound \in Nat /\ persisted \in Nat /\ ts.wall \in Nat
  BY DEF TypeOK, Stamp
<1>2. ts'.wall \in Nat /\ ts.wall <= ts'.wall
  BY WallGrows
<1>3. ASSUME NEW t \in Threads, pc[t] # "idle" PROVE call[t].limit \in Nat
  BY <1>3 DEF TypeOK, CallRecord
\* A step that begins no call, and leaves the bound alone.
<1>4. ASSUME UNCHANGED <<bound, persisted, pc, call>> PROVE RefreshInv' /\ BoundInv'
  BY <1>1, <1>2, <1>3, <1>4 DEF RefreshInv, BoundInv
<1>5. ASSUME NEW t \in Threads, NEW c \in CallRecord, NEW s \in Steps, Goto(t, s, c),
             pc[t] # "idle", c.op = call[t].op, s \notin {"persist", "publish"},
             UNCHANGED <<bound, persisted>>
      PROVE  RefreshInv' /\ BoundInv'
  <2>1. /\ \A u \in Threads \ {t} : pc'[u] = pc[u] /\ call'[u] = call[u]
        /\ pc'[t] = s /\ (s # "idle" => call'[t] = c)
    BY <1>5, GotoTypes
  <2> QED
    BY <1>1, <1>2, <1>3, <1>5, <2>1 DEF RefreshInv, BoundInv
<1>6. ASSUME NEW t \in Threads, Begin(t) PROVE RefreshInv' /\ BoundInv'
  <2>1. UNCHANGED <<ts, bound, persisted>> /\ pc[t] = "idle"
    BY <1>6 DEF Begin, locked
  <2>2. PICK c \in Calls \cup (IF t \in Refreshers THEN BoundCalls ELSE {})
                          \cup (IF t \in Monitors THEN MonitorCalls ELSE {}) :
          /\ call' = [call EXCEPT ![t] = c]
          /\ pc' = [pc EXCEPT ![t] = CASE c.op = "Update" -> "lock"
                                       [] c.op = "ResetHLCUpperBound" -> "persist"
                                       [] OTHER -> "load"]
    BY <1>6 DEF Begin
  <2>3. c \in CallRecord /\ c.limit = 0
    BY CallTypes
  <2>4. c.op \in BoundOps => t \in Refreshers
    <3>1. c \in Calls \cup MonitorCalls => c.op \notin BoundOps
      <4>1. ASSUME NEW op \in {"Now", "Update", "UpdateAndCheckMaxOffset", "Monitor"},
                   NEW rt \in Remote \cup {ZeroTs}, NEW enable \in BOOLEAN, c = Call(op, rt, enable)
            PROVE  c.op \notin BoundOps
        BY <4>1 DEF Call
      <4>2. CASE c \in Calls
        BY <4>1, <4>2, Zenon DEF Calls
      <4>3. CASE c \in MonitorCalls
        BY <4>1, <4>3, Zenon DEF MonitorCalls
      <4> QED
        BY <4>2, <4>3
    <3> QED
      BY <2>2, <3>1
  <2>5. /\ \A u \in Threads \ {t} : pc'[u] = pc[u] /\ call'[u] = call[u]
        /\ call'[t] = c /\ pc'[t] # "publish"
        /\ pc'[t] = "persist" => c.op = "ResetHLCUpperBound"
    BY <2>2 DEF TypeOK
  <2> QED
    BY <1>1, <1>3, <2>1, <2>3, <2>4, <2>5 DEF RefreshInv, BoundInv
<1>7. ASSUME NEW t \in Threads, Now(t) PROVE RefreshInv' /\ BoundInv'
  <2>1. call[t] \in CallRecord /\ UNCHANGED <<bound, persisted>> /\ pc[t] = "lock"
    BY <1>7 DEF Now, At, TypeOK
  <2> DEFINE c == [call[t] EXCEPT !.limit = ts'.wall + Delta]
  <2>2. c \in CallRecord /\ c.op = call[t].op /\ c.limit = ts'.wall + Delta
    BY <1>2, <2>1 DEF CallRecord
  <2>3. /\ call[t].op \in {"Now", "RefreshHLCUpperBound"}
        /\ Goto(t, IF call[t].op = "Now" THEN "idle" ELSE "persist", c)
    BY <1>7 DEF Now
  <2> HIDE DEF c
  <2>4. CASE call[t].op = "Now"
    BY <1>5, <2>1, <2>2, <2>3, <2>4 DEF Steps
  <2>5. CASE call[t].op = "RefreshHLCUpperBound"
    <3>1. Goto(t, "persist", c)
      BY <2>3, <2>5
    <3>2. /\ \A u \in Threads \ {t} : pc'[u] = pc[u] /\ call'[u] = call[u]
          /\ pc'[t] = "persist" /\ call'[t] = c
      BY <3>1, <2>2, GotoTypes DEF Steps
    <3>3. t \in Refreshers /\ bound <= c.limit
      BY <1>1, <1>2, <2>1, <2>2, <2>5 DEF RefreshInv, BoundInv
    <3> QED
      BY <1>1, <1>2, <1>3, <2>1, <2>2, <2>5, <3>2, <3>3 DEF RefreshInv, BoundInv
  <2> QED
    BY <2>3, <2>4, <2>5
\* Only one goroutine persists or publishes.
<1>8. ASSUME NEW t \in Threads, NEW u \in Threads, pc[t] \in {"persist", "publish"},
             pc[u] \in {"persist", "publish"}
      PROVE  t = u
  BY <1>8 DEF RefreshInv, OneRefresher
<1>9. ASSUME NEW t \in Threads, Persist(t) PROVE RefreshInv' /\ BoundInv'
  <2>1. /\ call[t] \in CallRecord /\ pc[t] = "persist" /\ UNCHANGED <<ts, bound>>
        /\ persisted' \in {persisted, call[t].limit}
    BY <1>9 DEF Persist, At, TypeOK
  <2>2. PICK s \in {"publish", "idle"} : Goto(t, s, call[t]) /\ (s = "publish" => persisted' = call[t].limit)
    BY <1>9 DEF Persist
  <2>3. /\ \A u \in Threads \ {t} : pc'[u] = pc[u] /\ call'[u] = call[u]
        /\ pc'[t] = s /\ (s # "idle" => call'[t] = call[t])
    BY <2>1, <2>2, GotoTypes DEF Steps
  <2>4. \A u \in Threads \ {t} : pc[u] # "publish"
    BY <1>8, <2>1
  <2>5. BoundInv'
    BY <1>1, <1>3, <2>1 DEF RefreshInv, BoundInv
  <2> QED
    BY <1>1, <1>3, <2>1, <2>2, <2>3, <2>4, <2>5 DEF RefreshInv
<1>10. ASSUME NEW t \in Threads, Publish(t) PROVE RefreshInv' /\ BoundInv'
  <2>1. /\ call[t] \in CallRecord /\ pc[t] = "publish" /\ UNCHANGED <<ts, persisted>>
        /\ bound' = call[t].limit /\ Goto(t, "idle", call[t])
    BY <1>10 DEF Publish, At, TypeOK
  <2>2. /\ \A u \in Threads \ {t} : pc'[u] = pc[u] /\ call'[u] = call[u]
        /\ pc'[t] = "idle"
    BY <2>1, GotoTypes DEF Steps
  <2>3. \A u \in Threads \ {t} : pc[u] \notin {"persist", "publish"}
    BY <1>8, <2>1
  <2>4. BoundInv'
    BY <1>1, <1>3, <2>1 DEF RefreshInv, BoundInv
  <2> QED
    BY <2>2, <2>3, <2>4 DEF RefreshInv
<1>11. ASSUME NEW t \in Threads,
              Load(t) \/ Read(t) \/ Cas(t) \/ Reload(t) \/ Check(t) \/ Enable(t) \/ Update(t)
       PROVE  RefreshInv' /\ BoundInv'
  <2>1. UNCHANGED <<bound, persisted>> /\ pc[t] # "idle" /\ call[t] \in CallRecord
    BY <1>11 DEF Load, Read, Cas, Reload, Check, Enable, Update, At, locked, TypeOK
  <2>2. PICK s \in Steps \ {"persist", "publish"}, c \in CallRecord : Goto(t, s, c) /\ c.op = call[t].op
    <3>1. CASE Load(t)
      <4>1. /\ [call[t] EXCEPT !.old = last, !.seen = last] \in CallRecord
            /\ [call[t] EXCEPT !.old = last, !.seen = last].op = call[t].op
        BY <2>1 DEF TypeOK, CallRecord
      <4> QED
        BY <3>1, <4>1 DEF Load, Steps
    <3>2. CASE Read(t)
      <4>1. [call[t] EXCEPT !.new = phys] \in CallRecord /\ [call[t] EXCEPT !.new = phys].op = call[t].op
        BY <2>1 DEF TypeOK, CallRecord
      <4> QED
        BY <3>2, <4>1 DEF Read, Steps
    <3>3. CASE Reload(t)
      <4>1. [call[t] EXCEPT !.seen = last] \in CallRecord /\ [call[t] EXCEPT !.seen = last].op = call[t].op
        BY <2>1 DEF TypeOK, CallRecord
      <4> QED
        BY <3>3, <4>1 DEF Reload, Steps
    <3>4. CASE Check(t)
      BY <3>4, <2>1 DEF Check, Checked, Steps
    <3>5. CASE Cas(t) \/ Enable(t) \/ Update(t)
      BY <3>5, <2>1 DEF Cas, Enable, Update, Steps
    <3> QED
      BY <1>11, <3>1, <3>2, <3>3, <3>4, <3>5
  <2> QED
    BY <1>5, <2>1, <2>2
<1>12. CASE Advance \/ UNCHANGED vars
  BY <1>4, <1>12 DEF Advance, locked, vars
<1> QED
  BY <1>6, <1>7, <1>9, <1>10, <1>11, <1>12 DEF Next, Step

\* With one goroutine that sets bounds, no timestamp beyond the bound that was
\* stored for the next start is given out or taken in (hlc.go 76-80 and 407-415).
THEOREM BoundIsPersisted ==
  ASSUME OneRefresher
  PROVE  Spec => CoveredByPersisted
<1>1. Init => RefreshInv /\ BoundInv
  BY DEF Init, RefreshInv, BoundInv, ZeroTs
<1>2. TypeOK /\ RefreshInv /\ BoundInv /\ [Next]_vars => RefreshInv' /\ BoundInv'
  BY BoundStep
<1>3. TypeOK /\ BoundInv /\ [Next]_vars =>
        \A t \in Threads : Leaves(t) /\ bound # 0 /\ persisted # 0 => ts'.wall <= persisted
  <2> SUFFICES ASSUME TypeOK, BoundInv, [Next]_vars, NEW t \in Threads, Leaves(t),
                      bound # 0, persisted # 0
               PROVE  ts'.wall <= persisted
    OBVIOUS
  <2>1. Now(t) \/ Update(t)
    BY LeavesByItself DEF Leaves
  <2>2. ~(bound # 0 /\ ts'.wall > bound)
    BY <2>1 DEF Now, Update, Enforce, Leaves
  <2>3. bound \in Nat /\ persisted \in Nat /\ ts'.wall \in Nat /\ bound <= persisted
    BY WallGrows DEF TypeOK, BoundInv
  <2> QED
    BY <2>2, <2>3
<1> QED
  BY <1>1, <1>2, <1>3, Types, PTL DEF Spec, CoveredByPersisted
=============================================================================

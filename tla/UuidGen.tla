------------------------------ MODULE UuidGen ------------------------------
(***************************************************************************)
(* The generator of version 1 UUIDs (pkg/util/uuid/generator.go): the time *)
(* it was made, a clock sequence that makes up for a clock that stands     *)
(* still or goes back, and the hardware address.                           *)
(***************************************************************************)
EXTENDS Integers, Sequences

CONSTANTS
  Callers,     \* the goroutines
  Times,       \* what the clock may show: a set of numbers greater than 0
  SeqSize,     \* 2^16, the clock sequences; SetVariant keeps the last 14 bits
  RandFails,   \* whether the source of random bytes may fail
  MaxUuids     \* a bound on the calls

UuidAssumption ==
  /\ Times \subseteq Nat \ {0}
  /\ SeqSize \in Nat \ {0} /\ SeqSize % 4 = 0
  /\ RandFails \in BOOLEAN
  /\ MaxUuids \in Nat

VARIABLES
  seqOnce, hwOnce,             \* whether the sync.Onces were used up
  clockSequence, hardwareAddr,
  lastTime,
  stage, stamp,                \* where each caller is; its time and sequence
  uuids,                       \* the UUIDs returned
  calls, bumps                 \* how many calls, and increments of the sequence

genVars == <<seqOnce, hwOnce, clockSequence, hardwareAddr, lastTime, stage, stamp, uuids, calls, bumps>>

NoStamp == <<0, 0>>

GenInit ==
  /\ seqOnce = FALSE /\ hwOnce = FALSE
  /\ clockSequence = 0
  /\ hardwareAddr = "zero"
  /\ lastTime = 0
  /\ stage = [c \in Callers |-> "idle"]
  /\ stamp = [c \in Callers |-> NoStamp]
  /\ uuids = <<>>
  /\ calls = 0 /\ bumps = 0

Goto(c, s) == stage' = [stage EXCEPT ![c] = s]

\* NewV1 begins; the first call draws a clock sequence. A failure is returned,
\* and leaves the Once used up.
DrawSequence(c) ==
  /\ stage[c] = "idle" /\ calls < MaxUuids
  /\ seqOnce' = TRUE
  /\ calls' = calls + 1
  /\ \/ /\ seqOnce \/ RandFails
        /\ Goto(c, IF seqOnce THEN "time" ELSE "idle")
        /\ UNCHANGED clockSequence
     \/ /\ ~seqOnce
        /\ clockSequence' \in {0, SeqSize - 1}
        /\ Goto(c, "time")
  /\ UNCHANGED <<hwOnce, hardwareAddr, lastTime, stamp, uuids, bumps>>

\* Mutant: a clock that shows the same time again is taken for a new one.
ClockSequenceStrict(c) ==
  /\ stage[c] = "time"
  /\ \E now \in Times :
       /\ clockSequence' = IF now < lastTime THEN (clockSequence + 1) % SeqSize ELSE clockSequence
       /\ bumps' = IF now < lastTime THEN bumps + 1 ELSE bumps
       /\ lastTime' = now
       /\ stamp' = [stamp EXCEPT ![c] = <<now, clockSequence'>>]
  /\ Goto(c, "address")
  /\ UNCHANGED <<seqOnce, hwOnce, hardwareAddr, uuids, calls>>

\* Under storageMutex: the clock is read, and the sequence goes on if the time
\* is not later than the last.
ClockSequence(c) ==
  /\ stage[c] = "time"
  /\ \E now \in Times :
       /\ clockSequence' = IF now <= lastTime THEN (clockSequence + 1) % SeqSize ELSE clockSequence
       /\ bumps' = IF now <= lastTime THEN bumps + 1 ELSE bumps
       /\ lastTime' = now
       /\ stamp' = [stamp EXCEPT ![c] = <<now, clockSequence'>>]
  /\ Goto(c, "address")
  /\ UNCHANGED <<seqOnce, hwOnce, hardwareAddr, uuids, calls>>

\* getHardwareAddr, and the UUID is put together.
Return(c) ==
  /\ stage[c] = "address"
  /\ hwOnce' = TRUE
  /\ \/ /\ hardwareAddr' \in IF hwOnce THEN {hardwareAddr} ELSE {"device", "random"}
        /\ uuids' = Append(uuids, [time |-> stamp[c][1], seq |-> stamp[c][2] % (SeqSize \div 4),
                                   addr |-> hardwareAddr'])
     \/ /\ ~hwOnce /\ RandFails
        /\ UNCHANGED <<hardwareAddr, uuids>>
  /\ stamp' = [stamp EXCEPT ![c] = NoStamp]
  /\ Goto(c, "idle")
  /\ UNCHANGED <<seqOnce, clockSequence, lastTime, calls, bumps>>

GenNext == \E c \in Callers : DrawSequence(c) \/ ClockSequence(c) \/ Return(c)

GenSpec == GenInit /\ [][GenNext]_genVars
-----------------------------------------------------------------------------
\* Two calls never return the same UUID, in whatever order they read the clock
\* and however it moves, unless the sequence has gone through all the values
\* that SetVariant leaves apart (generator.go 136-158 and 209-234).
NeverTwice ==
  bumps < SeqSize \div 4 =>
    \A i, j \in 1 .. Len(uuids) : i < j => uuids[i] # uuids[j]
=============================================================================

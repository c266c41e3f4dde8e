------------------------------ MODULE MCState ------------------------------
(***************************************************************************)
(* The parts of the repository that keep a state of their own between      *)
(* calls and never meet: the scanner's byte arena, the frames of window    *)
(* functions and, of pkg/util, the ring buffer, the stop watch, the timer, *)
(* the generator of UUIDs and JSON documents.  A behaviour is one of the   *)
(* part in focus; the others stand still.                                  *)
(***************************************************************************)
EXTENDS ScanBuffer, RingBuffer, StopWatch, Timer, UuidGen, WindowFrames

CONSTANTS MaxOps                     \* Json

VARIABLES focus, held, plain, ops

\* Partitions in order: NULLs and numbers for RANGE, and for ROWS and GROUPS,
\* which only ask who are peers, the numbers 1, 2 and so on.
MCPartitions ==
  LET sorted == UNION {{s \in [1 .. k -> {Null, 1, 2, 4}] :
                           \A i \in 1 .. k - 1 :
                             s[i] = Null \/ (s[i + 1] # Null /\ s[i] <= s[i + 1])} : k \in 1 .. 4}
      steps  == UNION {{s \in [1 .. k -> 1 .. k] :
                           s[1] = 1 /\ \A i \in 1 .. k - 1 : s[i + 1] - s[i] \in {0, 1}} : k \in 1 .. 5}
      Back(s) == LET k == Cardinality(DOMAIN s) IN [i \in 1 .. k |-> s[k + 1 - i]]
  IN  [asc  |-> [RANGE |-> sorted, ROWS |-> steps, GROUPS |-> steps],
       desc |-> [RANGE |-> {Back(s) : s \in sorted}, ROWS |-> {}, GROUPS |-> {}]]

\* The documents that MCJson has are the values of constants of its module.
Documents == INSTANCE MCJson WITH Stride <- 2, Size <- 32, Docs <- {}, Others <- {},
                                   Keys <- {}, Paths <- {}
Docs   == Documents!MCDocs
Others == Documents!MCOthers
Keys   == Documents!MCKeys
Paths  == Documents!MCPaths

J == INSTANCE Json WITH Stride <- 2, Size <- 32

ASSUME StateAssumption ==
  /\ RingAssumption /\ StopWatchAssumption /\ TimerAssumption /\ UuidAssumption
  /\ FramesAssumption /\ OffsetsFit /\ J!JsonAssumption

jsonVars == <<held, plain, ops>>

MCInit ==
  /\ focus \in {"arena", "ring", "watch", "timer", "gen", "window", "json"}
  /\ Init /\ RingInit /\ WatchInit /\ TimerInit /\ GenInit
  /\ IF focus = "window" THEN WindowInit
     ELSE /\ rows = <<>> /\ dir = "asc" /\ frame = {} /\ phase = "init"
          /\ groups = <<>> /\ headNum = 0 /\ skipped = FALSE /\ allDone = FALSE
          /\ row = 0 /\ group = 0
  /\ IF focus = "json" THEN J!Init ELSE held = {} /\ plain = {} /\ ops = 0

MCNext ==
  \/ focus = "arena"  /\ Next        /\ UNCHANGED <<focus, ringVars, watchVars, timerVars, genVars, windowVars, jsonVars>>
  \/ focus = "ring"   /\ RingNext    /\ UNCHANGED <<focus, vars, watchVars, timerVars, genVars, windowVars, jsonVars>>
  \/ focus = "watch"  /\ WatchNext   /\ UNCHANGED <<focus, vars, ringVars, timerVars, genVars, windowVars, jsonVars>>
  \/ focus = "timer"  /\ TimerNext   /\ UNCHANGED <<focus, vars, ringVars, watchVars, genVars, windowVars, jsonVars>>
  \/ focus = "gen"    /\ GenNext     /\ UNCHANGED <<focus, vars, ringVars, watchVars, timerVars, windowVars, jsonVars>>
  \/ focus = "window" /\ WindowNext /\ UNCHANGED <<focus, vars, ringVars, watchVars, timerVars, genVars, jsonVars>>
  \/ focus = "json"   /\ J!Next      /\ UNCHANGED <<focus, vars, ringVars, watchVars, timerVars, genVars, windowVars>>

all == <<focus, vars, ringVars, watchVars, timerVars, genVars, windowVars, jsonVars>>

MCSpec == MCInit /\ [][MCNext]_all
-----------------------------------------------------------------------------
\* A document is the same however it is held.
HeldAlike == focus = "json" => J!HeldAlike

\* What is put at a path is fetched from it, and the keys of an index lead to
\* what contains their paths: said of the plain document, so asked once for it.
PathsLeadBack == focus = "json" /\ held = plain => J!PutIsFetched /\ J!IndexFindsContained
=============================================================================

---------------------------- MODULE WindowFrames ----------------------------
(***************************************************************************)
(* Window frames (pkg/sql/sem/tree/window_funcs.go, window_funcs_util.go): *)
(* which rows of its partition the frame of each row has, with the helper  *)
(* that finds peer groups as the rows go by and forgets those behind.      *)
(*                                                                         *)
(* The helper's ring buffer is the deque it implements (RingBuffer).  The  *)
(* loop over the rows is outside the repository; it follows the comment of *)
(* PeerGroupsIndicesHelper.Update.                                         *)
(***************************************************************************)
EXTENDS Integers, Sequences, FiniteSets

CONSTANTS
  Partitions,   \* for each direction and mode, sequences of the ordering column
  Null,         \* NULL, which sorts before the numbers
  Offsets,      \* the offsets of bounds
  Crossed,      \* whether a GROUPS frame may end further back than it starts
  LargestInt        \* the largest int

Modes == {"RANGE", "ROWS", "GROUPS"}

\* The rows of RANGE come in the order of their column.
FramesAssumption ==
  /\ Null \notin Int /\ LargestInt \in Nat /\ Offsets \subseteq 0 .. LargestInt
  /\ Crossed \in BOOLEAN
  /\ \A d \in {"asc", "desc"}, m \in Modes : \A s \in Partitions[d][m] :
       /\ s \in Seq(Int \cup {Null}) /\ Len(s) \in 1 .. LargestInt
       /\ m = "RANGE" => \A i, j \in 1 .. Len(s) : i < j =>
            LET first == IF d = "asc" THEN s[i] ELSE s[j]
                last  == IF d = "asc" THEN s[j] ELSE s[i]
            IN  first = Null \/ (last # Null /\ first <= last)

\* No row of a ROWS frame is so far that its index overflows.
OffsetsFit ==
  \A d \in {"asc", "desc"}, n \in Offsets : \A s \in Partitions[d]["ROWS"] :
    Len(s) + n <= LargestInt

VARIABLES
  rows, dir,          \* the values of the ordering column, and its direction
  frame,              \* the frame's mode and bounds
  phase,              \* "init", a row's "compute", or "done"
  groups, headNum,    \* the helper's queue and the number of the group at its head
  skipped, allDone,   \* allPeerGroupsSkipped, allRowsProcessed
  row, group          \* RowIdx and CurRowPeerGroupNum

windowVars == <<rows, dir, frame, phase, groups, headNum, skipped, allDone, row, group>>

Wrap(n) == ((n + LargestInt + 1) % (2 * LargestInt + 2)) - LargestInt - 1
Size    == Len(rows)
At(i)   == rows[i + 1]

Away   == [kind : {"preceding", "following"}, n : Offsets]
Starts == Away \cup [kind : {"unbounded preceding", "current"}, n : {0}]
Ends   == Away \cup [kind : {"none", "unbounded following", "current"}, n : {0}]

\* The frames the grammar accepts.
Frames ==
  {f \in [mode : Modes, start : Starts, end : Ends] :
     /\ f.start.kind = "current" => f.end.kind # "preceding"
     /\ f.start.kind = "following" => f.end.kind \notin {"preceding", "current", "none"}
     /\ f.mode = "GROUPS" /\ f.start.kind = "preceding" /\ f.end.kind = "preceding" =>
          Crossed \/ f.start.n >= f.end.n}

WindowInit ==
  /\ dir \in {"asc", "desc"}
  /\ frame \in Frames
  /\ rows \in Partitions[dir][frame.mode]
  /\ phase = "init"
  /\ groups = <<>> /\ headNum = 0
  /\ skipped = FALSE /\ allDone = FALSE
  /\ row = 0 /\ group = 0
-----------------------------------------------------------------------------
(* PeerGroupsIndicesHelper *)

\* The group that starts at row i: it goes on as long as a row and the next are
\* peers.
GroupAt(i) ==
  LET ends == {k \in i + 1 .. Size : k = Size \/ At(k) # At(k - 1)}
  IN  [first |-> i, count |-> (CHOOSE k \in ends : \A l \in ends : k <= l) - i]
After(g) == g.first + g.count

EndOf(q) == IF q = <<>> THEN 0 ELSE After(q[Len(q)])

\* The loops of Init: q with the groups that follow, as long as there are rows,
\* up to n groups in all.
Grow(q, n) == IF EndOf(q) < Size /\ Len(q) < n THEN Append(q, GroupAt(EndOf(q))) ELSE q
FillUp(q, n) ==
  LET filled[k \in Nat] == IF k = 0 THEN q ELSE Grow(filled[k - 1], n)
  IN  filled[n]

\* Init: the groups before the frame, the first of the frame, and those that
\* the end of the frame takes in.
HelperInit ==
  LET before == IF frame.mode = "GROUPS" /\ frame.start.kind = "following"
                THEN FillUp(<<>>, frame.start.n) ELSE <<>>
      gone   == EndOf(before) = Size
      first  == Append(before, GroupAt(EndOf(before)))
      all    == IF frame.mode = "GROUPS" /\ frame.end.kind = "following"
                THEN FillUp(first, frame.end.n + 1) ELSE first
  IN  /\ phase = "init"
      /\ phase' = "compute"
      /\ groups' = IF gone THEN before ELSE all
      /\ skipped' = gone
      /\ allDone' = (~gone /\ EndOf(groups') = Size)
      /\ UNCHANGED <<rows, dir, frame, headNum, row, group>>

\* Mutant: the rows are counted, not the groups.
DiscardByRow ==
  \/ frame.mode \in {"RANGE", "ROWS"}
  \/ frame.start.kind = "preceding" /\ row - headNum > frame.start.n
  \/ frame.start.kind = "current"

Discard ==
  \/ frame.mode \in {"RANGE", "ROWS"}
  \/ frame.start.kind = "preceding" /\ group - headNum > frame.start.n
  \/ frame.start.kind = "current"
  \/ frame.start.kind = "following" /\ headNum - group > frame.start.n

\* GetFirstPeerIdx and GetRowCount; out of the queue they panic.
Panic == [first |-> -1, count |-> 0]
PeerGroup(n) == IF n - headNum \in 0 .. Len(groups) - 1 THEN groups[n - headNum + 1] ELSE Panic
LastGroupNum == headNum + Len(groups) - 1

\* The rows of the current group, one by one.
NextRow ==
  /\ phase = "compute"
  /\ row + 1 < After(PeerGroup(group))
  /\ row' = row + 1
  /\ UNCHANGED <<rows, dir, frame, phase, groups, headNum, skipped, allDone, group>>

\* Update, after the last row of the group.
NextGroup ==
  LET kept == IF Discard THEN Tail(groups) ELSE groups
  IN  /\ phase = "compute"
      /\ row + 1 = After(PeerGroup(group))
      /\ groups' = IF skipped THEN groups
                   ELSE IF allDone THEN kept
                   ELSE Append(kept, GroupAt(EndOf(groups)))
      /\ headNum' = IF ~skipped /\ Discard THEN headNum + 1 ELSE headNum
      /\ allDone' = (allDone \/ (~skipped /\ EndOf(groups') = Size))
      /\ phase' = IF row + 1 = Size THEN "done" ELSE "compute"
      /\ row' = row + 1
      /\ group' = group + 1
      /\ UNCHANGED <<rows, dir, frame, skipped>>

WindowNext == HelperInit \/ NextRow \/ NextGroup

WindowSpec == WindowInit /\ [][WindowNext]_windowVars
-----------------------------------------------------------------------------
(* WindowFrameRun *)

\* Compare
Leq(a, b) == a = Null \/ (b # Null /\ a <= b)
Lt(a, b)  == Leq(a, b) /\ a # b
\* In the direction of the ordering.
Upto(a, b)   == IF dir = "asc" THEN Leq(a, b) ELSE Leq(b, a)
Before(a, b) == IF dir = "asc" THEN Lt(a, b) ELSE Lt(b, a)

\* getValueByOffset
ValueByOffset(n) ==
  LET plus == IF dir = "desc" THEN -n ELSE n
  IN  IF At(row) = Null THEN Null ELSE At(row) + plus

\* sort.Search: of 0 .. n - 1 the first that is found, or n, if all after one that
\* is found are.
Halve(ij, found) ==
  LET h == (ij[1] + ij[2]) \div 2
  IN  IF ij[1] >= ij[2] THEN ij
      ELSE IF h \in found THEN <<ij[1], h>> ELSE <<h + 1, ij[2]>>
Search(n, found) ==
  LET halved[k \in Nat] == IF k = 0 THEN <<0, n>> ELSE Halve(halved[k - 1], found)
  IN  halved[n][1]

RangeStart ==
  CASE frame.start.kind = "preceding" ->
         Search(row, {i \in 0 .. row - 1 : Upto(ValueByOffset(-frame.start.n), At(i))})
    [] frame.start.kind = "following" ->
         Search(Size, {i \in 0 .. Size - 1 : Upto(ValueByOffset(frame.start.n), At(i))})
    [] OTHER -> PeerGroup(group).first

\* Mutant: the search for the end stops at the current row.
RangeEndToRow ==
  CASE frame.end.kind = "preceding" ->
         Search(row, {i \in 0 .. row - 1 : Before(ValueByOffset(-frame.end.n), At(i))})
    [] frame.end.kind = "following" ->
         Search(Size, {i \in 0 .. Size - 1 : Before(ValueByOffset(frame.end.n), At(i))})
    [] OTHER -> After(PeerGroup(group))

RangeEnd ==
  CASE frame.end.kind = "preceding" ->
         Search(Size, {i \in 0 .. Size - 1 : Before(ValueByOffset(-frame.end.n), At(i))})
    [] frame.end.kind = "following" ->
         Search(Size, {i \in 0 .. Size - 1 : Before(ValueByOffset(frame.end.n), At(i))})
    [] OTHER -> After(PeerGroup(group))

RowsStart ==
  LET ahead == Wrap(row + frame.start.n)
      back  == row - frame.start.n
  IN  CASE frame.start.kind = "preceding" -> IF back < 0 THEN 0 ELSE back
        [] frame.start.kind = "following" -> IF ahead >= Size THEN Size ELSE ahead
        [] OTHER -> row

RowsEnd ==
  LET ahead == Wrap(row + frame.end.n + 1)
      back  == row - frame.end.n + 1
  IN  CASE frame.end.kind = "preceding" -> IF back < 0 THEN 0 ELSE back
        [] frame.end.kind = "following" -> IF ahead >= Size THEN Size ELSE ahead
        [] OTHER -> row + 1

GroupsStart ==
  LET ahead == Wrap(group + frame.start.n)
      back  == group - frame.start.n
  IN  CASE frame.start.kind = "preceding" -> PeerGroup(IF back < 0 THEN 0 ELSE back).first
        [] frame.start.kind = "following" ->
             IF ahead > LastGroupNum \/ ahead < 0 THEN Size ELSE PeerGroup(ahead).first
        [] OTHER -> PeerGroup(group).first

GroupsEnd ==
  LET ahead == Wrap(group + frame.end.n)
      back  == group - frame.end.n
  IN  CASE frame.end.kind = "preceding" -> IF back < 0 THEN 0 ELSE After(PeerGroup(back))
        [] frame.end.kind = "following" ->
             IF ahead > LastGroupNum \/ ahead < 0 THEN Size ELSE After(PeerGroup(ahead))
        [] OTHER -> After(PeerGroup(group))

FrameStartIdx ==
  CASE frame.start.kind = "unbounded preceding" -> 0
    [] frame.start.kind # "unbounded preceding" /\ frame.mode = "RANGE" -> RangeStart
    [] frame.start.kind # "unbounded preceding" /\ frame.mode = "ROWS" -> RowsStart
    [] frame.start.kind # "unbounded preceding" /\ frame.mode = "GROUPS" -> GroupsStart

FrameEndIdx ==
  CASE frame.end.kind = "unbounded following" -> Size
    [] frame.end.kind # "unbounded following" /\ frame.mode = "RANGE" -> RangeEnd
    [] frame.end.kind # "unbounded following" /\ frame.mode = "ROWS" -> RowsEnd
    [] frame.end.kind # "unbounded following" /\ frame.mode = "GROUPS" -> GroupsEnd

\* isRowExcluded
Exclusions == {"none", "current row", "group", "ties"}
InCurrentGroup(i) == PeerGroup(group).first <= i /\ i < After(PeerGroup(group))

\* Mutant: the current row is one of its own ties.
IsExcludedTies(i, exclusion) ==
  CASE exclusion = "none" -> FALSE
    [] exclusion = "current row" -> i = row
    [] exclusion \in {"group", "ties"} -> InCurrentGroup(i)

IsExcluded(i, exclusion) ==
  CASE exclusion = "none" -> FALSE
    [] exclusion = "current row" -> i = row
    [] exclusion = "group" -> InCurrentGroup(i)
    [] exclusion = "ties" -> InCurrentGroup(i) /\ i # row

\* FrameSize without a filter: counted row by row only if some are excluded.
FrameSize(exclusion) ==
  LET size == IF exclusion = "none" THEN FrameEndIdx - FrameStartIdx
              ELSE Cardinality({i \in FrameStartIdx .. FrameEndIdx - 1 : ~IsExcluded(i, exclusion)})
  IN  IF size <= 0 THEN 0 ELSE size

\* Mutant: an offset of the size of the partition less two is taken for enough.
FullPartitionIsInWindowShort ==
  /\ frame.end.kind # "none"
  /\ \/ frame.start.kind = "unbounded preceding"
     \/ frame.mode # "RANGE" /\ frame.start.kind = "preceding" /\ frame.start.n >= Size - 2
  /\ \/ frame.end.kind = "unbounded following"
     \/ frame.mode # "RANGE" /\ frame.end.kind = "following" /\ frame.end.n >= Size - 2

FullPartitionIsInWindow ==
  /\ frame.end.kind # "none"
  /\ \/ frame.start.kind = "unbounded preceding"
     \/ frame.mode # "RANGE" /\ frame.start.kind = "preceding" /\ frame.start.n >= Size - 1
  /\ \/ frame.end.kind = "unbounded following"
     \/ frame.mode # "RANGE" /\ frame.end.kind = "following" /\ frame.end.n >= Size - 1
-----------------------------------------------------------------------------
\* The number of a row's peer group, counted over the whole partition.
GroupOf(i) == Cardinality({k \in 1 .. i : At(k) # At(k - 1)})

\* NULLs are peers of each other, and infinitely far from any value.
NullAway(i)  == frame.mode = "RANGE" /\ At(i) # At(row) /\ Null \in {At(i), At(row)}
FarAfter(i)  == NullAway(i) /\ ((At(row) = Null) <=> (dir = "asc"))
FarBefore(i) == NullAway(i) /\ ~FarAfter(i)

\* How far row i is from the current one otherwise, in what the mode counts:
\* rows, peer groups, or values in the direction of the ordering.
Distance(i) ==
  CASE frame.mode = "ROWS" -> i - row
    [] frame.mode = "GROUPS" -> GroupOf(i) - GroupOf(row)
    [] frame.mode = "RANGE" -> IF At(i) = At(row) THEN 0
                               ELSE IF dir = "asc" THEN At(i) - At(row) ELSE At(row) - At(i)

AtLeast(i, n) == FarAfter(i) \/ (~NullAway(i) /\ Distance(i) >= n)
AtMost(i, n)  == FarBefore(i) \/ (~NullAway(i) /\ Distance(i) <= n)

\* An offset from a NULL is a NULL.
Reach(n) == IF frame.mode = "RANGE" /\ At(row) = Null THEN 0 ELSE n

AfterStart(i) ==
  CASE frame.start.kind = "unbounded preceding" -> TRUE
    [] frame.start.kind = "preceding" -> AtLeast(i, -Reach(frame.start.n))
    [] frame.start.kind = "current" -> AtLeast(i, 0)
    [] frame.start.kind = "following" -> AtLeast(i, Reach(frame.start.n))

BeforeEnd(i) ==
  CASE frame.end.kind = "unbounded following" -> TRUE
    [] frame.end.kind = "preceding" -> AtMost(i, -Reach(frame.end.n))
    [] frame.end.kind \in {"current", "none"} -> AtMost(i, 0)
    [] frame.end.kind = "following" -> AtMost(i, Reach(frame.end.n))

InFrame(i) == AfterStart(i) /\ BeforeEnd(i)

\* The frame has the rows its definition names: the groups the helper has
\* found, not yet found or forgotten by then do not change it (window_funcs.go
\* 111-227 and 248-416).
FrameHasItsRows ==
  phase = "compute" => {i \in 0 .. Size - 1 : InFrame(i)} = FrameStartIdx .. FrameEndIdx - 1

\* No index the frame is computed from is out of the helper's queue, which
\* would panic, and none is outside the partition.
FrameInPartition ==
  phase = "compute" => FrameStartIdx \in 0 .. Size /\ FrameEndIdx \in 0 .. Size

\* The size of a frame is the number of its rows that its exclusion leaves.
SizeIsCount ==
  phase = "compute" => \A exclusion \in Exclusions :
    FrameSize(exclusion) =
      Cardinality({i \in 0 .. Size - 1 :
        /\ InFrame(i)
        /\ exclusion = "current row" => i # row
        /\ exclusion = "group" => GroupOf(i) # GroupOf(row)
        /\ exclusion = "ties" => i = row \/ GroupOf(i) # GroupOf(row)})

\* When FullPartitionIsInWindow says so, no frame leaves a row out, so that the
\* caller may compute an aggregate once for all rows (window_funcs.go 498-541).
FullIsFull ==
  phase = "compute" /\ FullPartitionIsInWindow => \A i \in 0 .. Size - 1 : InFrame(i)

\* A frame has the rows its definition names, its size is their number, no
\* index leaves the helper's queue, and none of a partition is left out when
\* FullPartitionIsInWindow says so.
FrameIsDefined == FrameInPartition /\ FrameHasItsRows /\ SizeIsCount /\ FullIsFull
=============================================================================

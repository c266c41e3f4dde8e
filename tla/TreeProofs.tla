----------------------------- MODULE TreeProofs -----------------------------
(***************************************************************************)
(* Proofs about what evaluates and resolves syntax trees: window frames,   *)
(* for every partition in order, every frame the grammar accepts and every *)
(* offset that does not overflow; and names, for every catalog, every path *)
(* and every name of up to three parts.                                    *)
(***************************************************************************)
EXTENDS WindowFrames, NameResolution, FiniteSetTheorems, SequenceTheorems, Induction
-----------------------------------------------------------------------------
(* Window frames *)

Value == Int \cup {Null}
Group == [first : Nat, count : Nat \ {0}]

\* What a behaviour is given and never changes.
Given ==
  /\ dir \in {"asc", "desc"} /\ frame \in Frames
  /\ rows \in Partitions[dir][frame.mode]

\* A whole peer group: it starts and ends where the column changes.
IsGroup(g) ==
  /\ g \in Group
  /\ After(g) <= Size
  /\ g.first = 0 \/ At(g.first) # At(g.first - 1)
  /\ \A k \in g.first + 1 .. After(g) - 1 : At(k) = At(k - 1)
  /\ After(g) = Size \/ At(After(g)) # At(After(g) - 1)

\* A queue whose k-th group has the number head + k - 1.
Queue(q, head) ==
  /\ q \in Seq(Group) /\ head \in Nat
  /\ \A k \in 1 .. Len(q) : IsGroup(q[k]) /\ GroupOf(q[k].first) = head + k - 1

Complete == EndOf(groups) = Size

\* The helper has the groups that the current row asks for: those as far behind
\* as the frame starts, and those as far ahead as it starts or ends, or all.
ReachesBack ==
  /\ headNum <= group
  /\ frame.mode = "GROUPS" =>
       /\ frame.start.kind \in {"unbounded preceding", "following"} => headNum = 0
       /\ frame.start.kind = "preceding" => headNum = 0 \/ headNum + frame.start.n <= group
ReachesAhead ==
  ~Complete =>
    /\ group <= LastGroupNum
    /\ frame.mode = "GROUPS" =>
         /\ frame.start.kind = "following" => group + frame.start.n <= LastGroupNum
         /\ frame.end.kind = "following" => group + frame.end.n <= LastGroupNum

Computing ==
  /\ Queue(groups, headNum)
  /\ row \in 0 .. Size - 1 /\ group = GroupOf(row)
  /\ (skipped \/ allDone) <=> Complete
  /\ ReachesBack /\ ReachesAhead

FrameIInv ==
  /\ Given
  /\ phase \in {"init", "compute", "done"}
  /\ phase = "init" => headNum = 0 /\ row = 0 /\ group = 0
  /\ phase = "compute" => Computing
-----------------------------------------------------------------------------
(* What is given *)

LEMMA GivenRows ==
  ASSUME FramesAssumption, Given
  PROVE  /\ rows \in Seq(Value) /\ Size \in 1 .. LargestInt /\ LargestInt \in Nat
         /\ Null \notin Int /\ frame.mode \in Modes
<1>1. frame.mode \in Modes
  BY DEF Given, Frames
<1> QED
  BY <1>1 DEF Given, FramesAssumption, Size, Value

LEMMA BoundsOfFrame ==
  ASSUME FramesAssumption, Given
  PROVE  /\ frame.start.kind \in {"unbounded preceding", "current", "preceding", "following"}
         /\ frame.end.kind \in {"none", "unbounded following", "current", "preceding", "following"}
         /\ frame.start.kind \in {"preceding", "following"} =>
              frame.start.n \in Offsets /\ frame.start.n \in 0 .. LargestInt /\ frame.start.n \in Nat
         /\ frame.end.kind \in {"preceding", "following"} =>
              frame.end.n \in Offsets /\ frame.end.n \in 0 .. LargestInt /\ frame.end.n \in Nat
<1>1. Offsets \subseteq 0 .. LargestInt /\ LargestInt \in Nat
  BY DEF FramesAssumption
<1>2. frame.start \in Starts /\ frame.end \in Ends
  BY DEF Given, Frames
<1>3. /\ frame.start.kind \in {"unbounded preceding", "current", "preceding", "following"}
      /\ frame.start.kind \in {"preceding", "following"} => frame.start.n \in Offsets
  BY <1>2 DEF Starts, Away
<1>4. /\ frame.end.kind \in {"none", "unbounded following", "current", "preceding", "following"}
      /\ frame.end.kind \in {"preceding", "following"} => frame.end.n \in Offsets
  BY <1>2 DEF Ends, Away
<1>5. \A n \in Offsets : n \in 0 .. LargestInt /\ n \in Nat
  BY <1>1
<1> QED
  BY <1>3, <1>4, <1>5

\* The column in the order of RANGE.
LEMMA RangeSorted ==
  ASSUME FramesAssumption, Given, frame.mode = "RANGE",
         NEW i \in 0 .. Size - 1, NEW j \in i .. Size - 1
  PROVE  Upto(At(i), At(j)) /\ At(i) \in Value /\ At(j) \in Value
<1>1. rows \in Seq(Value) /\ Size \in Nat /\ dir \in {"asc", "desc"} /\ "RANGE" \in Modes
  BY GivenRows DEF Modes, Given
<1>2. At(i) \in Value /\ At(j) \in Value
  BY <1>1 DEF At, Size
<1>3. CASE i = j
  BY <1>2, <1>3 DEF Upto, Leq, Value
<1>4. CASE i < j
  <2>1. /\ i + 1 \in 1 .. Len(rows) /\ j + 1 \in 1 .. Len(rows) /\ i + 1 < j + 1
        /\ rows \in Partitions[dir]["RANGE"]
    BY <1>1, <1>4 DEF Size, Given
  <2>2. LET first == IF dir = "asc" THEN At(i) ELSE At(j)
            last  == IF dir = "asc" THEN At(j) ELSE At(i)
        IN  first = Null \/ (last # Null /\ first <= last)
    BY <1>1, <2>1 DEF FramesAssumption, At
  <2> QED
    BY <2>2, <1>2 DEF Upto, Leq
<1> QED
  BY <1>1, <1>2, <1>3, <1>4
-----------------------------------------------------------------------------
(* Peer groups *)

\* The group the helper computes at a row that starts one is whole.
LEMMA GroupAtIsGroup ==
  ASSUME rows \in Seq(Value), NEW i \in 0 .. Size - 1
  PROVE  /\ GroupAt(i) \in Group /\ GroupAt(i).first = i
         /\ i = 0 \/ At(i) # At(i - 1) => IsGroup(GroupAt(i))
<1> DEFINE ends == {k \in i + 1 .. Size : k = Size \/ At(k) # At(k - 1)}
           e == CHOOSE k \in ends : \A l \in ends : k <= l
<1>0. Size \in Nat /\ Size \in ends
  BY DEF Size
<1>1. e \in ends /\ \A l \in ends : e <= l
  <2>1. ends \in SUBSET Nat /\ ends # {}
    <3>1. ASSUME NEW k \in ends PROVE k \in Nat
      BY <1>0
    <3> QED BY <1>0, <3>1
  <2>2. \E k \in ends : \A l \in ends : k <= l
    <3> HIDE DEF ends
    <3> QED BY <2>1, LeastNumber
  <2> QED
    BY <2>2
<1>2. GroupAt(i) = [first |-> i, count |-> e - i]
  BY DEF GroupAt
<1> HIDE DEF e
<1>3. e \in i + 1 .. Size /\ After(GroupAt(i)) = e
  BY <1>0, <1>1, <1>2 DEF After
<1>4. GroupAt(i) \in Group /\ GroupAt(i).first = i
  BY <1>0, <1>2, <1>3 DEF Group
<1>5. \A k \in i + 1 .. e - 1 : At(k) = At(k - 1)
  BY <1>0, <1>1, <1>3
<1>6. e = Size \/ At(e) # At(e - 1)
  BY <1>1
<1> QED
  BY <1>0, <1>3, <1>4, <1>5, <1>6 DEF IsGroup

\* The numbers of the groups go up by one where the column changes.
LEMMA GroupOfType ==
  ASSUME rows \in Seq(Value), NEW i \in 0 .. Size - 1
  PROVE  GroupOf(i) \in 0 .. i /\ IsFiniteSet({k \in 1 .. i : At(k) # At(k - 1)})
<1>1. {k \in 1 .. i : At(k) # At(k - 1)} \in SUBSET (1 .. i)
  OBVIOUS
<1>2. i \in Nat
  BY DEF Size
<1>3. IsFiniteSet(1 .. i) /\ Cardinality(1 .. i) = i
  BY <1>2, FS_Interval
<1>4. /\ IsFiniteSet({k \in 1 .. i : At(k) # At(k - 1)})
      /\ Cardinality({k \in 1 .. i : At(k) # At(k - 1)}) <= Cardinality(1 .. i)
  BY <1>1, <1>3, FS_Subset
<1>5. Cardinality({k \in 1 .. i : At(k) # At(k - 1)}) \in Nat
  BY <1>4, FS_CardinalityType
<1> QED
  BY <1>2, <1>3, <1>4, <1>5 DEF GroupOf

LEMMA GroupOfGrows ==
  ASSUME rows \in Seq(Value), NEW i \in 0 .. Size - 1, NEW j \in i .. Size - 1
  PROVE  /\ GroupOf(i) <= GroupOf(j)
         /\ GroupOf(i) = GroupOf(j) <=> \A k \in i + 1 .. j : At(k) = At(k - 1)
<1> DEFINE upto(n) == {k \in 1 .. n : At(k) # At(k - 1)}
<1>1. i \in Nat /\ j \in Nat /\ j \in 0 .. Size - 1
  BY DEF Size
<1>2. upto(i) \in SUBSET upto(j)
  BY <1>1
<1>3. IsFiniteSet(upto(j)) /\ GroupOf(j) = Cardinality(upto(j)) /\ GroupOf(i) = Cardinality(upto(i))
  BY <1>1, GroupOfType DEF GroupOf
<1>4. /\ Cardinality(upto(i)) <= Cardinality(upto(j))
      /\ Cardinality(upto(j)) = Cardinality(upto(i)) => upto(j) = upto(i)
  <2> HIDE DEF upto
  <2> QED BY <1>2, <1>3, FS_Subset
<1>5. upto(j) = upto(i) <=> \A k \in i + 1 .. j : At(k) = At(k - 1)
  <2>1. ASSUME upto(j) = upto(i), NEW k \in i + 1 .. j PROVE At(k) = At(k - 1)
    <3>1. k \in 1 .. j /\ k > i
      BY <1>1
    <3>2. At(k) # At(k - 1) => k \in upto(i)
      BY <3>1, <2>1
    <3> QED
      BY <3>1, <3>2
  <2>2. ASSUME \A k \in i + 1 .. j : At(k) = At(k - 1) PROVE upto(j) \subseteq upto(i)
    BY <1>1, <2>2
  <2> QED
    BY <1>2, <2>1, <2>2
<1> QED
  BY <1>3, <1>4, <1>5

\* The next group has the next number.
LEMMA GroupOfNext ==
  ASSUME rows \in Seq(Value), NEW i \in 1 .. Size - 1, At(i) # At(i - 1)
  PROVE  GroupOf(i) = GroupOf(i - 1) + 1
<1> DEFINE upto(n) == {k \in 1 .. n : At(k) # At(k - 1)}
<1>1. i - 1 \in 0 .. Size - 1 /\ i \in Nat
  BY DEF Size
<1>2. upto(i) = upto(i - 1) \cup {i} /\ i \notin upto(i - 1)
  BY <1>1
<1>3. IsFiniteSet(upto(i - 1))
  BY <1>1, GroupOfType
<1>4. Cardinality(upto(i - 1) \cup {i}) = Cardinality(upto(i - 1)) + 1
  <2> HIDE DEF upto
  <2> QED BY <1>2, <1>3, FS_AddElement
<1> QED
  BY <1>2, <1>4 DEF GroupOf

\* The rows of a group are those with its number.
LEMMA RowsOfGroup ==
  ASSUME rows \in Seq(Value), NEW g, IsGroup(g), NEW i \in 0 .. Size - 1
  PROVE  /\ GroupOf(i) < GroupOf(g.first) <=> i < g.first
         /\ GroupOf(i) > GroupOf(g.first) <=> i >= After(g)
<1>1. /\ Size \in Nat /\ g.first \in 0 .. Size - 1 /\ After(g) \in g.first + 1 .. Size
      /\ i \in Nat
  BY DEF IsGroup, Group, After, Size
<1>2. GroupOf(i) \in Nat /\ GroupOf(g.first) \in Nat
  <2>1. GroupOf(i) \in 0 .. i
    BY GroupOfType
  <2>2. GroupOf(g.first) \in 0 .. g.first
    BY <1>1, GroupOfType
  <2> QED
    BY <2>1, <2>2
<1>3. CASE i < g.first
  <2>1. g.first \in i .. Size - 1 /\ g.first \in i + 1 .. g.first
    BY <1>1, <1>3
  <2>2. At(g.first) # At(g.first - 1)
    BY <1>1, <1>3 DEF IsGroup
  <2>3. GroupOf(i) <= GroupOf(g.first) /\ GroupOf(i) # GroupOf(g.first)
    BY <2>1, <2>2, GroupOfGrows
  <2> QED
    BY <1>1, <1>2, <1>3, <2>3
<1>4. CASE g.first <= i /\ i < After(g)
  <2>1. i \in g.first .. Size - 1 /\ \A k \in g.first + 1 .. i : k \in g.first + 1 .. After(g) - 1
    BY <1>1, <1>4
  <2>2. \A k \in g.first + 1 .. i : At(k) = At(k - 1)
    BY <2>1 DEF IsGroup
  <2>3. GroupOf(g.first) = GroupOf(i)
    BY <1>1, <2>1, <2>2, GroupOfGrows
  <2> QED
    BY <1>1, <1>2, <1>4, <2>3
<1>5. CASE After(g) <= i
  <2>1. i \in g.first .. Size - 1 /\ After(g) \in g.first + 1 .. i /\ After(g) # Size
    BY <1>1, <1>5
  <2>2. At(After(g)) # At(After(g) - 1)
    BY <2>1 DEF IsGroup
  <2>3. GroupOf(g.first) <= GroupOf(i) /\ GroupOf(g.first) # GroupOf(i)
    BY <1>1, <2>1, <2>2, GroupOfGrows
  <2> QED
    BY <1>1, <1>2, <1>5, <2>3
<1> QED
  BY <1>1, <1>3, <1>4, <1>5

\* They are peers: the column has one value in them.
LEMMA PeersAlike ==
  ASSUME rows \in Seq(Value), NEW i \in 0 .. Size - 1, NEW j \in i .. Size - 1,
         \A k \in i + 1 .. j : At(k) = At(k - 1)
  PROVE  At(i) = At(j)
<1> DEFINE T == {n \in Nat : i + n <= j => At(i + n) = At(i)}
<1>1. i \in Nat /\ j \in Nat
  BY DEF Size
<1>2. 0 \in T
  BY <1>1
<1>3. ASSUME NEW n \in T PROVE n + 1 \in T
  <2>1. SUFFICES ASSUME i + (n + 1) <= j PROVE At(i + (n + 1)) = At(i)
    OBVIOUS
  <2>2. i + (n + 1) \in i + 1 .. j /\ i + n <= j /\ (i + (n + 1)) - 1 = i + n
    BY <1>1, <2>1
  <2> QED
    BY <2>2
<1> HIDE DEF T
<1>4. T = Nat
  BY <1>2, <1>3, SetInduction DEF T
<1>5. j - i \in T /\ i + (j - i) = j
  BY <1>1, <1>4
<1> QED
  BY <1>5 DEF T

\* The first row after a group starts the group with the next number.
LEMMA AfterGroup ==
  ASSUME rows \in Seq(Value), NEW g, IsGroup(g), After(g) # Size
  PROVE  /\ After(g) \in 1 .. Size - 1
         /\ IsGroup(GroupAt(After(g))) /\ GroupAt(After(g)).first = After(g)
         /\ GroupOf(After(g)) = GroupOf(g.first) + 1
<1>1. /\ Size \in Nat /\ g.first \in 0 .. Size - 1 /\ After(g) \in g.first + 1 .. Size
      /\ After(g) \in 1 .. Size - 1 /\ After(g) \in 0 .. Size - 1
  BY DEF IsGroup, Group, After, Size
<1>2. At(After(g)) # At(After(g) - 1)
  BY DEF IsGroup
<1>3. GroupOf(After(g)) = GroupOf(After(g) - 1) + 1
  BY <1>1, <1>2, GroupOfNext
<1>4. After(g) - 1 \in 0 .. Size - 1 /\ g.first <= After(g) - 1 /\ After(g) - 1 < After(g)
  BY <1>1
<1>5. GroupOf(After(g) - 1) = GroupOf(g.first)
  <2>1. GroupOf(After(g) - 1) \in 0 .. After(g) - 1
    BY <1>4, GroupOfType
  <2>2. GroupOf(g.first) \in 0 .. g.first
    BY <1>1, GroupOfType
  <2>3. /\ ~(GroupOf(After(g) - 1) < GroupOf(g.first))
        /\ ~(GroupOf(After(g) - 1) > GroupOf(g.first))
    BY <1>1, <1>4, RowsOfGroup
  <2> QED
    BY <2>1, <2>2, <2>3
<1> QED
  BY <1>1, <1>2, <1>3, <1>5, GroupAtIsGroup
-----------------------------------------------------------------------------
(* The queue *)

LEMMA QueueAppend ==
  ASSUME NEW q, NEW head, Queue(q, head),
         NEW g, IsGroup(g), GroupOf(g.first) = head + Len(q)
  PROVE  /\ Queue(Append(q, g), head) /\ Len(Append(q, g)) = Len(q) + 1
         /\ EndOf(Append(q, g)) = After(g)
<1>1. q \in Seq(Group) /\ head \in Nat /\ g \in Group /\ Len(q) \in Nat
  BY DEF Queue, IsGroup
<1>2. Append(q, g) \in Seq(Group) /\ Len(Append(q, g)) = Len(q) + 1
  BY <1>1
<1>3. ASSUME NEW k \in 1 .. Len(q) + 1
      PROVE  IsGroup(Append(q, g)[k]) /\ GroupOf(Append(q, g)[k].first) = head + k - 1
  <2>1. CASE k = Len(q) + 1
    <3>1. Append(q, g)[k] = g /\ head + k - 1 = head + Len(q)
      BY <1>1, <2>1
    <3> QED BY <3>1
  <2>2. CASE k <= Len(q)
    <3>1. Append(q, g)[k] = q[k] /\ k \in 1 .. Len(q)
      BY <1>1, <2>2
    <3> QED BY <3>1 DEF Queue
  <2> QED
    BY <1>1, <2>1, <2>2
<1>4. EndOf(Append(q, g)) = After(g)
  <2>1. Append(q, g) # <<>> /\ Append(q, g)[Len(q) + 1] = g
    BY <1>1, <1>2
  <2> QED
    BY <1>2, <2>1 DEF EndOf
<1> QED
  BY <1>1, <1>2, <1>3, <1>4 DEF Queue

LEMMA QueueTail ==
  ASSUME NEW q, NEW head, Queue(q, head), q # <<>>
  PROVE  /\ Queue(Tail(q), head + 1) /\ Len(Tail(q)) = Len(q) - 1
         /\ Tail(q) # <<>> => EndOf(Tail(q)) = EndOf(q)
<1>1. q \in Seq(Group) /\ head \in Nat /\ Len(q) \in Nat \ {0}
  BY DEF Queue
<1>2. Tail(q) \in Seq(Group) /\ Len(Tail(q)) = Len(q) - 1
  BY <1>1
<1>3. ASSUME NEW k \in 1 .. Len(q) - 1
      PROVE  IsGroup(Tail(q)[k]) /\ GroupOf(Tail(q)[k].first) = (head + 1) + k - 1
  <2>1. Tail(q)[k] = q[k + 1] /\ k + 1 \in 1 .. Len(q) /\ head + (k + 1) - 1 = (head + 1) + k - 1
    BY <1>1
  <2> QED
    BY <2>1 DEF Queue
<1>4. Tail(q) # <<>> => EndOf(Tail(q)) = EndOf(q)
  <2>1. SUFFICES ASSUME Tail(q) # <<>> PROVE EndOf(Tail(q)) = EndOf(q)
    OBVIOUS
  <2>2. Len(Tail(q)) \in 1 .. Len(q) - 1
    BY <1>1, <1>2, <2>1
  <2>3. Tail(q)[Len(Tail(q))] = q[Len(q)]
    BY <1>1, <1>2, <2>2
  <2> QED
    BY <2>1, <2>3 DEF EndOf
<1> QED
  BY <1>1, <1>2, <1>3, <1>4 DEF Queue

\* After the last of a queue comes the group with the next number.
LEMMA QueueGoesOn ==
  ASSUME rows \in Seq(Value), Size # 0, NEW q, NEW head, Queue(q, head),
         q = <<>> => head = 0, EndOf(q) # Size
  PROVE  /\ EndOf(q) < Size
         /\ IsGroup(GroupAt(EndOf(q))) /\ GroupAt(EndOf(q)).first = EndOf(q)
         /\ GroupOf(EndOf(q)) = head + Len(q)
<1>0. Size \in Nat \ {0} /\ q \in Seq(Group) /\ Len(q) \in Nat /\ head \in Nat
  BY DEF Size, Queue
<1>1. CASE q = <<>>
  <2>1. EndOf(q) = 0 /\ head = 0 /\ Len(q) = 0 /\ 0 \in 0 .. Size - 1
    BY <1>0, <1>1 DEF EndOf
  <2>2. IsGroup(GroupAt(0)) /\ GroupAt(0).first = 0 /\ GroupOf(0) \in 0 .. 0
    BY <2>1, GroupAtIsGroup, GroupOfType
  <2> QED
    BY <1>0, <2>1, <2>2
<1>2. CASE q # <<>>
  <2> DEFINE g == q[Len(q)]
  <2>1. Len(q) \in 1 .. Len(q)
    BY <1>0, <1>2
  <2>2. IsGroup(g) /\ GroupOf(g.first) = head + Len(q) - 1 /\ EndOf(q) = After(g)
    BY <1>2, <2>1 DEF Queue, EndOf
  <2> HIDE DEF g
  <2>3. /\ After(g) \in 1 .. Size - 1
        /\ IsGroup(GroupAt(After(g))) /\ GroupAt(After(g)).first = After(g)
        /\ GroupOf(After(g)) = GroupOf(g.first) + 1
    BY <2>2, AfterGroup
  <2> QED
    BY <1>0, <2>2, <2>3
<1> QED
  BY <1>1, <1>2

\* The loops of Init end with n groups, or with all.
LEMMA FillUpFills ==
  ASSUME rows \in Seq(Value), Size # 0, NEW q, Queue(q, 0), NEW n \in Nat
  PROVE  /\ Queue(FillUp(q, n), 0) /\ Len(q) <= Len(FillUp(q, n))
         /\ EndOf(FillUp(q, n)) = Size \/ n <= Len(FillUp(q, n))
<1> DEFINE step == [p \in Seq(Group) |-> IF EndOf(p) \in 0 .. Size - 1 THEN Grow(p, n) ELSE p]
           IsFilled(f) == f = [k \in Nat |-> IF k = 0 THEN q ELSE Grow(f[k - 1], n)]
           f == CHOOSE f : IsFilled(f)
           Filled(p, k) == /\ Queue(p, 0) /\ Len(q) <= Len(p)
                           /\ EndOf(p) = Size \/ n <= Len(p) \/ Len(q) + k <= Len(p)
<1>0. Size \in Nat \ {0} /\ q \in Seq(Group) /\ Len(q) \in Nat
  BY DEF Size, Queue
<1>1. ASSUME NEW p \in Seq(Group)
      PROVE  EndOf(p) \in Nat /\ Grow(p, n) \in Seq(Group) /\ step[p] = Grow(p, n)
  <2>1. EndOf(p) \in Nat
    <3>1. p # <<>> => p[Len(p)] \in Group
      OBVIOUS
    <3> QED BY <3>1 DEF EndOf, Group, After
  <2>2. EndOf(p) \in 0 .. Size - 1 => GroupAt(EndOf(p)) \in Group
    BY GroupAtIsGroup
  <2>3. EndOf(p) < Size <=> EndOf(p) \in 0 .. Size - 1
    BY <1>0, <2>1
  <2> QED
    BY <2>1, <2>2, <2>3 DEF Grow
<1>2. step \in [Seq(Group) -> Seq(Group)]
  <2>1. ASSUME NEW p \in Seq(Group) PROVE step[p] \in Seq(Group)
    BY <1>1
  <2> QED
    BY <2>1
<1>3. f \in [Nat -> Seq(Group)] /\ IsFilled(f)
  <2>0. IsStep(step, Seq(Group))
    BY <1>2 DEF IsStep
  <2>1. PICK h : Iterates(h, Seq(Group), q, step)
    <3> HIDE DEF step
    <3> QED BY <1>0, <2>0, IterationExists
  <2>2. ASSUME NEW k \in Nat, k # 0 PROVE step[h[k - 1]] = Grow(h[k - 1], n)
    <3>1. k - 1 \in Nat
      BY <2>2
    <3> HIDE DEF step
    <3>2. h[k - 1] \in Seq(Group)
      BY <2>1, <3>1 DEF Iterates
    <3> QED
      BY <1>1, <3>2
  <2> HIDE DEF step
  <2>3. IsFilled(h)
    BY <2>1, <2>2 DEF Iterates
  <2>4. IsFilled(f)
    <3> HIDE DEF IsFilled
    <3> QED BY <2>3
  <2>5. f[0] = q /\ \A k \in Nat \ {0} : f[k] = Grow(f[k - 1], n)
    BY <2>4
  <2> DEFINE T == {k \in Nat : f[k] \in Seq(Group)}
  <2> HIDE DEF f
  <2>6. 0 \in T
    BY <1>0, <2>5
  <2>7. ASSUME NEW k \in T PROVE k + 1 \in T
    <3>1. k + 1 \in Nat \ {0} /\ (k + 1) - 1 = k /\ f[k] \in Seq(Group)
      OBVIOUS
    <3>2. f[k + 1] = Grow(f[k], n)
      BY <2>5, <3>1
    <3>3. Grow(f[k], n) \in Seq(Group)
      BY <1>1, <3>1
    <3> QED BY <3>1, <3>2, <3>3
  <2> HIDE DEF T
  <2>8. T = Nat
    BY <2>6, <2>7, SetInduction DEF T
  <2> QED
    BY <2>4, <2>8 DEF T
<1>4. FillUp(q, n) = f[n]
  BY DEF FillUp
<1> HIDE DEF f, step
<1>5. f[0] = q /\ \A k \in Nat \ {0} : f[k] = Grow(f[k - 1], n)
  BY <1>3
<1>6. ASSUME NEW p, NEW k \in Nat, Filled(p, k) PROVE Filled(Grow(p, n), k + 1)
  <2>0. p \in Seq(Group) /\ Len(p) \in Nat
    BY <1>6 DEF Queue
  <2>1. CASE EndOf(p) = Size
    <3>1. Grow(p, n) = p
      BY <1>0, <2>1 DEF Grow
    <3> QED BY <1>6, <2>1, <3>1
  <2>2. CASE n <= Len(p)
    <3>1. Grow(p, n) = p
      BY <2>0, <2>2 DEF Grow
    <3> QED BY <1>6, <2>2, <3>1
  <2>3. CASE EndOf(p) # Size /\ ~(n <= Len(p))
    <3>1. /\ EndOf(p) < Size /\ IsGroup(GroupAt(EndOf(p))) /\ GroupAt(EndOf(p)).first = EndOf(p)
          /\ GroupOf(EndOf(p)) = 0 + Len(p)
      BY <1>0, <1>6, <2>3, QueueGoesOn
    <3>2. Grow(p, n) = Append(p, GroupAt(EndOf(p)))
      BY <2>0, <2>3, <3>1 DEF Grow
    <3>3. Queue(Grow(p, n), 0) /\ Len(Grow(p, n)) = Len(p) + 1
      BY <1>6, <3>1, <3>2, QueueAppend
    <3> QED
      BY <1>0, <1>6, <2>0, <2>3, <3>3
  <2> QED
    BY <2>1, <2>2, <2>3
<1> DEFINE T == {k \in Nat : Filled(f[k], k)}
<1>7. 0 \in T
  BY <1>0, <1>5
<1>8. ASSUME NEW k \in T PROVE k + 1 \in T
  <2>1. k \in Nat /\ Filled(f[k], k)
    OBVIOUS
  <2>2. f[k + 1] = Grow(f[k], n)
    BY <1>5, <2>1
  <2> HIDE DEF Filled
  <2>3. Filled(f[k + 1], k + 1)
    BY <1>6, <2>1, <2>2
  <2> QED
    BY <2>1, <2>3
<1> HIDE DEF T
<1>9. T = Nat
  BY <1>7, <1>8, SetInduction DEF T
<1>10. Filled(f[n], n)
  BY <1>9 DEF T
<1>11. Len(f[n]) \in Nat
  BY <1>3
<1> QED
  BY <1>0, <1>4, <1>10, <1>11
-----------------------------------------------------------------------------
(* The helper *)

\* What its functions find for a group of the queue.
LEMMA GroupOfQueue ==
  ASSUME Queue(groups, headNum), NEW n \in headNum .. LastGroupNum
  PROVE  IsGroup(PeerGroup(n)) /\ GroupOf(PeerGroup(n).first) = n
<1>1. groups \in Seq(Group) /\ Len(groups) \in Nat /\ headNum \in Nat /\ n \in Nat
  BY DEF Queue, LastGroupNum
<1>2. /\ n - headNum \in 0 .. Len(groups) - 1 /\ n - headNum + 1 \in 1 .. Len(groups)
      /\ headNum + (n - headNum + 1) - 1 = n
  BY <1>1 DEF LastGroupNum
<1>3. PeerGroup(n) = groups[n - headNum + 1]
  BY <1>2 DEF PeerGroup
<1> QED
  BY <1>2, <1>3 DEF Queue

\* When it has come to the end, no row is in a later group than its last.
LEMMA LastIsLast ==
  ASSUME rows \in Seq(Value), Size # 0, Queue(groups, headNum), Complete,
         NEW i \in 0 .. Size - 1
  PROVE  groups # <<>> /\ GroupOf(i) <= LastGroupNum
<1>1. groups \in Seq(Group) /\ headNum \in Nat /\ Size \in Nat \ {0} /\ groups # <<>>
  BY DEF Queue, Complete, EndOf, Size
<1>2. Len(groups) \in 1 .. Len(groups)
  BY <1>1
<1> DEFINE g == groups[Len(groups)]
<1>3. /\ IsGroup(g) /\ GroupOf(g.first) = LastGroupNum /\ After(g) = Size
  BY <1>1, <1>2 DEF Queue, LastGroupNum, Complete, EndOf
<1>4. ~(i >= Size)
  BY <1>1
<1> HIDE DEF g
<1>5. ~(GroupOf(i) > GroupOf(g.first))
  BY <1>3, <1>4, RowsOfGroup
<1>6. GroupOf(i) \in Nat /\ LastGroupNum \in Int
  <2>1. GroupOf(i) \in 0 .. i
    BY GroupOfType
  <2> QED
    BY <1>1, <2>1 DEF LastGroupNum
<1> QED
  BY <1>1, <1>3, <1>5, <1>6

\* The current row is in the current group, and the helper has it.
LEMMA CurrentGroup ==
  ASSUME FramesAssumption, Given, Computing
  PROVE  /\ group \in headNum .. LastGroupNum /\ group \in Nat
         /\ IsGroup(PeerGroup(group)) /\ GroupOf(PeerGroup(group).first) = group
         /\ PeerGroup(group).first <= row /\ row < After(PeerGroup(group))
<1>1. /\ rows \in Seq(Value) /\ Size \in Nat \ {0} /\ Queue(groups, headNum)
      /\ row \in 0 .. Size - 1 /\ group = GroupOf(row) /\ row \in Nat
      /\ headNum \in Nat /\ LastGroupNum \in Int
  BY GivenRows DEF Computing, Queue, LastGroupNum, Size
<1>2. GroupOf(row) \in 0 .. row
  BY <1>1, GroupOfType
<1>3. group \in Nat /\ headNum <= group
  <2>1. headNum <= group
    BY DEF Computing, ReachesBack
  <2>2. group \in 0 .. row
    BY <1>1, <1>2
  <2> QED
    BY <1>1, <2>1, <2>2
<1>4. group <= LastGroupNum
  <2>1. CASE Complete
    BY <1>1, <2>1, LastIsLast
  <2>2. CASE ~Complete
    BY <2>2 DEF Computing, ReachesAhead
  <2> QED
    BY <2>1, <2>2
<1>5. group \in headNum .. LastGroupNum
  BY <1>1, <1>3, <1>4
<1>6. IsGroup(PeerGroup(group)) /\ GroupOf(PeerGroup(group).first) = group
  BY <1>1, <1>5, GroupOfQueue
<1>7. /\ PeerGroup(group).first \in Nat /\ After(PeerGroup(group)) \in Nat
  BY <1>6 DEF IsGroup, Group, After
<1>8. ~(row < PeerGroup(group).first) /\ ~(row >= After(PeerGroup(group)))
  BY <1>1, <1>3, <1>6, RowsOfGroup
<1> QED
  BY <1>1, <1>3, <1>5, <1>6, <1>7, <1>8

LEMMA FrameInitially == FramesAssumption => (WindowInit => FrameIInv)
BY DEF WindowInit, FrameIInv, Given

\* The rows do not change, nor what is said of them.
LEMMA RowsStay ==
  ASSUME UNCHANGED <<rows, dir, frame>>
  PROVE  /\ Given' = Given /\ Size' = Size
         /\ \A i : GroupOf(i)' = GroupOf(i)
         /\ \A g : IsGroup(g)' = IsGroup(g)
<1>1. Size' = Size
  BY DEF Size
<1>3. ASSUME NEW i PROVE GroupOf(i)' = GroupOf(i)
  BY DEF GroupOf, At
<1>4. ASSUME NEW g PROVE IsGroup(g)' = IsGroup(g)
  BY DEF IsGroup, At, After, Size
<1> QED
  BY <1>1, <1>3, <1>4 DEF Given

LEMMA QueueAfter ==
  ASSUME UNCHANGED <<rows, dir, frame>>, NEW q, NEW h, groups' = q, headNum' = h
  PROVE  /\ Queue(groups, headNum)' = Queue(q, h)
         /\ Complete' = (EndOf(q) = Size)
         /\ LastGroupNum' = h + Len(q) - 1
<1>1. ASSUME NEW g PROVE (GroupOf(g.first) = GroupOf(g.first)') /\ IsGroup(g)' = IsGroup(g)
  BY RowsStay
<1>2. Queue(groups, headNum)' = (/\ q \in Seq(Group) /\ h \in Nat
        /\ \A k \in 1 .. Len(q) : IsGroup(q[k])' /\ GroupOf(q[k].first)' = h + k - 1)
  BY DEF Queue, IsGroup, At, After, Size, GroupOf
<1>3. Queue(groups, headNum)' = Queue(q, h)
  BY <1>1, <1>2 DEF Queue
<1> QED
  BY <1>3 DEF Complete, EndOf, After, Size, LastGroupNum

LEMMA RowAfter ==
  ASSUME UNCHANGED <<rows, dir, frame>>, NEW i, NEW n, row' = i, group' = n
  PROVE  (row \in 0 .. Size - 1 /\ group = GroupOf(row))' = (i \in 0 .. Size - 1 /\ n = GroupOf(i))
BY DEF Size, GroupOf, At

\* Init finds the groups that the first row asks for.
LEMMA InitKeeps ==
  ASSUME FramesAssumption, FrameIInv, HelperInit
  PROVE  FrameIInv'
<1> DEFINE before == IF frame.mode = "GROUPS" /\ frame.start.kind = "following"
                     THEN FillUp(<<>>, frame.start.n) ELSE <<>>
           first  == Append(before, GroupAt(EndOf(before)))
           all    == IF frame.mode = "GROUPS" /\ frame.end.kind = "following"
                     THEN FillUp(first, frame.end.n + 1) ELSE first
<1>1. /\ phase' = "compute" /\ groups' = IF EndOf(before) = Size THEN before ELSE all
      /\ skipped' = (EndOf(before) = Size)
      /\ allDone' = (EndOf(before) # Size /\ EndOf(groups') = Size)
      /\ UNCHANGED <<rows, dir, frame>> /\ headNum' = 0 /\ row' = 0 /\ group' = 0
  BY DEF HelperInit, FrameIInv
<1>2. /\ Given /\ rows \in Seq(Value) /\ Size \in Nat \ {0} /\ Size # 0 /\ 0 \in 0 .. Size - 1
  BY GivenRows DEF FrameIInv
<1>3. /\ frame.start.kind = "following" => frame.start.n \in Nat
      /\ frame.end.kind = "following" => frame.end.n \in Nat
  BY <1>2, BoundsOfFrame
<1>4. Queue(<<>>, 0)
  BY DEF Queue
<1>5. /\ Queue(before, 0)
      /\ EndOf(before) # Size /\ frame.mode = "GROUPS" /\ frame.start.kind = "following" =>
           frame.start.n <= Len(before)
      /\ EndOf(before) = Size => before # <<>>
  <2>1. CASE frame.mode = "GROUPS" /\ frame.start.kind = "following"
    BY <1>2, <1>3, <1>4, <2>1, FillUpFills DEF EndOf
  <2>2. CASE ~(frame.mode = "GROUPS" /\ frame.start.kind = "following")
    BY <1>2, <1>4, <2>2 DEF EndOf
  <2> QED
    BY <2>1, <2>2
<1> HIDE DEF before
<1>6. 0 \in 0 .. Size - 1 /\ 0 = GroupOf(0)
  <2>1. GroupOf(0) \in 0 .. 0
    BY <1>2, GroupOfType
  <2> QED
    BY <1>2, <2>1
<1>7. CASE EndOf(before) = Size
  <2>1. groups' = before /\ skipped' = TRUE /\ allDone' = FALSE
    BY <1>1, <1>7
  <2>2. Complete'
    BY <1>1, <1>7, <2>1, QueueAfter
  <2>4. Queue(groups, headNum)'
    BY <1>1, <1>5, <2>1, QueueAfter
  <2>5. (row \in 0 .. Size - 1 /\ group = GroupOf(row))'
    BY <1>1, <1>6, RowAfter
  <2>6. ReachesBack' /\ ReachesAhead'
    BY <1>1, <2>2 DEF ReachesBack, ReachesAhead
  <2> QED
    BY <1>1, <1>2, <2>1, <2>2, <2>4, <2>5, <2>6 DEF FrameIInv, Computing, Given
<1>8. CASE EndOf(before) # Size
  <2> DEFINE g == GroupAt(EndOf(before))
  <2>1. IsGroup(g) /\ GroupOf(g.first) = 0 + Len(before) /\ before \in Seq(Group)
    <3>1. Queue(before, 0) /\ (before = <<>> => 0 = 0)
      BY <1>5
    <3>2. IsGroup(g) /\ g.first = EndOf(before) /\ GroupOf(EndOf(before)) = 0 + Len(before)
      BY <1>2, <1>8, <3>1, QueueGoesOn
    <3> QED BY <3>1, <3>2 DEF Queue
  <2>2. Queue(first, 0) /\ Len(first) = Len(before) + 1
    <3>1. first = Append(before, g)
      OBVIOUS
    <3> HIDE DEF g, first
    <3>2. Queue(before, 0) /\ IsGroup(g) /\ GroupOf(g.first) = 0 + Len(before)
      BY <1>5, <2>1
    <3> QED BY <3>1, <3>2, QueueAppend
  <2> HIDE DEF g, first
  <2>3. /\ Queue(all, 0) /\ Len(first) <= Len(all)
        /\ EndOf(all) # Size /\ frame.mode = "GROUPS" /\ frame.end.kind = "following" =>
             frame.end.n + 1 <= Len(all)
    <3>1. Len(first) \in Nat
      BY <2>2 DEF Queue
    <3>2. CASE frame.mode = "GROUPS" /\ frame.end.kind = "following"
      <4>1. frame.end.n + 1 \in Nat
        BY <1>3, <3>2
      <4> QED
        BY <1>2, <2>2, <3>2, <4>1, FillUpFills
    <3>3. CASE ~(frame.mode = "GROUPS" /\ frame.end.kind = "following")
      BY <2>2, <3>1, <3>3
    <3> QED
      BY <3>2, <3>3
  <2> HIDE DEF all
  <2>4. groups' = all /\ skipped' = FALSE /\ allDone' = (EndOf(all) = Size)
    BY <1>1, <1>8
  <2>5. Complete' <=> EndOf(all) = Size
    BY <1>1, <2>4, QueueAfter
  <2>6. Queue(groups, headNum)'
    BY <1>1, <2>3, <2>4, QueueAfter
  <2>7. (row \in 0 .. Size - 1 /\ group = GroupOf(row))'
    BY <1>1, <1>6, RowAfter
  <2>8. ReachesBack'
    BY <1>1 DEF ReachesBack
  <2>9. LastGroupNum' = Len(all) - 1 /\ Len(all) \in Nat /\ Len(before) \in Nat
    BY <1>1, <2>3, <2>4, <2>1 DEF LastGroupNum, Queue
  <2>10. ReachesAhead'
    <3>1. ~Complete' => EndOf(all) # Size
      BY <2>5
    <3>2. 0 <= Len(all) - 1
      BY <2>2, <2>3, <2>9
    <3>3. EndOf(all) # Size /\ frame.mode = "GROUPS" /\ frame.start.kind = "following" =>
            0 + frame.start.n <= Len(all) - 1
      <4>1. SUFFICES ASSUME frame.mode = "GROUPS", frame.start.kind = "following"
                     PROVE  0 + frame.start.n <= Len(all) - 1
        OBVIOUS
      <4>2. frame.start.n <= Len(before) /\ frame.start.n \in Nat
        BY <1>3, <1>5, <1>8, <4>1
      <4>3. Len(first) = Len(before) + 1 /\ Len(first) <= Len(all)
        BY <2>2, <2>3
      <4> QED
        BY <2>9, <4>2, <4>3
    <3>4. EndOf(all) # Size /\ frame.mode = "GROUPS" /\ frame.end.kind = "following" =>
            0 + frame.end.n <= Len(all) - 1
      BY <1>3, <2>3, <2>9
    <3> QED
      BY <1>1, <2>9, <3>1, <3>2, <3>3, <3>4 DEF ReachesAhead
  <2> QED
    BY <1>1, <1>2, <2>4, <2>5, <2>6, <2>7, <2>8, <2>10 DEF FrameIInv, Computing, Given
<1> QED
  BY <1>7, <1>8

\* The next row of a group is one of its rows.
LEMMA RowKeeps ==
  ASSUME FramesAssumption, FrameIInv, NextRow
  PROVE  FrameIInv'
<1>1. /\ phase = "compute" /\ row + 1 < After(PeerGroup(group)) /\ row' = row + 1 /\ group' = group
      /\ UNCHANGED <<rows, dir, frame, phase, groups, headNum, skipped, allDone>>
  BY DEF NextRow
<1>2. /\ Given /\ Computing /\ rows \in Seq(Value) /\ Size \in Nat /\ row \in 0 .. Size - 1 /\ row \in Nat
  BY <1>1, GivenRows DEF FrameIInv, Computing
<1> DEFINE g == PeerGroup(group)
<1>3. /\ IsGroup(g) /\ GroupOf(g.first) = group /\ g.first <= row /\ group \in Nat
  BY <1>2, CurrentGroup
<1>4. After(g) \in Nat /\ After(g) <= Size /\ g.first \in Nat
  BY <1>3 DEF IsGroup, Group, After
<1>5. row + 1 \in 0 .. Size - 1 /\ ~(row + 1 < g.first) /\ ~(row + 1 >= After(g))
  BY <1>1, <1>2, <1>3, <1>4
<1>6. GroupOf(row + 1) \in 0 .. row + 1
  BY <1>2, <1>5, GroupOfType
<1>7. group = GroupOf(row + 1)
  <2>1. ~(GroupOf(row + 1) < group) /\ ~(GroupOf(row + 1) > group)
    BY <1>2, <1>3, <1>5, RowsOfGroup
  <2> QED
    BY <1>2, <1>3, <1>6, <2>1
<1>8. (row \in 0 .. Size - 1 /\ group = GroupOf(row))'
  BY <1>1, <1>5, <1>7, RowAfter
<1>9. Queue(groups, headNum)' = Queue(groups, headNum) /\ Complete' = Complete
      /\ LastGroupNum' = headNum + Len(groups) - 1
  BY <1>1, QueueAfter DEF Complete
<1>10. ReachesBack' /\ ReachesAhead'
  BY <1>1, <1>2, <1>9 DEF Computing, ReachesBack, ReachesAhead, LastGroupNum
<1>11. Computing'
  BY <1>1, <1>2, <1>8, <1>9, <1>10 DEF Computing
<1> QED
  BY <1>1, <1>2, <1>11 DEF FrameIInv, Given

\* Update forgets no group that the rows of the next one ask for, and finds
\* those it does not know yet.
LEMMA GroupKeeps ==
  ASSUME FramesAssumption, FrameIInv, NextGroup
  PROVE  FrameIInv'
<1> DEFINE kept == IF Discard THEN Tail(groups) ELSE groups
           g == PeerGroup(group)
<1>1. /\ phase = "compute" /\ row + 1 = After(g)
      /\ groups' = IF skipped THEN groups
                   ELSE IF allDone THEN kept
                   ELSE Append(kept, GroupAt(EndOf(groups)))
      /\ headNum' = IF ~skipped /\ Discard THEN headNum + 1 ELSE headNum
      /\ allDone' = (allDone \/ (~skipped /\ EndOf(groups') = Size))
      /\ phase' = IF row + 1 = Size THEN "done" ELSE "compute"
      /\ row' = row + 1 /\ group' = group + 1
      /\ UNCHANGED <<rows, dir, frame, skipped>>
  BY DEF NextGroup
<1>2. /\ Given /\ Computing /\ rows \in Seq(Value) /\ Size \in Nat \ {0} /\ Size # 0
      /\ row \in 0 .. Size - 1 /\ row \in Nat /\ frame.mode \in Modes
  BY <1>1, GivenRows DEF FrameIInv, Computing
<1>3. Given'
  BY <1>1, <1>2, RowsStay
<1>4. CASE row + 1 = Size
  BY <1>1, <1>3, <1>4 DEF FrameIInv
<1>5. CASE row + 1 # Size
  <2>1. /\ IsGroup(g) /\ GroupOf(g.first) = group /\ group \in headNum .. LastGroupNum /\ group \in Nat
    BY <1>2, CurrentGroup
  <2>2. After(g) # Size
    BY <1>1, <1>5
  <2>3. row + 1 \in 0 .. Size - 1 /\ group + 1 = GroupOf(row + 1)
    <3>1. After(g) \in 1 .. Size - 1 /\ GroupOf(After(g)) = group + 1
      BY <1>2, <2>1, <2>2, AfterGroup
    <3> QED
      BY <1>1, <3>1
  <2>4. (row \in 0 .. Size - 1 /\ group = GroupOf(row))'
    BY <1>1, <2>3, RowAfter
  <2>5. /\ Queue(groups, headNum) /\ groups \in Seq(Group) /\ headNum \in Nat /\ Len(groups) \in Nat \ {0}
        /\ groups # <<>> /\ ((skipped \/ allDone) <=> Complete) /\ LastGroupNum \in Nat
    <3>1. Queue(groups, headNum) /\ groups \in Seq(Group) /\ headNum \in Nat /\ Len(groups) \in Nat
      BY <1>2 DEF Computing, Queue
    <3>2. LastGroupNum \in Nat /\ Len(groups) # 0
      BY <2>1, <3>1 DEF LastGroupNum
    <3> QED
      BY <1>2, <3>1, <3>2 DEF Computing
  <2>6. Complete => group + 1 <= LastGroupNum
    BY <1>2, <2>3, <2>5, LastIsLast
  <2> DEFINE head == IF ~skipped /\ Discard THEN headNum + 1 ELSE headNum
             old  == IF ~skipped /\ Discard THEN Tail(groups) ELSE groups
  <2>7. /\ Queue(old, head) /\ head \in Nat /\ Len(old) \in Nat
        /\ head + Len(old) = headNum + Len(groups)
        /\ old # <<>> => EndOf(old) = EndOf(groups)
    <3>1. CASE ~skipped /\ Discard
      <4>1. /\ Queue(Tail(groups), headNum + 1) /\ Len(Tail(groups)) = Len(groups) - 1
            /\ Tail(groups) # <<>> => EndOf(Tail(groups)) = EndOf(groups)
        BY <2>5, QueueTail
      <4> QED
        BY <2>5, <3>1, <4>1
    <3>2. CASE ~(~skipped /\ Discard)
      BY <2>5, <3>2
    <3> QED
      BY <3>1, <3>2
  <2>8. /\ head <= group + 1
        /\ frame.mode = "GROUPS" =>
             /\ frame.start.kind \in {"unbounded preceding", "following"} => head = 0
             /\ frame.start.kind = "preceding" => head = 0 \/ head + frame.start.n <= group + 1
    <3>1. ReachesBack
      BY <1>2 DEF Computing
    <3>2. frame.start.kind \in {"preceding", "following"} => frame.start.n \in Nat
      BY <1>2, BoundsOfFrame
    <3>3. headNum <= group
      BY <3>1 DEF ReachesBack
    <3>4. head <= group + 1
      BY <2>1, <2>5, <3>3
    <3>5. ASSUME frame.mode = "GROUPS", frame.start.kind \in {"unbounded preceding", "following"}
          PROVE  head = 0
      <4>1. headNum = 0
        BY <3>1, <3>5 DEF ReachesBack
      <4>2. ~Discard
        <5>1. frame.start.kind = "following" => ~(headNum - group > frame.start.n)
          BY <2>1, <3>2, <4>1
        <5> QED
          BY <3>5, <5>1 DEF Discard
      <4> QED
        BY <4>1, <4>2
    <3>6. ASSUME frame.mode = "GROUPS", frame.start.kind = "preceding"
          PROVE  head = 0 \/ head + frame.start.n <= group + 1
      <4>1. headNum = 0 \/ headNum + frame.start.n <= group
        BY <3>1, <3>6 DEF ReachesBack
      <4>2. Discard <=> group - headNum > frame.start.n
        BY <3>6 DEF Discard
      <4> QED
        BY <2>1, <2>5, <3>2, <3>6, <4>1, <4>2
    <3> QED
      BY <3>4, <3>5, <3>6
  <2> HIDE DEF head
  <2>9. CASE skipped \/ allDone
    <3>1. groups' = old /\ headNum' = head
      BY <1>1, <2>9 DEF head
    <3>2. Complete /\ EndOf(groups) = Size
      BY <2>5, <2>9 DEF Complete
    <3>3. old # <<>>
      <4>1. head <= LastGroupNum /\ LastGroupNum = headNum + Len(groups) - 1
        <5>1. group + 1 <= LastGroupNum /\ head <= group + 1
          BY <2>6, <2>8, <3>2
        <5> QED
          BY <2>1, <2>5, <2>7, <5>1 DEF LastGroupNum
      <4> HIDE DEF old
      <4>2. Len(old) # 0
        BY <2>5, <2>7, <4>1
      <4>3. Len(<<>>) = 0
        OBVIOUS
      <4> QED
        BY <4>2, <4>3
    <3>4. EndOf(old) = Size
      BY <2>7, <3>2, <3>3
    <3> HIDE DEF old
    <3>5. Queue(groups, headNum)' /\ Complete'
      BY <1>1, <2>7, <3>1, <3>4, QueueAfter
    <3>6. (skipped \/ allDone)'
      BY <1>1, <2>9
    <3>7. ReachesBack'
      BY <1>1, <2>8, <3>1 DEF ReachesBack
    <3>8. ReachesAhead'
      BY <3>5 DEF ReachesAhead
    <3>9. Computing'
      BY <2>4, <3>5, <3>6, <3>7, <3>8 DEF Computing
    <3> QED
      BY <1>1, <1>3, <1>5, <3>9 DEF FrameIInv
  <2>10. CASE ~(skipped \/ allDone)
    <3> DEFINE next == GroupAt(EndOf(groups))
    <3>1. groups' = Append(old, next) /\ headNum' = head
      BY <1>1, <2>10 DEF head
    <3>2. ~Complete /\ EndOf(groups) # Size
      BY <2>5, <2>10 DEF Complete
    <3>3. IsGroup(next) /\ GroupOf(next.first) = headNum + Len(groups)
      BY <1>2, <2>5, <3>2, QueueGoesOn
    <3> HIDE DEF old, next
    <3>4. GroupOf(next.first) = head + Len(old)
      BY <2>7, <3>3
    <3>5. /\ Queue(Append(old, next), head) /\ Len(Append(old, next)) = Len(old) + 1
      BY <2>7, <3>3, <3>4, QueueAppend
    <3>6. /\ Queue(groups, headNum)' /\ LastGroupNum' = head + (Len(old) + 1) - 1
          /\ Complete' = (EndOf(groups') = Size)
      BY <1>1, <3>1, <3>5, QueueAfter
    <3>7. (skipped \/ allDone)' <=> Complete'
      BY <1>1, <2>10, <3>6
    <3>8. ReachesBack'
      BY <1>1, <2>8, <3>1 DEF ReachesBack
    <3>9. ReachesAhead'
      <4>1. LastGroupNum' = LastGroupNum + 1
        BY <2>5, <2>7, <3>6 DEF LastGroupNum
      <4>2. ReachesAhead
        BY <1>2 DEF Computing
      <4>3. /\ frame.start.kind = "following" => frame.start.n \in Nat
            /\ frame.end.kind = "following" => frame.end.n \in Nat
        BY <1>2, BoundsOfFrame
      <4> QED
        BY <1>1, <2>1, <2>5, <3>2, <4>1, <4>2, <4>3 DEF ReachesAhead
    <3>10. Computing'
      BY <2>4, <3>6, <3>7, <3>8, <3>9 DEF Computing
    <3> QED
      BY <1>1, <1>3, <1>5, <3>10 DEF FrameIInv
  <2> QED
    BY <2>9, <2>10
<1> QED
  BY <1>4, <1>5

\* While a row's frame is computed, the helper has the groups it asks for.
LEMMA FrameStepKeeps ==
  ASSUME FramesAssumption, FrameIInv, [WindowNext]_windowVars
  PROVE  FrameIInv'
<1>1. CASE UNCHANGED windowVars
  <2>1. UNCHANGED <<rows, dir, frame, phase, groups, headNum, skipped, allDone, row, group>>
    BY <1>1 DEF windowVars
  <2>2. /\ Queue(groups, headNum)' = Queue(groups, headNum) /\ Complete' = Complete
        /\ LastGroupNum' = LastGroupNum
    BY <2>1, QueueAfter DEF Complete, LastGroupNum
  <2>3. (row \in 0 .. Size - 1 /\ group = GroupOf(row))' = (row \in 0 .. Size - 1 /\ group = GroupOf(row))
    BY <2>1, RowAfter
  <2>4. Computing => Computing'
    BY <2>1, <2>2, <2>3 DEF Computing, ReachesBack, ReachesAhead
  <2> QED
    BY <2>1, <2>4, RowsStay DEF FrameIInv
<1> QED
  BY <1>1, InitKeeps, RowKeeps, GroupKeeps DEF WindowNext
-----------------------------------------------------------------------------
(* Bounds of frames *)

\* Halving finds where what is sought begins, if all after one that is found are.
LEMMA SearchFinds ==
  ASSUME NEW n \in Nat, NEW found,
         \A i \in 0 .. n - 1 : i \in found => \A j \in i .. n - 1 : j \in found
  PROVE  Search(n, found) \in 0 .. n /\ \A i \in 0 .. n - 1 : i \in found <=> i >= Search(n, found)
<1> DEFINE S == (0 .. n) \X (0 .. n)
           step == [p \in S |-> Halve(p, found)]
           IsHalved(f) == f = [k \in Nat |-> IF k = 0 THEN <<0, n>> ELSE Halve(f[k - 1], found)]
           f == CHOOSE f : IsHalved(f)
           Around(p, k) == /\ p \in S /\ p[1] <= p[2]
                           /\ \A i \in 0 .. n - 1 : i < p[1] => i \notin found
                           /\ \A i \in 0 .. n - 1 : i >= p[2] => i \in found
                           /\ p[1] = p[2] \/ p[2] - p[1] + k <= n
<1>1. ASSUME NEW p \in S, p[1] < p[2]
      PROVE  LET h == (p[1] + p[2]) \div 2 IN h \in p[1] .. p[2] - 1 /\ h \in 0 .. n - 1
  <2>1. p[1] \in 0 .. n /\ p[2] \in 0 .. n
    OBVIOUS
  <2> QED
    BY <1>1, <2>1
<1>2. ASSUME NEW p \in S PROVE Halve(p, found) \in S
  <2>1. p[1] \in 0 .. n /\ p[2] \in 0 .. n /\ p = <<p[1], p[2]>>
    OBVIOUS
  <2>2. CASE p[1] >= p[2]
    BY <2>2 DEF Halve
  <2>3. CASE p[1] < p[2]
    <3> DEFINE h == (p[1] + p[2]) \div 2
    <3>1. h \in 0 .. n - 1
      BY <1>1, <2>3
    <3>2. Halve(p, found) = IF h \in found THEN <<p[1], h>> ELSE <<h + 1, p[2]>>
      BY <2>1, <2>3 DEF Halve
    <3> HIDE DEF h
    <3> QED
      BY <2>1, <3>1, <3>2
  <2> QED
    BY <2>1, <2>2, <2>3
<1>3. IsHalved(f)
  <2>1. <<0, n>> \in S /\ IsStep(step, S)
    BY <1>2 DEF IsStep
  <2>2. PICK h : Iterates(h, S, <<0, n>>, step)
    <3> HIDE DEF S, step
    <3> QED BY <2>1, IterationExists
  <2>3. ASSUME NEW k \in Nat, k # 0 PROVE step[h[k - 1]] = Halve(h[k - 1], found)
    <3>1. k - 1 \in Nat
      BY <2>3
    <3>2. h[k - 1] \in S
      BY <2>2, <3>1 DEF Iterates
    <3> QED
      BY <3>2
  <2> HIDE DEF step, S
  <2>4. IsHalved(h)
    BY <2>2, <2>3 DEF Iterates
  <2> HIDE DEF IsHalved
  <2> QED
    BY <2>4
<1> HIDE DEF f
<1>4. f[0] = <<0, n>> /\ \A k \in Nat \ {0} : f[k] = Halve(f[k - 1], found)
  BY <1>3
<1>5. Search(n, found) = f[n][1]
  BY DEF Search, f
<1>6. ASSUME NEW p, NEW k \in Nat, Around(p, k) PROVE Around(Halve(p, found), k + 1)
  <2>1. p \in S /\ p[1] \in 0 .. n /\ p[2] \in 0 .. n /\ p[1] <= p[2]
    BY <1>6
  <2>2. CASE p[1] = p[2]
    <3>1. Halve(p, found) = p
      BY <2>1, <2>2 DEF Halve
    <3> QED
      BY <1>6, <2>2, <3>1
  <2>3. CASE p[1] < p[2]
    <3> DEFINE h == (p[1] + p[2]) \div 2
    <3>1. h \in 0 .. n - 1 /\ h \in p[1] .. p[2] - 1
      BY <1>1, <2>1, <2>3
    <3>2. Halve(p, found) = IF h \in found THEN <<p[1], h>> ELSE <<h + 1, p[2]>>
      BY <2>1, <2>3 DEF Halve
    <3>3. p[2] - p[1] + k <= n
      BY <1>6, <2>1, <2>3
    <3>4. Halve(p, found) \in S
      BY <1>2, <2>1
    <3>5. \A i \in 0 .. n - 1 : (i < p[1] => i \notin found) /\ (i >= p[2] => i \in found)
      BY <1>6
    <3> HIDE DEF h, S
    <3>6. CASE h \in found
      <4>1. Halve(p, found) = <<p[1], h>>
        BY <3>2, <3>6
      <4>2. \A i \in 0 .. n - 1 : i >= h => i \in found
        BY <3>1, <3>6
      <4>3. p[1] <= h /\ (p[1] = h \/ h - p[1] + (k + 1) <= n)
        BY <2>1, <3>1, <3>3
      <4> QED
        BY <3>4, <3>5, <4>1, <4>2, <4>3
    <3>7. CASE h \notin found
      <4>1. Halve(p, found) = <<h + 1, p[2]>>
        BY <3>2, <3>7
      <4>2. \A i \in 0 .. n - 1 : i < h + 1 => i \notin found
        BY <3>1, <3>7
      <4>3. h + 1 <= p[2] /\ (h + 1 = p[2] \/ p[2] - (h + 1) + (k + 1) <= n)
        BY <2>1, <3>1, <3>3
      <4> QED
        BY <3>4, <3>5, <4>1, <4>2, <4>3
    <3> QED
      BY <3>6, <3>7
  <2> QED
    BY <2>1, <2>2, <2>3
<1> DEFINE T == {k \in Nat : Around(f[k], k)}
<1>7. 0 \in T
  <2> DEFINE p == <<0, n>>
  <2>1. p \in S /\ p[1] = 0 /\ p[2] = n
    OBVIOUS
  <2>2. f[0] = p
    BY <1>4
  <2> HIDE DEF p, S
  <2>3. Around(p, 0)
    BY <2>1
  <2> HIDE DEF Around
  <2> QED
    BY <2>2, <2>3
<1>8. ASSUME NEW k \in T PROVE k + 1 \in T
  <2>1. k \in Nat /\ Around(f[k], k)
    OBVIOUS
  <2>2. f[k + 1] = Halve(f[k], found)
    BY <1>4, <2>1
  <2> HIDE DEF Around
  <2>3. Around(f[k + 1], k + 1)
    BY <1>6, <2>1, <2>2
  <2> QED
    BY <2>1, <2>3
<1> HIDE DEF T
<1>9. T = Nat
  BY <1>7, <1>8, SetInduction DEF T
<1>10. Around(f[n], n)
  BY <1>9 DEF T
<1>11. f[n][1] \in 0 .. n /\ f[n][2] \in 0 .. n /\ f[n][1] = f[n][2]
  BY <1>10
<1> QED
  BY <1>5, <1>10, <1>11

\* What the proofs about bounds know of the current row.
LEMMA CurrentRow ==
  ASSUME FramesAssumption, Given, Computing
  PROVE  /\ rows \in Seq(Value) /\ Size \in Nat \ {0} /\ Size \in 1 .. LargestInt /\ LargestInt \in Nat
         /\ Null \notin Int /\ dir \in {"asc", "desc"} /\ frame.mode \in Modes
         /\ row \in 0 .. Size - 1 /\ row \in Nat
         /\ \A i \in 0 .. Size - 1 : At(i) \in Value /\ i \in Nat
         /\ At(row) \in Value
<1>1. rows \in Seq(Value) /\ row \in 0 .. Size - 1 /\ Size \in 1 .. LargestInt
  BY GivenRows DEF Computing
<1>2. \A i \in 0 .. Size - 1 : At(i) \in Value
  BY <1>1 DEF At, Size
<1> QED
  BY <1>1, <1>2, GivenRows DEF Given

\* The column is ordered.
LEMMA UptoOrders ==
  ASSUME Null \notin Int, dir \in {"asc", "desc"},
         NEW a \in Value, NEW b \in Value, NEW c \in Value
  PROVE  /\ Upto(a, a) /\ (Upto(a, b) \/ Before(b, a)) /\ ~(Upto(a, b) /\ Before(b, a))
         /\ Upto(a, b) /\ Upto(b, c) => Upto(a, c)
         /\ Before(a, b) /\ Upto(b, c) => Before(a, c)
         /\ Upto(a, b) /\ Before(b, c) => Before(a, c)
         /\ Upto(a, b) /\ a # b => Before(a, b)
BY DEF Upto, Before, Leq, Lt, Value

\* An offset from the current row's value is compared as its distance is.
LEMMA RangeDistance ==
  ASSUME FramesAssumption, Given, Computing, frame.mode = "RANGE",
         NEW i \in 0 .. Size - 1, NEW d \in Int, NEW e,
         e = (IF At(row) = Null THEN 0 ELSE d)
  PROVE  /\ ValueByOffset(d) \in Value
         /\ AtLeast(i, e) <=> Upto(ValueByOffset(d), At(i))
         /\ AtMost(i, e) <=> ~Before(ValueByOffset(d), At(i))
<1>1. /\ Null \notin Int /\ dir \in {"asc", "desc"} /\ At(row) \in Value /\ At(i) \in Value
  BY CurrentRow
<1>2. /\ NullAway(i) <=> At(i) # At(row) /\ (At(i) = Null \/ At(row) = Null)
  BY DEF NullAway
<1>3. Distance(i) = IF At(i) = At(row) THEN 0
                    ELSE IF dir = "asc" THEN At(i) - At(row) ELSE At(row) - At(i)
  BY DEF Distance
<1>4. CASE At(row) = Null
  <2>1. ValueByOffset(d) = Null /\ e = 0
    BY <1>4 DEF ValueByOffset
  <2> QED
    BY <1>1, <1>2, <1>3, <1>4, <2>1
    DEF AtLeast, AtMost, FarAfter, FarBefore, Upto, Before, Leq, Lt, Value
<1>5. CASE At(row) # Null
  <2>1. /\ At(row) \in Int /\ e = d /\ ValueByOffset(d) \in Int
        /\ ValueByOffset(d) = IF dir = "asc" THEN At(row) + d ELSE At(row) - d
    BY <1>1, <1>5 DEF ValueByOffset, Value
  <2>2. CASE At(i) = Null
    BY <1>1, <1>2, <1>5, <2>1, <2>2
    DEF AtLeast, AtMost, FarAfter, FarBefore, Upto, Before, Leq, Lt, Value
  <2>3. CASE At(i) # Null
    <3>1. At(i) \in Int /\ ~NullAway(i)
      BY <1>1, <1>2, <1>5, <2>3 DEF Value
    <3>2. AtLeast(i, e) <=> Distance(i) >= d
      BY <2>1, <3>1 DEF AtLeast, FarAfter
    <3>3. AtMost(i, e) <=> Distance(i) <= d
      BY <2>1, <3>1 DEF AtMost, FarBefore
    <3>4. Distance(i) = IF dir = "asc" THEN At(i) - At(row) ELSE At(row) - At(i)
      BY <1>3, <2>1
    <3>5. /\ Upto(ValueByOffset(d), At(i)) <=>
               (IF dir = "asc" THEN ValueByOffset(d) <= At(i) ELSE At(i) <= ValueByOffset(d))
          /\ ~Before(ValueByOffset(d), At(i)) <=>
               (IF dir = "asc" THEN At(i) <= ValueByOffset(d) ELSE ValueByOffset(d) <= At(i))
      BY <1>1, <2>1, <3>1 DEF Upto, Before, Leq, Lt
    <3> QED
      BY <1>1, <2>1, <3>1, <3>2, <3>3, <3>4, <3>5 DEF Value
  <2> QED
    BY <2>2, <2>3
<1> QED
  BY <1>4, <1>5

\* The peers of the current row are the rows of its group.
LEMMA RangePeers ==
  ASSUME FramesAssumption, Given, Computing, frame.mode = "RANGE", NEW i \in 0 .. Size - 1
  PROVE  /\ AtLeast(i, 0) <=> i >= PeerGroup(group).first
         /\ AtMost(i, 0) <=> i < After(PeerGroup(group))
<1> DEFINE g == PeerGroup(group)
<1>1. /\ Null \notin Int /\ dir \in {"asc", "desc"} /\ rows \in Seq(Value) /\ Size \in Nat
      /\ row \in 0 .. Size - 1 /\ row \in Nat /\ i \in Nat
      /\ \A j \in 0 .. Size - 1 : At(j) \in Value
  BY CurrentRow
<1>2. IsGroup(g) /\ g.first <= row /\ row < After(g)
  BY CurrentGroup
<1> HIDE DEF g
<1>3. /\ g.first \in 0 .. Size - 1 /\ After(g) \in g.first + 1 .. Size /\ g.first \in Nat
  BY <1>1, <1>2 DEF IsGroup, Group, After
<1>4. ValueByOffset(0) = At(row)
  <2>1. At(row) \in Value
    BY <1>1
  <2> QED
    BY <1>1, <2>1 DEF ValueByOffset, Value
<1>5. /\ AtLeast(i, 0) <=> Upto(At(row), At(i))
      /\ AtMost(i, 0) <=> ~Before(At(row), At(i))
  BY <1>4, RangeDistance
<1>6. ASSUME NEW j \in g.first .. After(g) - 1 PROVE At(j) = At(row)
  <2>1. \A k \in g.first + 1 .. After(g) - 1 : At(k) = At(k - 1)
    BY <1>2 DEF IsGroup
  <2>2. \A k \in g.first + 1 .. j : At(k) = At(k - 1)
    BY <1>3, <2>1
  <2>3. \A k \in g.first + 1 .. row : At(k) = At(k - 1)
    BY <1>1, <1>2, <1>3, <2>1
  <2>4. j \in g.first .. Size - 1 /\ row \in g.first .. Size - 1
    BY <1>1, <1>2, <1>3
  <2>5. At(g.first) = At(j) /\ At(g.first) = At(row)
    BY <1>1, <1>3, <2>2, <2>3, <2>4, PeersAlike
  <2> QED
    BY <2>5
<1>7. CASE i < g.first
  <2>1. /\ g.first - 1 \in 0 .. Size - 1 /\ g.first - 1 \in i .. Size - 1
        /\ g.first \in g.first - 1 .. Size - 1
    BY <1>1, <1>3, <1>7
  <2>2. Upto(At(i), At(g.first - 1))
    BY <2>1, RangeSorted
  <2>3. Upto(At(g.first - 1), At(g.first))
    BY <2>1, RangeSorted
  <2>4. At(g.first) # At(g.first - 1) /\ At(g.first) = At(row)
    BY <1>2, <1>3, <1>6, <1>7, <1>1 DEF IsGroup
  <2>5. At(i) \in Value /\ At(g.first - 1) \in Value /\ At(row) \in Value
    BY <1>1, <2>1
  <2>6. Before(At(i), At(row))
    BY <1>1, <2>2, <2>3, <2>4, <2>5, UptoOrders
  <2>7. ~Upto(At(row), At(i)) /\ ~Before(At(row), At(i))
    BY <1>1, <2>5, <2>6 DEF Before, Upto, Lt, Leq, Value
  <2> QED
    BY <1>1, <1>3, <1>5, <1>7, <2>7 DEF g
<1>8. CASE i \in g.first .. After(g) - 1
  <2>1. At(i) = At(row) /\ At(row) \in Value
    BY <1>1, <1>6, <1>8
  <2>2. Upto(At(row), At(i)) /\ ~Before(At(row), At(i))
    BY <1>1, <2>1, UptoOrders
  <2> QED
    BY <1>3, <1>5, <1>8, <2>2 DEF g
<1>9. CASE i >= After(g)
  <2>1. /\ After(g) \in 0 .. Size - 1 /\ i \in After(g) .. Size - 1 /\ After(g) - 1 \in 0 .. Size - 1
        /\ After(g) \in After(g) - 1 .. Size - 1 /\ After(g) # Size /\ After(g) - 1 \in g.first .. After(g) - 1
    BY <1>1, <1>3, <1>9
  <2>2. Upto(At(After(g) - 1), At(After(g)))
    BY <2>1, RangeSorted
  <2>3. Upto(At(After(g)), At(i))
    BY <2>1, RangeSorted
  <2>4. At(After(g)) # At(After(g) - 1) /\ At(After(g) - 1) = At(row)
    BY <1>2, <1>6, <2>1 DEF IsGroup
  <2>5. At(i) \in Value /\ At(After(g)) \in Value /\ At(row) \in Value
    BY <1>1, <2>1
  <2>6. Before(At(row), At(i))
    BY <1>1, <2>2, <2>3, <2>4, <2>5, UptoOrders
  <2>7. Upto(At(row), At(i))
    BY <1>1, <2>5, <2>6 DEF Before, Upto, Lt
  <2> QED
    BY <1>1, <1>3, <1>5, <1>9, <2>6, <2>7 DEF g
<1> QED
  BY <1>1, <1>3, <1>7, <1>8, <1>9 DEF g

\* A RANGE frame begins with the first row its definition lets in.
LEMMA RangeStarts ==
  ASSUME FramesAssumption, Given, Computing, frame.mode = "RANGE",
         frame.start.kind \in {"current", "preceding", "following"}
  PROVE  RangeStart \in 0 .. Size /\ \A i \in 0 .. Size - 1 : AfterStart(i) <=> i >= RangeStart
<1>1. /\ Null \notin Int /\ dir \in {"asc", "desc"} /\ Size \in Nat
      /\ row \in 0 .. Size - 1 /\ row \in Nat /\ At(row) \in Value
  BY CurrentRow
<1>2. /\ frame.start.kind \in {"current", "preceding", "following"}
      /\ frame.start.kind \in {"preceding", "following"} => frame.start.n \in Nat
  BY BoundsOfFrame
<1> DEFINE n == frame.start.n
<1>3. CASE frame.start.kind = "preceding"
  <2> DEFINE v == ValueByOffset(-n)
             found == {i \in 0 .. row - 1 : Upto(v, At(i))}
  <2>1. n \in Nat /\ -n \in Int /\ -Reach(n) = (IF At(row) = Null THEN 0 ELSE -n)
    BY <1>2, <1>3 DEF Reach
  <2>2. v \in Value /\ Upto(v, At(row))
    <3>1. v \in Value
      BY <1>1, <2>1, RangeDistance
    <3>2. At(row) # Null => At(row) \in Int
      BY <1>1 DEF Value
    <3> QED
      BY <1>1, <2>1, <3>1, <3>2 DEF ValueByOffset, Upto, Leq, Value
  <2>3. \A i \in 0 .. Size - 1 : AfterStart(i) <=> Upto(v, At(i))
    <3>1. ASSUME NEW i \in 0 .. Size - 1 PROVE AfterStart(i) <=> AtLeast(i, -Reach(n))
      BY <1>3 DEF AfterStart
    <3> HIDE DEF n
    <3>2. ASSUME NEW i \in 0 .. Size - 1 PROVE AtLeast(i, -Reach(n)) <=> Upto(v, At(i))
      BY <2>1, RangeDistance
    <3> QED
      BY <3>1, <3>2
  <2>4. RangeStart = Search(row, found)
    BY <1>3 DEF RangeStart
  <2> HIDE DEF v
  <2>5. ASSUME NEW i \in 0 .. Size - 1, NEW j \in i .. Size - 1, Upto(v, At(i)) PROVE Upto(v, At(j))
    <3>1. Upto(At(i), At(j)) /\ At(i) \in Value /\ At(j) \in Value
      BY RangeSorted
    <3> QED
      BY <1>1, <2>2, <2>5, <3>1, UptoOrders
  <2>6. \A i \in 0 .. row - 1 : i \in found => \A j \in i .. row - 1 : j \in found
    <3>1. \A i \in 0 .. row - 1 : i \in 0 .. Size - 1 /\ \A j \in i .. row - 1 : j \in i .. Size - 1
      BY <1>1
    <3> QED
      BY <1>1, <2>5, <3>1
  <2> DEFINE k == Search(row, found)
  <2>7. k \in 0 .. row /\ \A i \in 0 .. row - 1 : i \in found <=> i >= k
    <3> HIDE DEF found
    <3> QED BY <1>1, <2>6, SearchFinds
  <2> HIDE DEF k
  <2>8. ASSUME NEW i \in 0 .. Size - 1 PROVE Upto(v, At(i)) <=> i >= k
    <3>1. CASE i < row
      <4>1. i \in 0 .. row - 1
        BY <1>1, <3>1
      <4> QED
        BY <2>7, <4>1
    <3>2. CASE i >= row
      <4>1. i \in row .. Size - 1 /\ i >= k
        BY <1>1, <2>7, <3>2
      <4> QED
        BY <1>1, <2>2, <2>5, <4>1
    <3> QED
      BY <1>1, <3>1, <3>2
  <2>9. k \in 0 .. Size
    BY <1>1, <2>7
  <2> QED
    BY <2>3, <2>4, <2>8, <2>9 DEF k
<1>4. CASE frame.start.kind = "following"
  <2> DEFINE v == ValueByOffset(n)
             found == {i \in 0 .. Size - 1 : Upto(v, At(i))}
  <2>1. n \in Int /\ Reach(n) = (IF At(row) = Null THEN 0 ELSE n)
    BY <1>2, <1>4 DEF Reach
  <2>2. v \in Value
    BY <1>1, <2>1, RangeDistance
  <2>3. \A i \in 0 .. Size - 1 : AfterStart(i) <=> Upto(v, At(i))
    <3>1. ASSUME NEW i \in 0 .. Size - 1 PROVE AfterStart(i) <=> AtLeast(i, Reach(n))
      BY <1>4 DEF AfterStart
    <3> HIDE DEF n
    <3>2. ASSUME NEW i \in 0 .. Size - 1 PROVE AtLeast(i, Reach(n)) <=> Upto(v, At(i))
      BY <2>1, RangeDistance
    <3> QED
      BY <3>1, <3>2
  <2>4. RangeStart = Search(Size, found)
    BY <1>4 DEF RangeStart
  <2> HIDE DEF v
  <2>5. ASSUME NEW i \in 0 .. Size - 1, NEW j \in i .. Size - 1, Upto(v, At(i)) PROVE Upto(v, At(j))
    <3>1. Upto(At(i), At(j)) /\ At(i) \in Value /\ At(j) \in Value
      BY RangeSorted
    <3> QED
      BY <1>1, <2>2, <2>5, <3>1, UptoOrders
  <2>6. \A i \in 0 .. Size - 1 : i \in found => \A j \in i .. Size - 1 : j \in found
    BY <1>1, <2>5
  <2>7. /\ Search(Size, found) \in 0 .. Size
        /\ \A i \in 0 .. Size - 1 : i \in found <=> i >= Search(Size, found)
    <3> HIDE DEF found
    <3> QED BY <1>1, <2>6, SearchFinds
  <2> QED
    BY <2>3, <2>4, <2>7
<1>5. CASE frame.start.kind = "current"
  <2>1. RangeStart = PeerGroup(group).first
    BY <1>5 DEF RangeStart
  <2>2. PeerGroup(group).first \in Nat /\ PeerGroup(group).first <= row
    BY CurrentGroup DEF IsGroup, Group
  <2> QED
    BY <1>1, <1>5, <2>1, <2>2, RangePeers DEF AfterStart
<1> QED
  BY <1>2, <1>3, <1>4, <1>5

\* It ends before the first row its definition leaves out.
LEMMA RangeEnds ==
  ASSUME FramesAssumption, Given, Computing, frame.mode = "RANGE",
         frame.end.kind \in {"none", "current", "preceding", "following"}
  PROVE  RangeEnd \in 0 .. Size /\ \A i \in 0 .. Size - 1 : BeforeEnd(i) <=> i < RangeEnd
<1>1. /\ Null \notin Int /\ dir \in {"asc", "desc"} /\ Size \in Nat
      /\ row \in 0 .. Size - 1 /\ row \in Nat /\ At(row) \in Value
  BY CurrentRow
<1>2. /\ frame.end.kind \in {"none", "current", "preceding", "following"}
      /\ frame.end.kind \in {"preceding", "following"} => frame.end.n \in Nat
  BY BoundsOfFrame
<1>3. ASSUME NEW d \in Int, NEW e, e = (IF At(row) = Null THEN 0 ELSE d),
             RangeEnd = Search(Size, {i \in 0 .. Size - 1 : Before(ValueByOffset(d), At(i))}),
             \A i \in 0 .. Size - 1 : BeforeEnd(i) <=> AtMost(i, e)
      PROVE  RangeEnd \in 0 .. Size /\ \A i \in 0 .. Size - 1 : BeforeEnd(i) <=> i < RangeEnd
  <2> DEFINE v == ValueByOffset(d)
             found == {i \in 0 .. Size - 1 : Before(v, At(i))}
  <2>1. v \in Value /\ \A i \in 0 .. Size - 1 : BeforeEnd(i) <=> ~Before(v, At(i))
    BY <1>1, <1>3, RangeDistance
  <2>2. RangeEnd = Search(Size, found)
    BY <1>3
  <2> HIDE DEF v
  <2>3. ASSUME NEW i \in 0 .. Size - 1, NEW j \in i .. Size - 1, Before(v, At(i)) PROVE Before(v, At(j))
    <3>1. Upto(At(i), At(j)) /\ At(i) \in Value /\ At(j) \in Value
      BY RangeSorted
    <3> QED
      BY <1>1, <2>1, <2>3, <3>1, UptoOrders
  <2>4. \A i \in 0 .. Size - 1 : i \in found => \A j \in i .. Size - 1 : j \in found
    BY <1>1, <2>3
  <2>5. /\ Search(Size, found) \in 0 .. Size
        /\ \A i \in 0 .. Size - 1 : i \in found <=> i >= Search(Size, found)
    <3> HIDE DEF found
    <3> QED BY <1>1, <2>4, SearchFinds
  <2>6. \A i \in 0 .. Size - 1 : Before(v, At(i)) <=> i >= RangeEnd
    BY <2>2, <2>5
  <2> QED
    BY <1>1, <2>1, <2>2, <2>5, <2>6
<1>4. CASE frame.end.kind = "preceding"
  <2>1. frame.end.n \in Nat /\ -frame.end.n \in Int
        /\ -Reach(frame.end.n) = (IF At(row) = Null THEN 0 ELSE -frame.end.n)
    BY <1>2, <1>4 DEF Reach
  <2>2. RangeEnd = Search(Size, {i \in 0 .. Size - 1 : Before(ValueByOffset(-frame.end.n), At(i))})
    BY <1>4 DEF RangeEnd
  <2>3. \A i \in 0 .. Size - 1 : BeforeEnd(i) <=> AtMost(i, -Reach(frame.end.n))
    BY <1>4 DEF BeforeEnd
  <2> QED
    BY <1>3, <2>1, <2>2, <2>3
<1>5. CASE frame.end.kind = "following"
  <2>1. frame.end.n \in Int /\ Reach(frame.end.n) = (IF At(row) = Null THEN 0 ELSE frame.end.n)
    BY <1>2, <1>5 DEF Reach
  <2>2. RangeEnd = Search(Size, {i \in 0 .. Size - 1 : Before(ValueByOffset(frame.end.n), At(i))})
    BY <1>5 DEF RangeEnd
  <2>3. \A i \in 0 .. Size - 1 : BeforeEnd(i) <=> AtMost(i, Reach(frame.end.n))
    BY <1>5 DEF BeforeEnd
  <2> QED
    BY <1>3, <2>1, <2>2, <2>3
<1>6. CASE frame.end.kind \in {"none", "current"}
  <2>1. RangeEnd = After(PeerGroup(group))
    BY <1>6 DEF RangeEnd
  <2>2. After(PeerGroup(group)) \in Nat /\ After(PeerGroup(group)) <= Size
    <3>1. IsGroup(PeerGroup(group))
      BY CurrentGroup
    <3> QED
      BY <3>1 DEF IsGroup, Group, After
  <2>3. \A i \in 0 .. Size - 1 : BeforeEnd(i) <=> AtMost(i, 0)
    BY <1>6 DEF BeforeEnd
  <2> QED
    BY <1>1, <2>1, <2>2, <2>3, RangePeers
<1> QED
  BY <1>2, <1>4, <1>5, <1>6
-----------------------------------------------------------------------------
(* The bounds of ROWS and GROUPS *)

\* The sum of two ints is the sum, or negative when it overflows.
LEMMA WrapSum ==
  ASSUME LargestInt \in Nat, NEW x \in 0 .. 2 * LargestInt
  PROVE  IF x <= LargestInt THEN Wrap(x) = x ELSE Wrap(x) < 0
<1> DEFINE k == 2 * LargestInt + 2
           a == x + LargestInt + 1
<1>1. k \in Nat \ {0} /\ a \in Nat
  OBVIOUS
<1>2. \A r \in 0 .. k - 1, q \in {0, 1} : a = q * k + r => a % k = r
  BY <1>1
<1>3. CASE x <= LargestInt
  <2>1. a \in 0 .. k - 1 /\ a = 0 * k + a
    BY <1>1, <1>3
  <2> HIDE DEF a, k
  <2>2. a % k = a
    BY <1>2, <2>1
  <2> QED
    BY <1>3, <2>2 DEF Wrap, a, k
<1>4. CASE x > LargestInt
  <2>1. a - k \in 0 .. k - 1 /\ a = 1 * k + (a - k)
    BY <1>1, <1>4
  <2> HIDE DEF a, k
  <2>2. a % k = a - k
    BY <1>2, <2>1
  <2> QED
    BY <1>4, <2>2 DEF Wrap, a, k
<1> QED
  BY <1>3, <1>4

\* A ROWS frame begins with the first row its definition lets in.
LEMMA RowsStarts ==
  ASSUME FramesAssumption, OffsetsFit, Given, Computing, frame.mode = "ROWS",
         frame.start.kind \in {"current", "preceding", "following"}
  PROVE  RowsStart \in 0 .. Size /\ \A i \in 0 .. Size - 1 : AfterStart(i) <=> i >= RowsStart
<1> DEFINE n == frame.start.n
<1>1. Size \in Nat \ {0} /\ LargestInt \in Nat /\ row \in 0 .. Size - 1
  BY CurrentRow
<1>2. frame.start.kind \in {"preceding", "following"} => n \in Nat /\ Size + n <= LargestInt
  <2>1. frame.start.kind \in {"preceding", "following"} => n \in Offsets /\ n \in Nat
    BY BoundsOfFrame
  <2> QED
    BY <2>1 DEF OffsetsFit, Given, Size
<1>3. \A i, k : AtLeast(i, k) <=> i - row >= k
  BY DEF AtLeast, FarAfter, NullAway, Distance
<1>4. \A k : Reach(k) = k
  BY DEF Reach
<1>5. CASE frame.start.kind = "preceding"
  <2>1. RowsStart = IF row - n < 0 THEN 0 ELSE row - n
    BY <1>5 DEF RowsStart
  <2>2. \A i \in 0 .. Size - 1 : AfterStart(i) <=> i - row >= -n
    BY <1>3, <1>4, <1>5 DEF AfterStart
  <2> QED
    BY <1>1, <1>2, <1>5, <2>1, <2>2
<1>6. CASE frame.start.kind = "following"
  <2>1. Wrap(row + n) = row + n
    <3>1. row + n \in 0 .. 2 * LargestInt /\ row + n <= LargestInt
      BY <1>1, <1>2, <1>6
    <3> QED
      BY <1>1, <3>1, WrapSum
  <2>2. RowsStart = IF row + n >= Size THEN Size ELSE row + n
    BY <1>6, <2>1 DEF RowsStart
  <2>3. \A i \in 0 .. Size - 1 : AfterStart(i) <=> i - row >= n
    BY <1>3, <1>4, <1>6 DEF AfterStart
  <2> QED
    BY <1>1, <1>2, <1>6, <2>2, <2>3
<1>7. CASE frame.start.kind = "current"
  <2>1. RowsStart = row
    BY <1>7 DEF RowsStart
  <2>2. \A i \in 0 .. Size - 1 : AfterStart(i) <=> i - row >= 0
    BY <1>3, <1>7 DEF AfterStart
  <2> QED
    BY <1>1, <2>1, <2>2
<1> QED
  BY <1>5, <1>6, <1>7

\* It ends before the first row its definition leaves out.
LEMMA RowsEnds ==
  ASSUME FramesAssumption, OffsetsFit, Given, Computing, frame.mode = "ROWS",
         frame.end.kind \in {"none", "current", "preceding", "following"}
  PROVE  RowsEnd \in 0 .. Size /\ \A i \in 0 .. Size - 1 : BeforeEnd(i) <=> i < RowsEnd
<1> DEFINE n == frame.end.n
<1>1. Size \in Nat \ {0} /\ LargestInt \in Nat /\ row \in 0 .. Size - 1
  BY CurrentRow
<1>2. frame.end.kind \in {"preceding", "following"} => n \in Nat /\ Size + n <= LargestInt
  <2>1. frame.end.kind \in {"preceding", "following"} => n \in Offsets /\ n \in Nat
    BY BoundsOfFrame
  <2> QED
    BY <2>1 DEF OffsetsFit, Given, Size
<1>3. \A i, k : AtMost(i, k) <=> i - row <= k
  BY DEF AtMost, FarBefore, NullAway, Distance
<1>4. \A k : Reach(k) = k
  BY DEF Reach
<1>5. CASE frame.end.kind = "preceding"
  <2>1. RowsEnd = IF row - n + 1 < 0 THEN 0 ELSE row - n + 1
    BY <1>5 DEF RowsEnd
  <2>2. \A i \in 0 .. Size - 1 : BeforeEnd(i) <=> i - row <= -n
    BY <1>3, <1>4, <1>5 DEF BeforeEnd
  <2> QED
    BY <1>1, <1>2, <1>5, <2>1, <2>2
<1>6. CASE frame.end.kind = "following"
  <2>1. Wrap(row + n + 1) = row + n + 1
    <3>1. row + n + 1 \in 0 .. 2 * LargestInt /\ row + n + 1 <= LargestInt
      BY <1>1, <1>2, <1>6
    <3> QED
      BY <1>1, <3>1, WrapSum
  <2>2. RowsEnd = IF row + n + 1 >= Size THEN Size ELSE row + n + 1
    BY <1>6, <2>1 DEF RowsEnd
  <2>3. \A i \in 0 .. Size - 1 : BeforeEnd(i) <=> i - row <= n
    BY <1>3, <1>4, <1>6 DEF BeforeEnd
  <2> QED
    BY <1>1, <1>2, <1>6, <2>2, <2>3
<1>7. CASE frame.end.kind \in {"none", "current"}
  <2>1. RowsEnd = row + 1
    BY <1>7 DEF RowsEnd
  <2>2. \A i \in 0 .. Size - 1 : BeforeEnd(i) <=> i - row <= 0
    BY <1>3, <1>7 DEF BeforeEnd
  <2> QED
    BY <1>1, <2>1, <2>2
<1> QED
  BY <1>5, <1>6, <1>7

\* A group of the queue parts the rows as their groups' numbers do.
LEMMA GroupParts ==
  ASSUME FramesAssumption, Given, Computing, NEW n \in headNum .. LastGroupNum
  PROVE  /\ PeerGroup(n).first \in 0 .. Size /\ After(PeerGroup(n)) \in 0 .. Size
         /\ \A i \in 0 .. Size - 1 :
              /\ GroupOf(i) \in 0 .. i
              /\ GroupOf(i) >= n <=> i >= PeerGroup(n).first
              /\ GroupOf(i) <= n <=> i < After(PeerGroup(n))
<1> DEFINE g == PeerGroup(n)
<1>1. rows \in Seq(Value) /\ Size \in Nat
  BY CurrentRow
<1>2. IsGroup(g) /\ GroupOf(g.first) = n /\ headNum \in Nat
  BY GroupOfQueue DEF Computing, Queue
<1> HIDE DEF g
<1>3. g.first \in 0 .. Size /\ After(g) \in 0 .. Size
  BY <1>1, <1>2 DEF IsGroup, Group, After
<1>4. ASSUME NEW i \in 0 .. Size - 1
      PROVE  /\ GroupOf(i) \in 0 .. i
             /\ GroupOf(i) >= n <=> i >= g.first
             /\ GroupOf(i) <= n <=> i < After(g)
  <2>1. GroupOf(i) \in 0 .. i
    BY <1>1, GroupOfType
  <2>2. (GroupOf(i) < n <=> i < g.first) /\ (GroupOf(i) > n <=> i >= After(g))
    BY <1>1, <1>2, RowsOfGroup
  <2>3. GroupOf(i) \in Int /\ n \in Int /\ i \in Int /\ g.first \in Int /\ After(g) \in Int
    BY <1>2, <1>3, <2>1
  <2> QED
    BY <2>1, <2>2, <2>3
<1> QED
  BY <1>3, <1>4 DEF g

\* So does a group ahead, when the helper has come to it or to the end.
LEMMA GroupAhead ==
  ASSUME FramesAssumption, Given, Computing, NEW n \in 0 .. LargestInt,
         ~Complete => group + n <= LastGroupNum
  PROVE  LET ahead == Wrap(group + n)
             none  == ahead > LastGroupNum \/ ahead < 0
             start == IF none THEN Size ELSE PeerGroup(ahead).first
             end   == IF none THEN Size ELSE After(PeerGroup(ahead))
         IN  /\ start \in 0 .. Size /\ end \in 0 .. Size
             /\ \A i \in 0 .. Size - 1 : /\ GroupOf(i) - group >= n <=> i >= start
                                         /\ GroupOf(i) - group <= n <=> i < end
<1>1. /\ rows \in Seq(Value) /\ Size \in Nat \ {0} /\ Size \in 1 .. LargestInt
      /\ LargestInt \in Nat /\ row \in 0 .. Size - 1 /\ Queue(groups, headNum)
      /\ headNum \in Nat /\ LastGroupNum \in Int
  BY CurrentRow DEF Computing, Queue, LastGroupNum
<1>2. group \in 0 .. row /\ group \in headNum .. LastGroupNum
  <2>1. group = GroupOf(row)
    BY DEF Computing
  <2> QED
    BY <1>1, <2>1, GroupOfType, CurrentGroup
<1>3. ASSUME NEW i \in 0 .. Size - 1 PROVE GroupOf(i) \in 0 .. i
  BY <1>1, GroupOfType
<1>4. group + n \in 0 .. 2 * LargestInt
  BY <1>1, <1>2
<1> DEFINE ahead == Wrap(group + n)
<1>5. IF group + n <= LargestInt THEN ahead = group + n ELSE ahead < 0
  BY <1>1, <1>4, WrapSum
<1> HIDE DEF ahead
<1>6. CASE group + n <= LargestInt /\ group + n <= LastGroupNum
  <2>1. ahead = group + n /\ ~(ahead > LastGroupNum \/ ahead < 0) /\ ahead \in headNum .. LastGroupNum
    BY <1>1, <1>2, <1>5, <1>6
  <2>2. /\ PeerGroup(ahead).first \in 0 .. Size /\ After(PeerGroup(ahead)) \in 0 .. Size
        /\ \A i \in 0 .. Size - 1 :
             /\ GroupOf(i) >= ahead <=> i >= PeerGroup(ahead).first
             /\ GroupOf(i) <= ahead <=> i < After(PeerGroup(ahead))
    BY <2>1, GroupParts
  <2>3. ASSUME NEW i \in 0 .. Size - 1
        PROVE  (GroupOf(i) - group >= n <=> GroupOf(i) >= ahead) /\ (GroupOf(i) - group <= n <=> GroupOf(i) <= ahead)
    <3>1. GroupOf(i) \in Int /\ group \in Int
      BY <1>2, <1>3
    <3> QED
      BY <2>1, <3>1
  <2> QED
    BY <2>1, <2>2, <2>3 DEF ahead
<1>7. CASE ~(group + n <= LargestInt /\ group + n <= LastGroupNum)
  <2>1. ahead > LastGroupNum \/ ahead < 0
    BY <1>1, <1>2, <1>5, <1>7
  <2>2. ASSUME NEW i \in 0 .. Size - 1 PROVE GroupOf(i) < group + n
    <3>1. CASE group + n > LargestInt
      <4>1. GroupOf(i) \in 0 .. i /\ i <= LargestInt
        BY <1>1, <1>3
      <4> QED
        BY <1>1, <1>2, <3>1, <4>1
    <3>2. CASE group + n > LastGroupNum
      <4>1. Complete
        BY <1>1, <1>2, <3>2
      <4>2. GroupOf(i) <= LastGroupNum /\ GroupOf(i) \in 0 .. i
        BY <1>1, <1>3, <4>1, LastIsLast
      <4> QED
        BY <1>1, <1>2, <3>2, <4>2
    <3> QED
      BY <1>1, <1>2, <1>7, <3>1, <3>2
  <2>3. ASSUME NEW i \in 0 .. Size - 1
        PROVE  (GroupOf(i) - group >= n <=> i >= Size) /\ (GroupOf(i) - group <= n <=> i < Size)
    <3>1. GroupOf(i) \in Int /\ group \in Int /\ n \in Int /\ GroupOf(i) < group + n
      BY <1>2, <1>3, <2>2
    <3> QED
      BY <1>1, <3>1
  <2> QED
    BY <1>1, <2>1, <2>3 DEF ahead
<1> QED
  BY <1>6, <1>7

\* A GROUPS frame begins with the first row its definition lets in.
LEMMA GroupsStarts ==
  ASSUME FramesAssumption, Given, Computing, frame.mode = "GROUPS",
         frame.start.kind \in {"current", "preceding", "following"}
  PROVE  GroupsStart \in 0 .. Size /\ \A i \in 0 .. Size - 1 : AfterStart(i) <=> i >= GroupsStart
<1> DEFINE n == frame.start.n
<1>1. /\ Size \in Nat \ {0} /\ LargestInt \in Nat /\ headNum \in Nat
      /\ group \in headNum .. LastGroupNum /\ group \in Nat /\ LastGroupNum \in Int
  BY CurrentRow, CurrentGroup DEF Computing, Queue, LastGroupNum
<1>2. frame.start.kind \in {"preceding", "following"} => n \in 0 .. LargestInt /\ n \in Nat
  BY BoundsOfFrame
<1>3. \A i, k : AtLeast(i, k) <=> GroupOf(i) - group >= k
  BY DEF AtLeast, FarAfter, NullAway, Distance, Computing
<1>4. \A k : Reach(k) = k
  BY DEF Reach
<1>5. ASSUME NEW i \in 0 .. Size - 1 PROVE GroupOf(i) \in 0 .. i
  BY GroupOfType, CurrentRow
<1>6. CASE frame.start.kind = "preceding"
  <2>1. GroupsStart = PeerGroup(IF group - n < 0 THEN 0 ELSE group - n).first
    BY <1>6 DEF GroupsStart
  <2>2. \A i \in 0 .. Size - 1 : AfterStart(i) <=> GroupOf(i) - group >= -n
    BY <1>3, <1>4, <1>6 DEF AfterStart
  <2>3. headNum = 0 \/ headNum + n <= group
    BY <1>6 DEF Computing, ReachesBack
  <2> DEFINE back == IF group - n < 0 THEN 0 ELSE group - n
  <2>4. n \in Nat
    BY <1>2, <1>6
  <2> HIDE DEF n
  <2>5. back \in headNum .. LastGroupNum /\ back \in Nat
    BY <1>1, <2>3, <2>4
  <2>6. ASSUME NEW i \in 0 .. Size - 1 PROVE GroupOf(i) - group >= -n <=> GroupOf(i) >= back
    <3>1. GroupOf(i) \in Nat
      BY <1>1, <1>5
    <3> QED
      BY <1>1, <2>4, <3>1
  <2>7. /\ PeerGroup(back).first \in 0 .. Size
        /\ \A i \in 0 .. Size - 1 : GroupOf(i) >= back <=> i >= PeerGroup(back).first
    BY <2>5, GroupParts
  <2> QED
    BY <2>1, <2>2, <2>6, <2>7 DEF n
<1>7. CASE frame.start.kind = "following"
  <2> DEFINE ahead == Wrap(group + n)
             none  == ahead > LastGroupNum \/ ahead < 0
  <2>1. GroupsStart = IF none THEN Size ELSE PeerGroup(ahead).first
    BY <1>7 DEF GroupsStart
  <2>2. \A i \in 0 .. Size - 1 : AfterStart(i) <=> GroupOf(i) - group >= n
    BY <1>3, <1>4, <1>7 DEF AfterStart
  <2>3. ~Complete => group + n <= LastGroupNum
    BY <1>7 DEF Computing, ReachesAhead
  <2>4. n \in 0 .. LargestInt
    BY <1>2, <1>7
  <2> HIDE DEF n
  <2>5. LET start == IF none THEN Size ELSE PeerGroup(ahead).first
        IN  start \in 0 .. Size /\ \A i \in 0 .. Size - 1 : GroupOf(i) - group >= n <=> i >= start
    BY <2>3, <2>4, GroupAhead
  <2> QED
    BY <2>1, <2>2, <2>5
<1>8. CASE frame.start.kind = "current"
  <2>1. GroupsStart = PeerGroup(group).first
    BY <1>8 DEF GroupsStart
  <2>2. \A i \in 0 .. Size - 1 : AfterStart(i) <=> GroupOf(i) - group >= 0
    BY <1>3, <1>8 DEF AfterStart
  <2>3. ASSUME NEW i \in 0 .. Size - 1 PROVE GroupOf(i) - group >= 0 <=> GroupOf(i) >= group
    <3>1. GroupOf(i) \in Nat
      BY <1>1, <1>5
    <3> QED
      BY <1>1, <3>1
  <2>4. /\ PeerGroup(group).first \in 0 .. Size
        /\ \A i \in 0 .. Size - 1 : GroupOf(i) >= group <=> i >= PeerGroup(group).first
    BY <1>1, GroupParts
  <2> QED
    BY <2>1, <2>2, <2>3, <2>4
<1> QED
  BY <1>6, <1>7, <1>8

\* It ends before the first row its definition leaves out.
LEMMA GroupsEnds ==
  ASSUME FramesAssumption, Crossed = FALSE, Given, Computing, frame.mode = "GROUPS",
         frame.end.kind \in {"none", "current", "preceding", "following"}
  PROVE  GroupsEnd \in 0 .. Size /\ \A i \in 0 .. Size - 1 : BeforeEnd(i) <=> i < GroupsEnd
<1> DEFINE n == frame.end.n
<1>1. /\ Size \in Nat \ {0} /\ LargestInt \in Nat /\ headNum \in Nat
      /\ group \in headNum .. LastGroupNum /\ group \in Nat /\ LastGroupNum \in Int
  BY CurrentRow, CurrentGroup DEF Computing, Queue, LastGroupNum
<1>2. frame.end.kind \in {"preceding", "following"} => n \in 0 .. LargestInt /\ n \in Nat
  BY BoundsOfFrame
<1>3. \A i, k : AtMost(i, k) <=> GroupOf(i) - group <= k
  BY DEF AtMost, FarBefore, NullAway, Distance, Computing
<1>4. \A k : Reach(k) = k
  BY DEF Reach
<1>5. ASSUME NEW i \in 0 .. Size - 1 PROVE GroupOf(i) \in 0 .. i
  BY GroupOfType, CurrentRow
<1>6. CASE frame.end.kind = "preceding"
  <2>1. GroupsEnd = IF group - n < 0 THEN 0 ELSE After(PeerGroup(group - n))
    BY <1>6 DEF GroupsEnd
  <2>2. \A i \in 0 .. Size - 1 : BeforeEnd(i) <=> GroupOf(i) - group <= -n
    BY <1>3, <1>4, <1>6 DEF BeforeEnd
  <2>3. n \in Nat
    BY <1>2, <1>6
  <2>4. headNum = 0 \/ headNum + n <= group
    <3>1. frame.start.kind \notin {"current", "following"}
      BY <1>6 DEF Given, Frames
    <3>2. CASE frame.start.kind = "unbounded preceding"
      BY <3>2 DEF Computing, ReachesBack
    <3>3. CASE frame.start.kind = "preceding"
      <4>1. frame.start.n >= n
        BY <1>6, <3>3 DEF Given, Frames
      <4>2. headNum = 0 \/ headNum + frame.start.n <= group
        BY <3>3 DEF Computing, ReachesBack
      <4>3. frame.start.n \in Nat
        BY <3>3, BoundsOfFrame
      <4> HIDE DEF n
      <4> QED
        BY <1>1, <2>3, <4>1, <4>2, <4>3
    <3> QED
      BY <3>1, <3>2, <3>3, BoundsOfFrame
  <2> HIDE DEF n
  <2>5. CASE group - n < 0
    <3>1. ASSUME NEW i \in 0 .. Size - 1 PROVE (GroupOf(i) - group <= -n <=> i < 0)
      <4>1. GroupOf(i) \in Nat
        BY <1>1, <1>5
      <4> QED
        BY <1>1, <2>3, <2>5, <4>1
    <3> QED
      BY <1>1, <2>1, <2>2, <2>5, <3>1 DEF n
  <2>6. CASE group - n >= 0
    <3>1. group - n \in headNum .. LastGroupNum /\ ~(group - n < 0)
      BY <1>1, <2>3, <2>4, <2>6
    <3>2. ASSUME NEW i \in 0 .. Size - 1 PROVE GroupOf(i) - group <= -n <=> GroupOf(i) <= group - n
      <4>1. GroupOf(i) \in Nat
        BY <1>1, <1>5
      <4> QED
        BY <1>1, <2>3, <4>1
    <3>3. /\ After(PeerGroup(group - n)) \in 0 .. Size
          /\ \A i \in 0 .. Size - 1 : GroupOf(i) <= group - n <=> i < After(PeerGroup(group - n))
      BY <3>1, GroupParts
    <3> QED
      BY <2>1, <2>2, <3>1, <3>2, <3>3 DEF n
  <2> QED
    BY <1>1, <2>3, <2>5, <2>6
<1>7. CASE frame.end.kind = "following"
  <2> DEFINE ahead == Wrap(group + n)
             none  == ahead > LastGroupNum \/ ahead < 0
  <2>1. GroupsEnd = IF none THEN Size ELSE After(PeerGroup(ahead))
    BY <1>7 DEF GroupsEnd
  <2>2. \A i \in 0 .. Size - 1 : BeforeEnd(i) <=> GroupOf(i) - group <= n
    BY <1>3, <1>4, <1>7 DEF BeforeEnd
  <2>3. ~Complete => group + n <= LastGroupNum
    BY <1>7 DEF Computing, ReachesAhead
  <2>4. n \in 0 .. LargestInt
    BY <1>2, <1>7
  <2> HIDE DEF n
  <2>5. LET end == IF none THEN Size ELSE After(PeerGroup(ahead))
        IN  end \in 0 .. Size /\ \A i \in 0 .. Size - 1 : GroupOf(i) - group <= n <=> i < end
    BY <2>3, <2>4, GroupAhead
  <2> QED
    BY <2>1, <2>2, <2>5
<1>8. CASE frame.end.kind \in {"none", "current"}
  <2>1. GroupsEnd = After(PeerGroup(group))
    BY <1>8 DEF GroupsEnd
  <2>2. \A i \in 0 .. Size - 1 : BeforeEnd(i) <=> GroupOf(i) - group <= 0
    BY <1>3, <1>8 DEF BeforeEnd
  <2>3. ASSUME NEW i \in 0 .. Size - 1 PROVE GroupOf(i) - group <= 0 <=> GroupOf(i) <= group
    <3>1. GroupOf(i) \in Nat
      BY <1>1, <1>5
    <3> QED
      BY <1>1, <3>1
  <2>4. /\ After(PeerGroup(group)) \in 0 .. Size
        /\ \A i \in 0 .. Size - 1 : GroupOf(i) <= group <=> i < After(PeerGroup(group))
    BY <1>1, GroupParts
  <2> QED
    BY <2>1, <2>2, <2>3, <2>4
<1> QED
  BY <1>6, <1>7, <1>8
-----------------------------------------------------------------------------
(* The frame *)

LEMMA FrameBounds ==
  ASSUME FramesAssumption, OffsetsFit, Crossed = FALSE, Given, Computing
  PROVE  /\ FrameStartIdx \in 0 .. Size /\ FrameEndIdx \in 0 .. Size
         /\ \A i \in 0 .. Size - 1 : /\ AfterStart(i) <=> i >= FrameStartIdx
                                     /\ BeforeEnd(i) <=> i < FrameEndIdx
<1>1. Size \in Nat /\ frame.mode \in {"RANGE", "ROWS", "GROUPS"}
  BY CurrentRow DEF Modes
<1>2. FrameStartIdx \in 0 .. Size /\ \A i \in 0 .. Size - 1 : AfterStart(i) <=> i >= FrameStartIdx
  <2>1. CASE frame.start.kind = "unbounded preceding"
    <3>1. FrameStartIdx = 0 /\ \A i : AfterStart(i)
      BY <2>1 DEF FrameStartIdx, AfterStart
    <3> QED
      BY <1>1, <3>1
  <2>2. CASE frame.start.kind \in {"current", "preceding", "following"}
    <3>1. FrameStartIdx = CASE frame.mode = "RANGE" -> RangeStart
                            [] frame.mode = "ROWS" -> RowsStart
                            [] frame.mode = "GROUPS" -> GroupsStart
      BY <1>1, <2>2 DEF FrameStartIdx
    <3>2. CASE frame.mode = "RANGE"
      <4>1. FrameStartIdx = RangeStart
        BY <3>1, <3>2
      <4> QED
        BY <2>2, <3>2, <4>1, RangeStarts
    <3>3. CASE frame.mode = "ROWS"
      <4>1. FrameStartIdx = RowsStart
        BY <3>1, <3>3
      <4> QED
        BY <2>2, <3>3, <4>1, RowsStarts
    <3>4. CASE frame.mode = "GROUPS"
      <4>1. FrameStartIdx = GroupsStart
        BY <3>1, <3>4
      <4> QED
        BY <2>2, <3>4, <4>1, GroupsStarts
    <3> QED
      BY <1>1, <3>2, <3>3, <3>4
  <2> QED
    BY <2>1, <2>2, BoundsOfFrame
<1>3. FrameEndIdx \in 0 .. Size /\ \A i \in 0 .. Size - 1 : BeforeEnd(i) <=> i < FrameEndIdx
  <2>1. CASE frame.end.kind = "unbounded following"
    <3>1. FrameEndIdx = Size /\ \A i : BeforeEnd(i)
      BY <2>1 DEF FrameEndIdx, BeforeEnd
    <3> QED
      BY <1>1, <3>1
  <2>2. CASE frame.end.kind \in {"none", "current", "preceding", "following"}
    <3>1. FrameEndIdx = CASE frame.mode = "RANGE" -> RangeEnd
                          [] frame.mode = "ROWS" -> RowsEnd
                          [] frame.mode = "GROUPS" -> GroupsEnd
      BY <1>1, <2>2 DEF FrameEndIdx
    <3>2. CASE frame.mode = "RANGE"
      <4>1. FrameEndIdx = RangeEnd
        BY <3>1, <3>2
      <4> QED
        BY <2>2, <3>2, <4>1, RangeEnds
    <3>3. CASE frame.mode = "ROWS"
      <4>1. FrameEndIdx = RowsEnd
        BY <3>1, <3>3
      <4> QED
        BY <2>2, <3>3, <4>1, RowsEnds
    <3>4. CASE frame.mode = "GROUPS"
      <4>1. FrameEndIdx = GroupsEnd
        BY <3>1, <3>4
      <4> QED
        BY <2>2, <3>4, <4>1, GroupsEnds
    <3> QED
      BY <1>1, <3>2, <3>3, <3>4
  <2> QED
    BY <2>1, <2>2, BoundsOfFrame
<1> QED
  BY <1>2, <1>3

\* The rows that the exclusions of groups leave out.
LEMMA InGroupIsPeer ==
  ASSUME FramesAssumption, Given, Computing, NEW i \in 0 .. Size - 1
  PROVE  InCurrentGroup(i) <=> GroupOf(i) = GroupOf(row)
<1>1. group \in headNum .. LastGroupNum /\ group \in Nat /\ Size \in Nat
  BY CurrentGroup, CurrentRow
<1>2. /\ PeerGroup(group).first \in 0 .. Size /\ After(PeerGroup(group)) \in 0 .. Size
      /\ GroupOf(i) \in 0 .. i
      /\ GroupOf(i) >= group <=> i >= PeerGroup(group).first
      /\ GroupOf(i) <= group <=> i < After(PeerGroup(group))
  BY <1>1, GroupParts
<1>3. GroupOf(i) = group <=> GroupOf(i) >= group /\ GroupOf(i) <= group
  BY <1>1, <1>2
<1> QED
  BY <1>1, <1>2, <1>3 DEF InCurrentGroup, Computing

LEMMA FrameCounts ==
  ASSUME FramesAssumption, OffsetsFit, Crossed = FALSE, Given, Computing,
         NEW exclusion \in Exclusions
  PROVE  FrameSize(exclusion) =
           Cardinality({i \in 0 .. Size - 1 :
             /\ InFrame(i)
             /\ exclusion = "current row" => i # row
             /\ exclusion = "group" => GroupOf(i) # GroupOf(row)
             /\ exclusion = "ties" => i = row \/ GroupOf(i) # GroupOf(row)})
<1> DEFINE s == FrameStartIdx
           e == FrameEndIdx
           left == {i \in s .. e - 1 : ~IsExcluded(i, exclusion)}
           meant == {i \in 0 .. Size - 1 :
                       /\ InFrame(i)
                       /\ exclusion = "current row" => i # row
                       /\ exclusion = "group" => GroupOf(i) # GroupOf(row)
                       /\ exclusion = "ties" => i = row \/ GroupOf(i) # GroupOf(row)}
<1>0. exclusion \in {"none", "current row", "group", "ties"}
  BY DEF Exclusions
<1>1. Size \in Nat
  BY CurrentRow
<1>2. s \in 0 .. Size /\ e \in 0 .. Size /\ \A i \in 0 .. Size - 1 : InFrame(i) <=> i >= s /\ i < e
  BY FrameBounds DEF InFrame
<1>3. ASSUME NEW i \in 0 .. Size - 1
      PROVE  /\ exclusion = "none" => ~IsExcluded(i, exclusion)
             /\ exclusion = "current row" => (IsExcluded(i, exclusion) <=> i = row)
             /\ exclusion = "group" => (IsExcluded(i, exclusion) <=> GroupOf(i) = GroupOf(row))
             /\ exclusion = "ties" => (IsExcluded(i, exclusion) <=> GroupOf(i) = GroupOf(row) /\ i # row)
  BY InGroupIsPeer DEF IsExcluded
<1>9. FrameSize(exclusion) = LET size == IF exclusion = "none" THEN e - s ELSE Cardinality(left)
                            IN  IF size <= 0 THEN 0 ELSE size
  BY DEF FrameSize
<1> HIDE DEF s, e
<1>4. \A i : i \in s .. e - 1 <=> i \in 0 .. Size - 1 /\ i >= s /\ i < e
  BY <1>1, <1>2
<1>5. left = meant
  <2>1. ASSUME NEW i PROVE i \in left <=> i \in meant
    <3>1. CASE i \notin 0 .. Size - 1
      BY <1>4, <3>1
    <3>2. CASE i \in 0 .. Size - 1
      <4>1. ~IsExcluded(i, exclusion) <=>
              /\ exclusion = "current row" => i # row
              /\ exclusion = "group" => GroupOf(i) # GroupOf(row)
              /\ exclusion = "ties" => i = row \/ GroupOf(i) # GroupOf(row)
        BY <1>0, <1>3, <3>2
      <4> QED
        BY <1>2, <1>4, <3>2, <4>1
    <3> QED
      BY <3>1, <3>2
  <2> HIDE DEF left, meant
  <2> QED
    BY <2>1
<1>6. /\ IsFiniteSet(s .. e - 1)
      /\ Cardinality(s .. e - 1) = IF s > e - 1 THEN 0 ELSE e - s
  <2>1. s \in Int /\ e - 1 \in Int
    BY <1>1, <1>2
  <2>2. /\ IsFiniteSet(s .. e - 1)
        /\ Cardinality(s .. e - 1) = IF s > e - 1 THEN 0 ELSE (e - 1) - s + 1
    BY <2>1, FS_Interval
  <2> QED
    BY <1>1, <1>2, <2>2
<1>7. CASE exclusion = "none"
  <2>1. left = s .. e - 1
    BY <1>3, <1>4, <1>7
  <2> HIDE DEF left, meant
  <2>2. Cardinality(meant) = IF e - s <= 0 THEN 0 ELSE e - s
    BY <1>1, <1>2, <1>5, <1>6, <2>1
  <2> QED
    BY <1>7, <1>9, <2>2 DEF meant
<1>8. CASE exclusion # "none"
  <2>1. left \in SUBSET (s .. e - 1)
    OBVIOUS
  <2> HIDE DEF left, meant
  <2>2. Cardinality(left) \in Nat
    BY <1>6, <2>1, FS_Subset, FS_CardinalityType
  <2>3. Cardinality(left) = IF Cardinality(left) <= 0 THEN 0 ELSE Cardinality(left)
    BY <2>2
  <2> QED
    BY <1>5, <1>8, <1>9, <2>3 DEF meant
<1> QED
  BY <1>7, <1>8

LEMMA FullFrame ==
  ASSUME FramesAssumption, Given, Computing, FullPartitionIsInWindow, NEW i \in 0 .. Size - 1
  PROVE  InFrame(i)
<1>1. /\ Size \in Nat /\ i \in Nat /\ row \in 0 .. Size - 1 /\ frame.mode \in {"RANGE", "ROWS", "GROUPS"}
      /\ GroupOf(i) \in Nat /\ GroupOf(i) <= Size - 1
      /\ GroupOf(row) \in Nat /\ GroupOf(row) <= Size - 1
  <2>1. GroupOf(i) \in 0 .. i /\ GroupOf(row) \in 0 .. row
    BY CurrentRow, GroupOfType
  <2> QED
    BY <2>1, CurrentRow DEF Modes
<1>2. \A k : Reach(k) = k \/ frame.mode = "RANGE"
  BY DEF Reach
<1>3. ASSUME frame.mode # "RANGE"
      PROVE  ~NullAway(i) /\ Distance(i) \in Int /\ Distance(i) <= Size - 1 /\ Distance(i) >= -(Size - 1)
  BY <1>1, <1>3 DEF NullAway, Distance
<1>4. AfterStart(i)
  <2>1. CASE frame.start.kind = "unbounded preceding"
    BY <2>1 DEF AfterStart
  <2>2. CASE frame.start.kind = "preceding" /\ frame.mode # "RANGE" /\ frame.start.n >= Size - 1
    <3>1. frame.start.n \in Nat
      BY <2>2, BoundsOfFrame
    <3>2. Distance(i) >= -frame.start.n
      BY <1>1, <1>3, <2>2, <3>1
    <3> QED
      BY <1>2, <1>3, <2>2, <3>2 DEF AfterStart, AtLeast
  <2> QED
    BY <2>1, <2>2 DEF FullPartitionIsInWindow
<1>5. BeforeEnd(i)
  <2>1. CASE frame.end.kind = "unbounded following"
    BY <2>1 DEF BeforeEnd
  <2>2. CASE frame.end.kind = "following" /\ frame.mode # "RANGE" /\ frame.end.n >= Size - 1
    <3>1. frame.end.n \in Nat
      BY <2>2, BoundsOfFrame
    <3>2. Distance(i) <= frame.end.n
      BY <1>1, <1>3, <2>2, <3>1
    <3> QED
      BY <1>2, <1>3, <2>2, <3>2 DEF BeforeEnd, AtMost
  <2> QED
    BY <2>1, <2>2 DEF FullPartitionIsInWindow
<1> QED
  BY <1>4, <1>5 DEF InFrame

LEMMA InvariantDefines ==
  ASSUME FramesAssumption, OffsetsFit, Crossed = FALSE, FrameIInv
  PROVE  FrameIsDefined
<1>1. CASE phase = "compute"
  <2>1. Given /\ Computing
    BY <1>1 DEF FrameIInv
  <2>2. FrameInPartition
    BY <2>1, FrameBounds DEF FrameInPartition
  <2>3. FrameHasItsRows
    <3>1. /\ FrameStartIdx \in 0 .. Size /\ FrameEndIdx \in 0 .. Size /\ Size \in Nat
          /\ \A i \in 0 .. Size - 1 : InFrame(i) <=> i >= FrameStartIdx /\ i < FrameEndIdx
      BY <2>1, FrameBounds, CurrentRow DEF InFrame
    <3>2. \A i : i \in FrameStartIdx .. FrameEndIdx - 1 <=>
                   i \in 0 .. Size - 1 /\ i >= FrameStartIdx /\ i < FrameEndIdx
      BY <3>1
    <3> QED
      BY <3>1, <3>2 DEF FrameHasItsRows
  <2>4. SizeIsCount
    BY <2>1, FrameCounts DEF SizeIsCount
  <2>5. FullIsFull
    BY <2>1, FullFrame DEF FullIsFull
  <2> QED
    BY <2>2, <2>3, <2>4, <2>5 DEF FrameIsDefined
<1>2. CASE phase # "compute"
  BY <1>2 DEF FrameIsDefined, FrameInPartition, FrameHasItsRows, SizeIsCount, FullIsFull
<1> QED
  BY <1>1, <1>2

\* At every row of every partition the indices that FrameStartIdx and
\* FrameEndIdx compute are those of the rows the frame's definition names,
\* FrameSize counts the ones its exclusion leaves, no index leaves the helper's
\* queue, and FullPartitionIsInWindow never overstates a frame
\* (window_funcs.go 111-541, window_funcs_util.go): in all three modes, with
\* NULLs, in both directions, and for GROUPS with offsets that overflow too.
THEOREM FramesAsDefined ==
  ASSUME FramesAssumption, OffsetsFit, Crossed = FALSE
  PROVE  WindowSpec => []FrameIsDefined
<1>1. WindowInit => FrameIInv
  BY FrameInitially
<1>2. FrameIInv /\ [WindowNext]_windowVars => FrameIInv'
  BY FrameStepKeeps
<1>3. FrameIInv => FrameIsDefined
  BY InvariantDefines
<1> QED
  BY <1>1, <1>2, <1>3, PTL DEF WindowSpec
-----------------------------------------------------------------------------
(* Names: the iterator over a search path *)

\* The iterators over a path.
Iterators(paths, temp) ==
  [paths : {paths}, implicitPgCatalog : BOOLEAN, implicitPgTempSchema : BOOLEAN,
   tempSchemaName : {temp}, i : 0 .. Len(paths)]

\* The places an iterator stops at: -1 is the implicit temporary schema, 0 the
\* implicit pg_catalog, and 1 the first schema of the path.
HasTemp(temp) == temp # ""
Open(paths, temp, j) == HasTemp(temp) \/ paths[j] # PgTempSchemaName
Remaining(paths, temp, t, c, i) ==
  {p \in -1 .. Len(paths) :
     \/ p = -1 /\ t /\ HasTemp(temp)
     \/ p = 0 /\ c
     \/ p > 0 /\ p > i /\ Open(paths, temp, p)}
Left(it) ==
  Remaining(it.paths, it.tempSchemaName, it.implicitPgTempSchema, it.implicitPgCatalog, it.i)
Named(paths, temp, p) ==
  IF p = -1 THEN temp ELSE IF p = 0 THEN PgCatalogName
  ELSE IF paths[p] = PgTempSchemaName THEN temp ELSE paths[p]

LEMMA LeastIs ==
  ASSUME NEW T \in SUBSET Nat, T # {}
  PROVE  Least(T) \in T /\ \A n \in T : Least(T) <= n
BY LeastNumber DEF Least

\* A step of the iterator takes the first of the places that are left.
LEMMA NextIs ==
  ASSUME NEW paths, NEW temp, Len(paths) \in Nat, NEW it \in Iterators(paths, temp)
  PROVE  /\ NextOf(it).iter \in Iterators(paths, temp)
         /\ ~NextOf(it).ok => Left(it) = {} /\ Left(NextOf(it).iter) = {}
         /\ NextOf(it).ok =>
              \E p \in Left(it) : /\ \A q \in Left(it) : p <= q
                                  /\ NextOf(it).schema = Named(paths, temp, p)
                                  /\ Left(NextOf(it).iter) = Left(it) \ {p}
<1> DEFINE N == Len(paths)
           ahead == {j \in it.i + 1 .. N : Open(paths, temp, j)}
           first == Least(ahead)
<1>1. /\ it.paths = paths /\ it.tempSchemaName = temp /\ it.i \in 0 .. N
      /\ it.implicitPgCatalog \in BOOLEAN /\ it.implicitPgTempSchema \in BOOLEAN
  BY DEF Iterators
<1>2. NextOf(it) =
        IF it.implicitPgTempSchema /\ HasTemp(temp)
        THEN Step(TRUE, temp, [it EXCEPT !.implicitPgTempSchema = FALSE])
        ELSE IF it.implicitPgCatalog
        THEN Step(TRUE, PgCatalogName, [it EXCEPT !.implicitPgCatalog = FALSE])
        ELSE IF ahead = {} THEN Step(FALSE, "", [it EXCEPT !.i = N])
        ELSE Step(TRUE, IF paths[first] = PgTempSchemaName THEN temp ELSE paths[first],
                  [it EXCEPT !.i = first])
  BY <1>1, Zenon DEF NextOf, Open, HasTemp
<1>4. ASSUME NEW k \in Iterators(paths, temp)
      PROVE  Left(k) = Remaining(paths, temp, k.implicitPgTempSchema, k.implicitPgCatalog, k.i)
  <2>1. k.paths = paths /\ k.tempSchemaName = temp
    BY DEF Iterators
  <2> QED
    BY <2>1, Zenon DEF Left
<1>3. Left(it) = Remaining(paths, temp, it.implicitPgTempSchema, it.implicitPgCatalog, it.i)
  BY <1>4
<1>5. CASE it.implicitPgTempSchema /\ HasTemp(temp)
  <2> DEFINE k == [it EXCEPT !.implicitPgTempSchema = FALSE]
  <2>1. /\ NextOf(it).ok /\ NextOf(it).schema = temp /\ NextOf(it).iter = k
    <3>1. NextOf(it) = Step(TRUE, temp, k)
      BY <1>2, <1>5, Zenon
    <3> QED
      BY <3>1 DEF Step
  <2>2. k \in Iterators(paths, temp) /\ k.implicitPgTempSchema = FALSE
        /\ k.implicitPgCatalog = it.implicitPgCatalog /\ k.i = it.i
    BY DEF Iterators
  <2> HIDE DEF k
  <2>3. -1 \in Left(it) /\ (\A q \in Left(it) : -1 <= q) /\ Left(k) = Left(it) \ {-1}
    BY <1>1, <1>3, <1>4, <1>5, <2>2 DEF Remaining
  <2>4. temp = Named(paths, temp, -1)
    BY DEF Named
  <2> QED
    BY <2>1, <2>2, <2>3, <2>4
<1>6. CASE ~(it.implicitPgTempSchema /\ HasTemp(temp)) /\ it.implicitPgCatalog
  <2> DEFINE k == [it EXCEPT !.implicitPgCatalog = FALSE]
  <2>1. /\ NextOf(it).ok /\ NextOf(it).schema = PgCatalogName /\ NextOf(it).iter = k
    <3>1. NextOf(it) = Step(TRUE, PgCatalogName, k)
      BY <1>2, <1>6, Zenon
    <3> QED
      BY <3>1 DEF Step
  <2>2. k \in Iterators(paths, temp) /\ k.implicitPgTempSchema = it.implicitPgTempSchema
        /\ k.implicitPgCatalog = FALSE /\ k.i = it.i
    BY DEF Iterators
  <2> HIDE DEF k
  <2>3. 0 \in Left(it) /\ (\A q \in Left(it) : 0 <= q) /\ Left(k) = Left(it) \ {0}
    BY <1>1, <1>3, <1>4, <1>6, <2>2 DEF Remaining
  <2>4. PgCatalogName = Named(paths, temp, 0)
    BY DEF Named
  <2> QED
    BY <2>1, <2>2, <2>3, <2>4
<1>7. CASE ~(it.implicitPgTempSchema /\ HasTemp(temp)) /\ ~it.implicitPgCatalog /\ ahead = {}
  <2> DEFINE k == [it EXCEPT !.i = N]
  <2>1. /\ ~NextOf(it).ok /\ NextOf(it).iter = k
    <3> DEFINE none == ""
    <3>1. NextOf(it) = Step(FALSE, none, k)
      BY <1>2, <1>7, Zenon
    <3> HIDE DEF none
    <3> QED
      BY <3>1 DEF Step
  <2>2. k \in Iterators(paths, temp) /\ k.implicitPgTempSchema = it.implicitPgTempSchema
        /\ k.implicitPgCatalog = it.implicitPgCatalog /\ k.i = N
    BY DEF Iterators
  <2> HIDE DEF k
  <2>3. Left(it) = {} /\ Left(k) = {}
    BY <1>1, <1>3, <1>4, <1>7, <2>2 DEF Remaining
  <2> QED
    BY <2>1, <2>2, <2>3
<1>8. CASE ~(it.implicitPgTempSchema /\ HasTemp(temp)) /\ ~it.implicitPgCatalog /\ ahead # {}
  <2> DEFINE k == [it EXCEPT !.i = first]
             name == IF paths[first] = PgTempSchemaName THEN temp ELSE paths[first]
  <2>1. /\ NextOf(it).ok /\ NextOf(it).schema = name /\ NextOf(it).iter = k
    <3>1. NextOf(it) = Step(TRUE, name, k)
      BY <1>2, <1>8, Zenon
    <3> QED
      BY <3>1 DEF Step
  <2>0. first \in ahead /\ \A j \in ahead : first <= j
    <3>1. ahead \in SUBSET Nat
      BY <1>1
    <3> HIDE DEF ahead
    <3> QED
      BY <1>8, <3>1, LeastIs
  <2> HIDE DEF first
  <2>2. k \in Iterators(paths, temp) /\ k.implicitPgTempSchema = it.implicitPgTempSchema
        /\ k.implicitPgCatalog = it.implicitPgCatalog /\ k.i = first
    BY <1>1, <2>0 DEF Iterators
  <2> HIDE DEF k
  <2>3. first \in Left(it) /\ (\A q \in Left(it) : first <= q) /\ Left(k) = Left(it) \ {first}
    BY <1>1, <1>3, <1>4, <1>8, <2>0, <2>2 DEF Remaining
  <2>5. first # -1 /\ first # 0
    BY <1>1, <2>0
  <2>4. name = Named(paths, temp, first)
    BY <2>5, Zenon DEF Named
  <2> QED
    BY <2>1, <2>2, <2>3, <2>4
<1> QED
  BY <1>1, <1>5, <1>6, <1>7, <1>8

\* Each step goes on from the iterator that the one before left.
LEMMA StepsUnfold ==
  ASSUME NEW paths, NEW temp, Len(paths) \in Nat, NEW it \in Iterators(paths, temp)
  PROVE  /\ DOMAIN Steps(it) = 0 .. Len(paths) + 2
         /\ Steps(it)[0] = NextOf(it)
         /\ \A n \in 1 .. Len(paths) + 2 : Steps(it)[n] = NextOf(Steps(it)[n - 1].iter)
<1> DEFINE N == Len(paths) + 2
           S == {NextOf(k) : k \in Iterators(paths, temp)}
           step == [p \in S \X (1 .. N) |-> NextOf(p[1].iter)]
           AreSteps(f) == f = [n \in 0 .. N |-> IF n = 0 THEN NextOf(it) ELSE NextOf(f[n - 1].iter)]
<1>0. N \in Nat /\ it.paths = paths
  BY DEF Iterators
<1>1. \A v \in S : NextOf(v.iter) \in S
  BY NextIs
<1>2. IsRangeStep(step, 0, N, S)
  <2>1. \A p \in S \X (1 .. N) : NextOf(p[1].iter) \in S
    BY <1>1
  <2> HIDE DEF S, N
  <2> QED
    BY <2>1 DEF IsRangeStep
<1>3. NextOf(it) \in S
  OBVIOUS
<1>4. \A v \in S, n \in 1 .. N : step[<<v, n>>] = NextOf(v.iter)
  <2> HIDE DEF S, N
  <2> QED
    OBVIOUS
<1> HIDE DEF S, step
<1>5. PICK h : RangeIterates(h, 0, N, S, NextOf(it), step)
  <2> HIDE DEF N
  <2> QED
    BY <1>0, <1>2, <1>3, RangeIterationExists
<1>6. AreSteps(h)
  <2> HIDE DEF N
  <2>1. \A n \in 0 .. N : n # 0 => n - 1 \in 0 .. N /\ n \in 1 .. N
    BY <1>0
  <2>2. \A n \in 0 .. N : n # 0 => step[<<h[n - 1], n>>] = NextOf(h[n - 1].iter)
    BY <1>4, <1>5, <2>1 DEF RangeIterates
  <2> QED
    BY <1>5, <2>2 DEF RangeIterates
<1>7. Steps(it) = CHOOSE f : AreSteps(f)
  BY <1>0, Zenon DEF Steps
<1>8. AreSteps(Steps(it))
  <2> HIDE DEF AreSteps
  <2> QED
    BY <1>6, <1>7
<1> HIDE DEF N
<1>9. 0 \in 0 .. N /\ \A n \in 1 .. N : n \in 0 .. N /\ n # 0
  BY <1>0
<1>10. DOMAIN Steps(it) = 0 .. N
  BY <1>8
<1>11. Steps(it)[0] = NextOf(it)
  BY <1>8, <1>9
<1>12. \A n \in 1 .. N : Steps(it)[n] = NextOf(Steps(it)[n - 1].iter)
  BY <1>8, <1>9
<1> HIDE DEF AreSteps
<1> QED
  BY <1>10, <1>11, <1>12, Zenon DEF N

\* What the step with the number n, of the iterator `it`, is: the schema of a place
\* before which all have had their step, or the end, when all have.
SchemaTaken(it, paths, temp, n, p) ==
  /\ p \in Left(it) /\ p >= n - 1
  /\ Steps(it)[n].schema = Named(paths, temp, p)
  /\ Left(Steps(it)[n].iter) = {q \in Left(it) : q > p}
  /\ \A q \in Left(it) : q < p =>
       \E m \in 0 .. n - 1 : Steps(it)[m].ok /\ Steps(it)[m].schema = Named(paths, temp, q)
EndReached(it, paths, temp, n) ==
  /\ Left(Steps(it)[n].iter) = {}
  /\ \A q \in Left(it) :
       \E m \in 0 .. n - 1 : Steps(it)[m].ok /\ Steps(it)[m].schema = Named(paths, temp, q)
StepIs(it, paths, temp, n) ==
  /\ Steps(it)[n].iter \in Iterators(paths, temp)
  /\ Steps(it)[n].ok => \E p \in Left(it) : SchemaTaken(it, paths, temp, n, p)
  /\ ~Steps(it)[n].ok => EndReached(it, paths, temp, n)

LEMMA StepsAre ==
  ASSUME NEW paths, NEW temp, Len(paths) \in Nat, NEW it \in Iterators(paths, temp)
  PROVE  \A n \in 0 .. Len(paths) + 2 : StepIs(it, paths, temp, n)
<1> DEFINE N == Len(paths) + 2
           s == Steps(it)
           T == {n \in 0 .. N : StepIs(it, paths, temp, n)}
<1>0. N \in Nat /\ \A k \in Iterators(paths, temp) : Left(k) \subseteq Int /\ \A p \in Left(k) : p >= -1
  BY DEF Left, Remaining, Iterators
<1>1. StepIs(it, paths, temp, 0)
  <2>1. s[0] = NextOf(it) /\ 0 \in 0 .. N
    BY <1>0, StepsUnfold
  <2>2. CASE s[0].ok
    <3>1. PICK p \in Left(it) : /\ \A q \in Left(it) : p <= q
                                /\ s[0].schema = Named(paths, temp, p)
                                /\ Left(s[0].iter) = Left(it) \ {p}
      BY <2>1, <2>2, NextIs
    <3>2. SchemaTaken(it, paths, temp, 0, p)
      <4> HIDE DEF s
      <4>1. p >= 0 - 1 /\ Left(it) \ {p} = {q \in Left(it) : q > p} /\ \A q \in Left(it) : ~(q < p)
        BY <1>0, <3>1
      <4> QED
        BY <3>1, <4>1, Zenon DEF SchemaTaken, s
    <3> QED
      BY <2>1, <2>2, <3>2, NextIs DEF StepIs
  <2>3. CASE ~s[0].ok
    BY <2>1, <2>3, NextIs DEF StepIs, EndReached
  <2> QED
    BY <2>2, <2>3
<1>2. ASSUME NEW n \in 0 .. N - 1, StepIs(it, paths, temp, n)
      PROVE  StepIs(it, paths, temp, n + 1)
  <2> DEFINE k == s[n].iter
  <2>0. /\ n \in Nat /\ n + 1 \in 1 .. N /\ (n + 1) - 1 = n /\ n \in 0 .. n
        /\ \A m \in 0 .. n - 1 : m \in 0 .. n
    BY <1>0
  <2>1. s[n + 1] = NextOf(k) /\ k \in Iterators(paths, temp)
    <3>1. s[n + 1] = NextOf(s[(n + 1) - 1].iter)
      BY <2>0, StepsUnfold
    <3> QED
      BY <1>2, <2>0, <3>1 DEF StepIs
  <2>2. s[n + 1].iter \in Iterators(paths, temp)
    BY <2>1, NextIs
  <2>3. CASE ~s[n].ok
    <3>1. EndReached(it, paths, temp, n)
      BY <1>2, <2>3 DEF StepIs
    <3>2. Left(k) = {}
      BY <3>1 DEF EndReached
    <3>3. ~s[n + 1].ok /\ Left(s[n + 1].iter) = {}
      BY <2>1, <3>2, NextIs
    <3>4. EndReached(it, paths, temp, n + 1)
      BY <2>0, <3>1, <3>3, Zenon DEF EndReached
    <3> QED
      BY <2>2, <3>3, <3>4 DEF StepIs
  <2>4. CASE s[n].ok
    <3>1. PICK p \in Left(it) : SchemaTaken(it, paths, temp, n, p)
      BY <1>2, <2>4 DEF StepIs
    <3>2. Left(k) = {q \in Left(it) : q > p} /\ p >= n - 1 /\ p \in Int
      BY <1>0, <3>1 DEF SchemaTaken
    <3>3. \A q \in Left(it) : q <= p =>
            \E m \in 0 .. n : s[m].ok /\ s[m].schema = Named(paths, temp, q)
      <4> SUFFICES ASSUME NEW q \in Left(it), q <= p
                   PROVE  \E m \in 0 .. n : s[m].ok /\ s[m].schema = Named(paths, temp, q)
        OBVIOUS
      <4>1. q < p \/ q = p
        BY <1>0, <3>2
      <4> QED
        BY <2>0, <2>4, <3>1, <4>1, Zenon DEF SchemaTaken
    <3>4. CASE s[n + 1].ok
      <4>1. PICK r \in Left(k) : /\ \A q \in Left(k) : r <= q
                                 /\ s[n + 1].schema = Named(paths, temp, r)
                                 /\ Left(s[n + 1].iter) = Left(k) \ {r}
        BY <2>1, <3>4, NextIs
      <4> HIDE DEF k, s
      <4>2. r \in Left(it) /\ r >= (n + 1) - 1 /\ Left(k) \ {r} = {q \in Left(it) : q > r}
            /\ \A q \in Left(it) : q < r => q <= p
        BY <1>0, <2>0, <3>2, <4>1
      <4> USE DEF s
      <4>3. SchemaTaken(it, paths, temp, n + 1, r)
        BY <2>0, <3>3, <4>1, <4>2, Zenon DEF SchemaTaken
      <4> QED
        BY <2>2, <3>4, <4>2, <4>3 DEF StepIs
    <3>5. CASE ~s[n + 1].ok
      <4>1. Left(k) = {} /\ Left(s[n + 1].iter) = {}
        BY <2>1, <3>5, NextIs
      <4> HIDE DEF k, s
      <4>2. \A q \in Left(it) : q <= p
        BY <1>0, <3>2, <4>1
      <4> USE DEF s
      <4>3. EndReached(it, paths, temp, n + 1)
        BY <2>0, <3>3, <4>1, <4>2, Zenon DEF EndReached
      <4> QED
        BY <2>2, <3>5, <4>3 DEF StepIs
    <3> QED
      BY <3>4, <3>5
  <2> QED
    BY <2>3, <2>4
<1> HIDE DEF s
<1>3. \A n \in 0 .. N : n \in T
  <2>1. 0 \in T
    BY <1>0, <1>1
  <2>2. \A n \in 0 .. N - 1 : n \in T => n + 1 \in T
    <3> SUFFICES ASSUME NEW n \in 0 .. N - 1, n \in T PROVE n + 1 \in T
      OBVIOUS
    <3>1. n + 1 \in 0 .. N
      BY <1>0
    <3> HIDE DEF N
    <3> QED
      BY <1>2, <3>1
  <2> HIDE DEF T, N
  <2> QED
    BY <1>0, <2>1, <2>2, RangeInduction
<1> QED
  BY <1>3

\* A search that stops at the end or at a step of T: at the schema of a place before
\* which no step is one of T, or at the end, when none is.
SearchStops(it, paths, temp, T, last) ==
  /\ Steps(it)[last].ok =>
       /\ last \in T
       /\ \E p \in Left(it) :
            /\ Steps(it)[last].schema = Named(paths, temp, p)
            /\ \A q \in Left(it) : q < p =>
                 \E m \in (0 .. Len(paths) + 2) \ T : Steps(it)[m].schema = Named(paths, temp, q)
  /\ ~Steps(it)[last].ok =>
       \A q \in Left(it) :
         \E m \in (0 .. Len(paths) + 2) \ T : Steps(it)[m].schema = Named(paths, temp, q)

LEMMA SearchIs ==
  ASSUME NEW paths, NEW temp, Len(paths) \in Nat, NEW it \in Iterators(paths, temp),
         NEW T \in SUBSET (0 .. Len(paths) + 2), NEW last,
         last = Least({n \in 0 .. Len(paths) + 2 : ~Steps(it)[n].ok \/ n \in T})
  PROVE  SearchStops(it, paths, temp, T, last)
<1> DEFINE N == Len(paths) + 2
           s == Steps(it)
           stops == {n \in 0 .. N : ~s[n].ok \/ n \in T}
<1>1. N \in Nat /\ \A p \in Left(it) : p \in Int /\ p < N - 1
  BY DEF Left, Remaining, Iterators
<1>2. \A n \in 0 .. N : StepIs(it, paths, temp, n)
  BY StepsAre
<1>3. ~s[N].ok
  <2>1. SUFFICES ASSUME s[N].ok PROVE FALSE
    OBVIOUS
  <2>2. PICK p \in Left(it) : SchemaTaken(it, paths, temp, N, p)
    BY <1>1, <1>2, <2>1 DEF StepIs
  <2>3. p >= N - 1
    BY <2>2 DEF SchemaTaken
  <2> QED
    BY <1>1, <2>3
<1> HIDE DEF s
<1>4. last \in stops /\ \A n \in stops : last <= n
  <2>1. stops # {} /\ stops \in SUBSET Nat
    BY <1>1, <1>3
  <2>2. last = Least(stops)
    BY DEF s
  <2>3. Least(stops) \in stops /\ \A n \in stops : Least(stops) <= n
    <3> HIDE DEF stops
    <3> QED
      BY <2>1, LeastIs
  <2> HIDE DEF stops
  <2> QED
    BY <2>2, <2>3
<1>5. last \in 0 .. N /\ \A m \in 0 .. last - 1 : m \in 0 .. N /\ m \notin T
  <2>1. \A m \in T : m \in stops
    BY Zenon
  <2>2. \A n \in stops : n \in 0 .. N
    OBVIOUS
  <2> HIDE DEF stops, N
  <2>3. last \in 0 .. N /\ \A n \in T : last <= n
    BY <1>4, <2>1, <2>2
  <2>4. N \in Nat /\ last \in Int
    BY <1>1, <2>3
  <2>5. \A m \in 0 .. last - 1 : m \in 0 .. N /\ ~(last <= m)
    BY <2>3, <2>4
  <2> QED
    BY <2>3, <2>5, Zenon
<1>6. CASE s[last].ok
  <2>1. last \in T
    BY <1>4, <1>6
  <2>2. PICK p \in Left(it) : SchemaTaken(it, paths, temp, last, p)
    BY <1>2, <1>5, <1>6 DEF StepIs, s
  <2>3. /\ s[last].schema = Named(paths, temp, p)
        /\ \A q \in Left(it) : q < p =>
             \E m \in 0 .. last - 1 : s[m].schema = Named(paths, temp, q)
    BY <2>2, Zenon DEF SchemaTaken, s
  <2> QED
    BY <1>5, <1>6, <2>1, <2>3, Zenon DEF s, SearchStops
<1>7. CASE ~s[last].ok
  <2>1. EndReached(it, paths, temp, last)
    BY <1>2, <1>5, <1>7 DEF StepIs, s
  <2>2. \A q \in Left(it) : \E m \in 0 .. last - 1 : s[m].schema = Named(paths, temp, q)
    BY <2>1, Zenon DEF EndReached, s
  <2> QED
    BY <1>5, <1>7, <2>2, Zenon DEF s, SearchStops
<1> QED
  BY <1>6, <1>7

\* What a search finds in one schema.
InOne(schema, suffix, known, broken, t) ==
  Lookup(<<curDb, schema>> \o suffix, known, broken, t, InSchema(t, curDb, schema))

\* The search for a name ends in the first place where the lookup finds it or fails.
SearchEndsAt(r, it, paths, temp, suffix, known, broken, t, p) ==
  /\ r = InOne(Named(paths, temp, p), suffix, known, broken, t)
  /\ InOne(Named(paths, temp, p), suffix, known, broken, t).kind # "nothing"
  /\ \A q \in Left(it) : q < p => InOne(Named(paths, temp, q), suffix, known, broken, t).kind = "nothing"

LEMMA SearchForIs ==
  ASSUME NEW paths, NEW temp, Len(paths) \in Nat, NEW it \in Iterators(paths, temp),
         NEW suffix, NEW known, NEW broken, NEW t, NEW r, r = SearchFor(it, suffix, known, broken, t)
  PROVE  \/ \E p \in Left(it) : SearchEndsAt(r, it, paths, temp, suffix, known, broken, t, p)
         \/ /\ r = Outcome("nothing", <<>>, t)
            /\ \A q \in Left(it) : InOne(Named(paths, temp, q), suffix, known, broken, t).kind = "nothing"
<1> DEFINE s == Steps(it)
           Found(sc) == InOne(sc, suffix, known, broken, t)
           T == {n \in 0 .. Len(paths) + 2 : Found(s[n].schema).kind # "nothing"}
           last == Least({n \in 0 .. Len(paths) + 2 : ~s[n].ok \/ n \in T})
<1>1. DOMAIN s = 0 .. Len(paths) + 2
  BY StepsUnfold
<1>2. r = IF s[last].ok THEN Found(s[last].schema) ELSE Outcome("nothing", <<>>, t)
  <2>1. {n \in 0 .. Len(paths) + 2 : ~s[n].ok \/ n \in T}
          = {n \in DOMAIN s : ~s[n].ok \/ Found(s[n].schema).kind # "nothing"}
    <3> HIDE DEF s, Found
    <3> QED
      BY <1>1
  <2> QED
    BY <2>1, Zenon DEF SearchFor, InOne
<1>3. \A m \in (0 .. Len(paths) + 2) \ T : Found(s[m].schema).kind = "nothing"
  BY Zenon
<1>4. T \in SUBSET (0 .. Len(paths) + 2)
  BY Zenon
<1>6. \A n \in T : Found(s[n].schema).kind # "nothing"
  BY Zenon
<1> HIDE DEF T, last
<1>5. SearchStops(it, paths, temp, T, last)
  <2>1. last = Least({n \in 0 .. Len(paths) + 2 : ~Steps(it)[n].ok \/ n \in T})
    BY Zenon DEF last
  <2> QED
    BY <1>4, <2>1, SearchIs, Zenon
<1> HIDE DEF s
<1> QED
  BY <1>2, <1>3, <1>5, <1>6, Zenon DEF SearchEndsAt, SearchStops, s

\* The search for a function ends in the first place that has one of the name.
KnownIn(schema, function) == schema # "" /\ <<schema, function>> \in FunDefs

FunctionEndsAt(r, it, paths, temp, function, p) ==
  /\ r = <<Named(paths, temp, p), function>> /\ KnownIn(Named(paths, temp, p), function)
  /\ \A q \in Left(it) : q < p => ~KnownIn(Named(paths, temp, q), function)

LEMMA FunctionInIs ==
  ASSUME NEW paths, NEW temp, Len(paths) \in Nat, NEW it \in Iterators(paths, temp),
         NEW function, NEW r, r = FunctionIn(it, function)
  PROVE  \/ \E p \in Left(it) : FunctionEndsAt(r, it, paths, temp, function, p)
         \/ r = <<>> /\ \A q \in Left(it) : ~KnownIn(Named(paths, temp, q), function)
<1> DEFINE s == Steps(it)
           T == {n \in 0 .. Len(paths) + 2 : KnownIn(s[n].schema, function)}
           last == Least({n \in 0 .. Len(paths) + 2 : ~s[n].ok \/ n \in T})
<1>1. DOMAIN s = 0 .. Len(paths) + 2
  BY StepsUnfold
<1>2. r = IF s[last].ok THEN <<s[last].schema, function>> ELSE <<>>
  <2>1. {n \in 0 .. Len(paths) + 2 : ~s[n].ok \/ n \in T}
          = {n \in DOMAIN s : ~s[n].ok \/ KnownIn(s[n].schema, function)}
    <3> HIDE DEF s
    <3> QED
      BY <1>1
  <2> QED
    BY <2>1, Zenon DEF FunctionIn, KnownIn
<1>3. \A m \in (0 .. Len(paths) + 2) \ T : ~KnownIn(s[m].schema, function)
  BY Zenon
<1>4. T \in SUBSET (0 .. Len(paths) + 2)
  BY Zenon
<1>6. \A n \in T : KnownIn(s[n].schema, function)
  BY Zenon
<1> HIDE DEF T, last
<1>5. SearchStops(it, paths, temp, T, last)
  <2>1. last = Least({n \in 0 .. Len(paths) + 2 : ~Steps(it)[n].ok \/ n \in T})
    BY Zenon DEF last
  <2> QED
    BY <1>4, <2>1, SearchIs, Zenon
<1> HIDE DEF s
<1> QED
  BY <1>2, <1>3, <1>5, <1>6, Zenon DEF FunctionEndsAt, SearchStops, s
-----------------------------------------------------------------------------
\* The flags of the search path are about its schemas, and none of them is another
\* session's temporary one.
PathInv ==
  /\ path \in [paths : {path.paths}, containsPgCatalog : BOOLEAN, containsPgTempSchema : BOOLEAN,
               tempSchemaName : {path.tempSchemaName}]
  /\ Len(path.paths) \in Nat /\ DOMAIN path.paths = 1 .. Len(path.paths)
  /\ path.containsPgCatalog <=> Lists(PgCatalogName)
  /\ path.containsPgTempSchema <=> Lists(PgTempSchemaName)
  /\ HasTemp(path.tempSchemaName) => path.tempSchemaName = OurTemp
  /\ \A i \in DOMAIN path.paths : path.paths[i] # OthersTemp
  /\ ~connected => ~HasTemp(path.tempSchemaName)

\* No schema is called like the alias, this session's temporary schema is there when
\* its path says so, and an object is in a schema.
CatalogInv ==
  /\ \A s \in schemas : /\ s = <<s[1], s[2]>>
                        /\ s[2] # "" /\ s[2] # PgTempSchemaName
                        /\ s[2] = OurTemp => HasTemp(path.tempSchemaName)
  /\ \A o \in objects : o = <<o[1], o[2], o[3]>> /\ <<o[1], o[2]>> \in schemas

\* A name that was resolved names its object in full, and is not that of another
\* session's temporary schema; what was written of it is part of it.
Completed(name, object) ==
  /\ ~ForeignTemp(path, name.schema)
  /\ object = <<name.catalog, MaybeResolveTemporarySchema(path, name.schema), name.table>>
  /\ object[2] # OthersTemp
Names(name, parts) ==
  LET p == ToTableName(parts)
      Agrees(q) == /\ name.table = q.table
                   /\ q.explicitSchema => name.schema = q.schema
                   /\ q.explicitCatalog => name.catalog = q.catalog
  IN  Agrees(p) \/ (Len(parts) = 2 /\ Agrees(InPublic(p)))

FromInv ==
  /\ from \in Seq({from[i] : i \in DOMAIN from})
  /\ \A i \in DOMAIN from :
       /\ from[i].object \in objects
       /\ Completed(from[i].name, from[i].object)
       /\ from[i].parts \in Written /\ Names(from[i].name, from[i].parts)

NamesInv == PathInv /\ CatalogInv /\ FromInv
-----------------------------------------------------------------------------
(* The documented order *)

\* Where the places of an iterator are in an order of schemas.
NoName(x) == x = ""
Matching(order, it, paths, temp, ix) ==
  /\ DOMAIN order \subseteq Nat
  /\ \A p \in Left(it) : ix[p] \in DOMAIN order /\ order[ix[p]] = Named(paths, temp, p)
  /\ \A p, q \in Left(it) : p <= q => ix[p] <= ix[q]
  /\ \A i \in DOMAIN order : ~NoName(order[i]) => \E p \in Left(it) : ix[p] = i

\* The first of the places that are looked for is the first in the order.
LEMMA FirstMatches ==
  ASSUME NEW order, NEW it, NEW paths, NEW temp, NEW ix, Matching(order, it, paths, temp, ix),
         Left(it) \subseteq Int,
         NEW at \in SUBSET DOMAIN order, \A i \in at : ~NoName(order[i]),
         NEW good \in SUBSET Left(it), \A p \in Left(it) : p \in good <=> ix[p] \in at
  PROVE  /\ good = {} => at = {}
         /\ \A p \in good : (\A q \in Left(it) : q < p => q \notin good) =>
              at # {} /\ order[Least(at)] = Named(paths, temp, p)
<1>1. \A i \in at : \E p \in good : ix[p] = i
  BY Zenon DEF Matching
<1>2. ASSUME NEW p \in good, \A q \in Left(it) : q < p => q \notin good
      PROVE  at # {} /\ order[Least(at)] = Named(paths, temp, p)
  <2>1. ix[p] \in at /\ at \in SUBSET Nat
    BY DEF Matching
  <2>2. Least(at) \in at /\ Least(at) <= ix[p]
    BY <2>1, LeastIs
  <2>3. PICK q \in good : ix[q] = Least(at)
    BY <1>1, <2>2
  <2>4. p <= q
    <3>1. p \in Int /\ q \in Int /\ ~(q < p)
      BY <1>2, <2>3
    <3> QED
      BY <3>1
  <2>5. ix[p] <= ix[q]
    BY <2>4 DEF Matching
  <2>6. ix[p] = Least(at)
    <3>1. ix[p] \in Nat /\ Least(at) \in Nat
      BY <2>1, <2>2
    <3> QED
      BY <2>2, <2>3, <2>5, <3>1
  <2>7. order[ix[p]] = Named(paths, temp, p)
    BY DEF Matching
  <2> QED
    BY <2>1, <2>6, <2>7
<1> QED
  BY <1>1, <1>2

LEMMA ThreeParts ==
  ASSUME NEW S, NEW A \in Seq(S), NEW B \in Seq(S), NEW C \in Seq(S)
  PROVE  /\ Len(A) \in Nat /\ Len(B) \in Nat /\ Len(C) \in Nat
         /\ DOMAIN (A \o B \o C) = 1 .. Len(A) + Len(B) + Len(C)
         /\ \A i \in 1 .. Len(A) : (A \o B \o C)[i] = A[i]
         /\ \A i \in 1 .. Len(B) : (A \o B \o C)[Len(A) + i] = B[i]
         /\ \A i \in 1 .. Len(C) : (A \o B \o C)[Len(A) + Len(B) + i] = C[i]
<1>1. Len(A) \in Nat /\ Len(B) \in Nat /\ Len(C) \in Nat
  BY LenProperties
<1>2. /\ A \o B \in Seq(S) /\ Len(A \o B) = Len(A) + Len(B)
      /\ \A i \in 1 .. Len(A) + Len(B) : (A \o B)[i] = IF i <= Len(A) THEN A[i] ELSE B[i - Len(A)]
  BY ConcatProperties
<1>3. /\ (A \o B) \o C \in Seq(S) /\ Len((A \o B) \o C) = Len(A \o B) + Len(C)
      /\ \A i \in 1 .. Len(A \o B) + Len(C) :
           ((A \o B) \o C)[i] = IF i <= Len(A \o B) THEN (A \o B)[i] ELSE C[i - Len(A \o B)]
  BY <1>2, ConcatProperties
<1>4. DOMAIN (A \o B \o C) = 1 .. Len(A) + Len(B) + Len(C)
  BY <1>2, <1>3, LenProperties
<1>5. \A i \in 1 .. Len(A) : (A \o B \o C)[i] = A[i]
  BY <1>1, <1>2, <1>3
<1>6. \A i \in 1 .. Len(B) : (A \o B \o C)[Len(A) + i] = B[i]
  <2> SUFFICES ASSUME NEW i \in 1 .. Len(B) PROVE (A \o B \o C)[Len(A) + i] = B[i]
    OBVIOUS
  <2>1. Len(A) + i \in 1 .. Len(A) + Len(B) /\ Len(A) + i \in 1 .. Len(A) + Len(B) + Len(C)
        /\ ~(Len(A) + i <= Len(A)) /\ Len(A) + i <= Len(A) + Len(B) /\ (Len(A) + i) - Len(A) = i
    BY <1>1
  <2> QED
    BY <1>2, <1>3, <2>1
<1>7. \A i \in 1 .. Len(C) : (A \o B \o C)[Len(A) + Len(B) + i] = C[i]
  <2> SUFFICES ASSUME NEW i \in 1 .. Len(C) PROVE (A \o B \o C)[Len(A) + Len(B) + i] = C[i]
    OBVIOUS
  <2>1. Len(A) + Len(B) + i \in 1 .. Len(A) + Len(B) + Len(C)
        /\ ~(Len(A) + Len(B) + i <= Len(A) + Len(B)) /\ (Len(A) + Len(B) + i) - (Len(A) + Len(B)) = i
    BY <1>1
  <2> QED
    BY <1>2, <1>3, <2>1
<1> QED
  BY <1>1, <1>4, <1>5, <1>6, <1>7

\* The iterators a search path makes.
LEMMA IteratorsOfPath ==
  ASSUME PathInv
  PROVE  /\ Iter(path) \in Iterators(path.paths, path.tempSchemaName)
         /\ IterWithoutImplicitPGSchemas(path) \in Iterators(path.paths, path.tempSchemaName)
         /\ Left(Iter(path)) =
              Remaining(path.paths, path.tempSchemaName, ~Lists(PgTempSchemaName), ~Lists(PgCatalogName), 0)
         /\ Left(IterWithoutImplicitPGSchemas(path)) =
              Remaining(path.paths, path.tempSchemaName, FALSE, FALSE, 0)
<1> DEFINE t == ~path.containsPgTempSchema /\ path.tempSchemaName # ""
           c == ~path.containsPgCatalog
           it == Iter(path)
           bare == IterWithoutImplicitPGSchemas(path)
<1>0. Len(path.paths) \in Nat /\ t \in BOOLEAN /\ c \in BOOLEAN
  BY DEF PathInv
<1>1. /\ it = [paths |-> path.paths, implicitPgCatalog |-> c, implicitPgTempSchema |-> t,
               tempSchemaName |-> path.tempSchemaName, i |-> 0]
      /\ bare = [paths |-> path.paths, implicitPgCatalog |-> FALSE, implicitPgTempSchema |-> FALSE,
                 tempSchemaName |-> path.tempSchemaName, i |-> 0]
  BY DEF Iter, IterWithoutImplicitPGSchemas, Iterator
<1> HIDE DEF t, c, it, bare
<1>2. it \in Iterators(path.paths, path.tempSchemaName) /\ bare \in Iterators(path.paths, path.tempSchemaName)
  BY <1>0, <1>1 DEF Iterators
<1>3. /\ Left(it) = Remaining(path.paths, path.tempSchemaName, t, c, 0)
      /\ Left(bare) = Remaining(path.paths, path.tempSchemaName, FALSE, FALSE, 0)
  BY <1>1 DEF Left
<1>4. Remaining(path.paths, path.tempSchemaName, t, c, 0)
        = Remaining(path.paths, path.tempSchemaName, ~Lists(PgTempSchemaName), ~Lists(PgCatalogName), 0)
  <2>1. c <=> ~Lists(PgCatalogName)
    BY DEF PathInv, c
  <2>2. t /\ HasTemp(path.tempSchemaName) <=> ~Lists(PgTempSchemaName) /\ HasTemp(path.tempSchemaName)
    BY DEF PathInv, t, HasTemp
  <2> QED
    BY <2>1, <2>2 DEF Remaining
<1> QED
  BY <1>2, <1>3, <1>4 DEF it, bare

\* What the path lists, in places.
LEMMA ListedIs ==
  ASSUME PathInv
  PROVE  /\ DOMAIN Listed = 1 .. Len(path.paths)
         /\ \A j \in 1 .. Len(path.paths) :
              /\ Listed[j] = Named(path.paths, path.tempSchemaName, j)
              /\ ~NoName(Listed[j]) => Open(path.paths, path.tempSchemaName, j)
         /\ Listed \in Seq({Listed[j] : j \in 1 .. Len(path.paths)})
<1> DEFINE P == path.paths
           N == Len(P)
           temp == path.tempSchemaName
           S == {Listed[j] : j \in 1 .. N}
<1>1. N \in Nat /\ DOMAIN P = 1 .. N
  BY DEF PathInv
<1>2. DOMAIN Listed = 1 .. N
      /\ \A j \in 1 .. N : Listed[j] = IF P[j] = PgTempSchemaName THEN temp ELSE P[j]
  BY <1>1, Zenon DEF Listed
<1>3. \A j \in 1 .. N : j # -1 /\ j # 0
  BY <1>1
<1>4. \A j \in 1 .. N : Listed[j] = Named(P, temp, j)
  BY <1>2, <1>3, Zenon DEF Named
<1>5. \A j \in 1 .. N : ~NoName(Listed[j]) => Open(P, temp, j)
  BY <1>2, Zenon DEF NoName, Open, HasTemp
<1>6. Listed \in [1 .. N -> S]
  <2>1. Listed = [j \in 1 .. N |-> Listed[j]]
    BY <1>1, Zenon DEF Listed
  <2> QED
    BY <2>1
<1>7. Listed \in Seq(S)
  <2> HIDE DEF S
  <2> QED
    BY <1>1, <1>6, SeqDef
<1> QED
  BY <1>2, <1>4, <1>5, <1>7

LEMMA ListedPlaces ==
  ASSUME PathInv
  PROVE  \E ix : Matching(Listed, IterWithoutImplicitPGSchemas(path), path.paths, path.tempSchemaName, ix)
<1> DEFINE N == Len(path.paths)
           it == IterWithoutImplicitPGSchemas(path)
           ix == [p \in Left(it) |-> p]
<1>1. N \in Nat
  BY DEF PathInv
<1>2. Left(it) = {p \in 1 .. N : Open(path.paths, path.tempSchemaName, p)}
  BY <1>1, IteratorsOfPath DEF Remaining
<1>3. \A p \in Left(it) : ix[p] = p
  OBVIOUS
<1> HIDE DEF ix, it
<1>4. DOMAIN Listed \subseteq Nat
  BY <1>1, ListedIs
<1>5. \A p \in Left(it) : ix[p] \in DOMAIN Listed /\ Listed[ix[p]] = Named(path.paths, path.tempSchemaName, p)
  BY <1>2, <1>3, ListedIs
<1>6. \A p, q \in Left(it) : p <= q => ix[p] <= ix[q]
  BY <1>3
<1>7. \A i \in DOMAIN Listed : ~NoName(Listed[i]) => \E p \in Left(it) : ix[p] = i
  <2> SUFFICES ASSUME NEW i \in DOMAIN Listed, ~NoName(Listed[i]) PROVE i \in Left(it)
    BY <1>3
  <2> QED
    BY <1>2, ListedIs
<1>8. Matching(Listed, it, path.paths, path.tempSchemaName, ix)
  BY <1>4, <1>5, <1>6, <1>7, Zenon DEF Matching
<1> QED
  BY <1>8 DEF it

LEMMA DocumentedPlaces ==
  ASSUME PathInv
  PROVE  \E ix : Matching(DocumentedOrder, Iter(path), path.paths, path.tempSchemaName, ix)
<1> DEFINE P == path.paths
           N == Len(P)
           temp == path.tempSchemaName
           it == Iter(path)
           A == IF Lists(PgTempSchemaName) THEN <<>> ELSE <<temp>>
           B == IF Lists(PgCatalogName) THEN <<>> ELSE <<PgCatalogName>>
           S == {temp, PgCatalogName} \cup {Listed[j] : j \in 1 .. N}
           order == DocumentedOrder
           ix == [p \in Left(it) |-> IF p = -1 THEN 1 ELSE IF p = 0 THEN Len(A) + 1 ELSE Len(A) + Len(B) + p]
<1>1. N \in Nat
  BY DEF PathInv
<1>2. Left(it) = Remaining(P, temp, ~Lists(PgTempSchemaName), ~Lists(PgCatalogName), 0)
  BY IteratorsOfPath
<1>3. /\ Lists(PgTempSchemaName) => Len(A) = 0
      /\ ~Lists(PgTempSchemaName) => Len(A) = 1 /\ A[1] = temp
      /\ Lists(PgCatalogName) => Len(B) = 0
      /\ ~Lists(PgCatalogName) => Len(B) = 1 /\ B[1] = PgCatalogName
  OBVIOUS
<1>4. A \in Seq(S) /\ B \in Seq(S)
  <2>1. temp \in S /\ PgCatalogName \in S
    OBVIOUS
  <2> HIDE DEF S
  <2>2. <<>> \in Seq(S) /\ <<temp>> \in Seq(S) /\ <<PgCatalogName>> \in Seq(S)
    <3> DEFINE pgCatalog == PgCatalogName
    <3> HIDE DEF temp, pgCatalog
    <3>1. <<>> \in Seq(S) /\ <<temp>> \in Seq(S) /\ <<pgCatalog>> \in Seq(S)
      BY <2>1, EmptySeq DEF pgCatalog
    <3> QED
      BY <3>1 DEF pgCatalog
  <2> QED
    BY <2>2, Zenon
<1>5. Listed \in Seq(S) /\ Len(Listed) = N
  <2>1. Listed \in Seq({Listed[j] : j \in 1 .. N}) /\ DOMAIN Listed = 1 .. N
    BY ListedIs
  <2> DEFINE R == {Listed[j] : j \in 1 .. N}
  <2>2. R \subseteq S
    OBVIOUS
  <2> HIDE DEF S, R
  <2>3. Listed \in Seq(R)
    BY <2>1 DEF R
  <2>4. Listed \in [1 .. Len(Listed) -> R] /\ Len(Listed) \in Nat
    BY <2>3, LenProperties
  <2>5. Listed \in [1 .. Len(Listed) -> S]
    BY <2>2, <2>4
  <2>6. Len(Listed) = N
    BY <1>1, <2>1, <2>4
  <2> QED
    BY <2>4, <2>5, <2>6, SeqDef
<1>6. order = A \o B \o Listed
  BY Zenon DEF DocumentedOrder
<1> HIDE DEF A, B, S, order
<1>7. /\ DOMAIN order = 1 .. Len(A) + Len(B) + N
      /\ \A i \in 1 .. Len(A) : order[i] = A[i]
      /\ \A i \in 1 .. Len(B) : order[Len(A) + i] = B[i]
      /\ \A i \in 1 .. N : order[Len(A) + Len(B) + i] = Listed[i]
  <2>1. /\ DOMAIN (A \o B \o Listed) = 1 .. Len(A) + Len(B) + Len(Listed)
        /\ \A i \in 1 .. Len(A) : (A \o B \o Listed)[i] = A[i]
        /\ \A i \in 1 .. Len(B) : (A \o B \o Listed)[Len(A) + i] = B[i]
        /\ \A i \in 1 .. Len(Listed) : (A \o B \o Listed)[Len(A) + Len(B) + i] = Listed[i]
    <3> DEFINE C == Listed
    <3>1. C \in Seq(S)
      BY <1>5
    <3> HIDE DEF C, N
    <3> QED
      BY <1>4, <3>1, ThreeParts
  <2> QED
    BY <1>5, <1>6, <2>1, Zenon
<1>8. /\ \A p \in Left(it) : ix[p] = IF p = -1 THEN 1 ELSE IF p = 0 THEN Len(A) + 1 ELSE Len(A) + Len(B) + p
      /\ Len(A) \in {0, 1} /\ Len(B) \in {0, 1}
      /\ Named(P, temp, -1) = temp /\ Named(P, temp, 0) = PgCatalogName
  BY <1>3 DEF Named
<1>9. /\ -1 \in Left(it) <=> ~Lists(PgTempSchemaName) /\ HasTemp(temp)
      /\ 0 \in Left(it) <=> ~Lists(PgCatalogName)
      /\ \A p \in 1 .. N : p \in Left(it) <=> Open(P, temp, p)
      /\ \A p \in Left(it) : p = -1 \/ p = 0 \/ p \in 1 .. N
  BY <1>1, <1>2 DEF Remaining
<1>10. \A j \in 1 .. N : Listed[j] = Named(P, temp, j) /\ (~NoName(Listed[j]) => Open(P, temp, j))
  BY ListedIs
<1> HIDE DEF ix, it, P, N, temp
<1>11. \A p \in Left(it) : ix[p] \in DOMAIN order /\ order[ix[p]] = Named(P, temp, p)
  <2> SUFFICES ASSUME NEW p \in Left(it) PROVE ix[p] \in DOMAIN order /\ order[ix[p]] = Named(P, temp, p)
    OBVIOUS
  <2>1. CASE p = -1
    BY <1>1, <1>3, <1>7, <1>8, <1>9, <2>1
  <2>2. CASE p = 0
    BY <1>1, <1>3, <1>7, <1>8, <1>9, <2>2
  <2>3. CASE p \in 1 .. N
    BY <1>1, <1>7, <1>8, <1>10, <2>3
  <2> QED
    BY <1>9, <2>1, <2>2, <2>3
<1>12. \A p, q \in Left(it) : p <= q => ix[p] <= ix[q]
  BY <1>1, <1>3, <1>8, <1>9
<1>13. \A i \in DOMAIN order : ~NoName(order[i]) => \E p \in Left(it) : ix[p] = i
  <2> SUFFICES ASSUME NEW i \in DOMAIN order, ~NoName(order[i]) PROVE \E p \in Left(it) : ix[p] = i
    OBVIOUS
  <2>1. i \in 1 .. Len(A) + Len(B) + N
    BY <1>7
  <2>2. CASE i <= Len(A)
    <3>1. i = 1 /\ ~Lists(PgTempSchemaName) /\ order[i] = temp
      BY <1>1, <1>3, <1>7, <1>8, <2>1, <2>2
    <3>2. HasTemp(temp)
      BY <3>1 DEF NoName, HasTemp
    <3> QED
      BY <1>8, <1>9, <3>1, <3>2
  <2>3. CASE i > Len(A) /\ i <= Len(A) + Len(B)
    <3>1. i = Len(A) + 1 /\ ~Lists(PgCatalogName)
      <4>0. Len(A) \in Nat /\ (Len(B) = 0 \/ Len(B) = 1)
        BY <1>8
      <4>1. i = Len(A) + 1 /\ Len(B) # 0
        <5>1. i \in Nat
          BY <1>1, <1>8, <2>1
        <5>2. \A n, k \in Nat : \A m \in {0, 1} : n < k /\ k <= n + m => k = n + 1 /\ m # 0
          OBVIOUS
        <5> QED
          BY <2>3, <4>0, <5>1, <5>2
      <4> QED
        BY <1>3, <4>1, Zenon
    <3> QED
      BY <1>8, <1>9, <3>1
  <2>4. CASE i > Len(A) + Len(B)
    <3> DEFINE j == i - (Len(A) + Len(B))
    <3>1. j \in 1 .. N /\ i = Len(A) + Len(B) + j
      BY <1>1, <1>8, <2>1, <2>4
    <3> HIDE DEF j
    <3>2. Open(P, temp, j)
      BY <1>7, <1>10, <3>1
    <3> QED
      BY <1>1, <1>8, <1>9, <3>1, <3>2
  <2> QED
    BY <1>8, <2>1, <2>2, <2>3, <2>4
<1>14. DOMAIN order \subseteq Nat
  BY <1>7
<1>15. Matching(order, it, P, temp, ix)
  BY <1>11, <1>12, <1>13, <1>14, Zenon DEF Matching
<1> QED
  BY <1>15 DEF it, P, temp, order
-----------------------------------------------------------------------------
(* Lookups *)

LEMMA LookupIs ==
  ASSUME NEW where, NEW known, NEW broken, NEW t, NEW then, NEW r,
         r = Lookup(where, known, broken, t, then)
  PROVE  /\ r.kind = "found" => r.found = where /\ r.name = then /\ where \in known
         /\ r.kind # "found" => r.found = <<>> /\ r.name = t
         /\ r.kind = "nothing" => where \notin known
         /\ <<where[1], where[2]>> # broken =>
              /\ where \in known => r.kind = "found"
              /\ where \notin known => r.kind = "nothing"
<1>1. CASE <<where[1], where[2]>> = broken
  <2>1. r = Failed(t)
    BY <1>1, Zenon DEF Lookup
  <2> QED
    BY <1>1, <2>1 DEF Failed, Outcome
<1>2. CASE <<where[1], where[2]>> # broken /\ where \in known
  <2>1. r = Outcome("found", where, then)
    BY <1>2, Zenon DEF Lookup
  <2> QED
    BY <1>2, <2>1 DEF Outcome
<1>3. CASE <<where[1], where[2]>> # broken /\ where \notin known
  <2>1. r = Outcome("nothing", <<>>, t)
    BY <1>3, Zenon DEF Lookup
  <2> QED
    BY <1>3, <2>1 DEF Outcome
<1> QED
  BY <1>1, <1>2, <1>3

LEMMA JoinIs ==
  ASSUME NEW a, NEW b, NEW c
  PROVE  <<a, b>> \o <<c>> = <<a, b, c>> /\ <<a, b>> \o <<>> = <<a, b>> /\ <<a, b>> # <<>>
<1>1. PICK S : a \in S /\ b \in S /\ c \in S
  BY a \in {a, b, c} /\ b \in {a, b, c} /\ c \in {a, b, c}
<1>2. <<a, b>> \in Seq(S) /\ <<c>> \in Seq(S) /\ <<a, b, c>> \in Seq(S)
  BY <1>1
<1>3. <<a, b>> \o <<c>> = <<a, b, c>>
  <2>1. /\ <<a, b>> \o <<c>> \in Seq(S) /\ Len(<<a, b>> \o <<c>>) = 3
        /\ \A i \in 1 .. 3 : (<<a, b>> \o <<c>>)[i] = IF i <= 2 THEN <<a, b>>[i] ELSE <<c>>[i - 2]
    BY <1>2, ConcatProperties
  <2>2. \A i \in 1 .. 3 : (<<a, b>> \o <<c>>)[i] = <<a, b, c>>[i]
    BY <2>1
  <2> QED
    BY <1>2, <2>1, <2>2, SeqEqual
<1>4. <<a, b>> \o <<>> = <<a, b>>
  BY <1>2, ConcatEmptySeq
<1> QED
  BY <1>3, <1>4

\* The names that are reserved are different names.
LEMMA NamesDiffer ==
  /\ OurTemp # PgTempSchemaName /\ OurTemp # OthersTemp /\ OthersTemp # PgTempSchemaName
  /\ PgCatalogName \notin Temporary /\ PublicSchema \notin Temporary /\ "" \notin Temporary
  /\ PgCatalogName # PublicSchema /\ PgCatalogName # "" /\ PublicSchema # ""
  /\ OurTemp # "" /\ OthersTemp # "" /\ PgTempSchemaName # ""
  /\ Temporary = {PgTempSchemaName, OurTemp, OthersTemp}
BY DEF OurTemp, OthersTemp, PgTempSchemaName, PgCatalogName, PublicSchema, Temporary

\* The schema of a place, where it exists, has its name to itself.
LEMMA NamedIs ==
  ASSUME PathInv, NEW p \in Left(Iter(path)) \cup Left(IterWithoutImplicitPGSchemas(path)),
         NEW sc, sc = Named(path.paths, path.tempSchemaName, p)
  PROVE  /\ sc # OthersTemp /\ MaybeResolveTemporarySchema(path, sc) = sc
         /\ (sc = OurTemp => HasTemp(path.tempSchemaName)) => ~ForeignTemp(path, sc)
<1> DEFINE temp == path.tempSchemaName
           P == path.paths
<1>1. /\ p = -1 => HasTemp(temp)
      /\ p # -1 /\ p # 0 => p \in DOMAIN P /\ Open(P, temp, p)
  <2>1. Len(P) \in Nat /\ DOMAIN P = 1 .. Len(P)
    BY DEF PathInv
  <2>2. \E t, c \in BOOLEAN : p \in Remaining(P, temp, t, c, 0)
    BY IteratorsOfPath
  <2>3. PICK t, c \in BOOLEAN : p \in Remaining(P, temp, t, c, 0)
    BY <2>2
  <2> HIDE DEF P, temp
  <2> QED
    BY <2>1, <2>3 DEF Remaining
<1>2. sc # OthersTemp /\ sc # PgTempSchemaName
  <2>1. HasTemp(temp) => temp = OurTemp
    BY DEF PathInv
  <2>2. CASE p = -1
    BY <1>1, <2>1, <2>2, NamesDiffer, Zenon DEF Named
  <2>3. CASE p # -1 /\ p = 0
    BY <2>3, NamesDiffer, Zenon DEF Named, Temporary
  <2>4. CASE p # -1 /\ p # 0 /\ P[p] = PgTempSchemaName
    BY <1>1, <2>1, <2>4, NamesDiffer, Zenon DEF Named, Open
  <2>5. CASE p # -1 /\ p # 0 /\ P[p] # PgTempSchemaName
    <3>1. P[p] # OthersTemp
      BY <1>1, <2>5, Zenon DEF PathInv
    <3> QED
      BY <2>5, <3>1, Zenon DEF Named
  <2> QED
    BY <2>2, <2>3, <2>4, <2>5
<1>3. MaybeResolveTemporarySchema(path, sc) = sc
  BY <1>2, Zenon DEF MaybeResolveTemporarySchema
<1>4. ASSUME sc = OurTemp => HasTemp(path.tempSchemaName)
      PROVE  ~ForeignTemp(path, sc)
  <2>1. sc = OurTemp => sc = path.tempSchemaName
    BY <1>4, Zenon DEF PathInv
  <2>2. sc \in Temporary => sc = OurTemp
    BY <1>2, NamesDiffer
  <2> QED
    BY <2>1, <2>2 DEF ForeignTemp
<1> QED
  BY <1>2, <1>3, <1>4

\* What a name with a schema comes to.
FoundHere(r, t, suffix) ==
  /\ r.found = <<curDb, MaybeResolveTemporarySchema(path, t.schema)>> \o suffix
  /\ r.name = InDatabase(t, curDb)
FoundAsWritten(r, t, suffix) ==
  /\ t.explicitCatalog
  /\ r.found = <<t.catalog, MaybeResolveTemporarySchema(path, t.schema)>> \o suffix /\ r.name = t
FoundInPublic(r, t, suffix) ==
  /\ r.found = <<t.schema, PublicSchema>> \o suffix /\ r.name = InPublic(t)
NotFound(r, t) == r.kind # "found" /\ r.found = <<>> /\ r.name = t

LEMMA ExplicitIs ==
  ASSUME NEW t, NEW suffix, NEW known, NEW broken, NEW r, r = Explicit(t, suffix, known, broken)
  PROVE  \/ NotFound(r, t)
         \/ /\ r.kind = "found" /\ r.found \in known /\ ~ForeignTemp(path, t.schema)
            /\ \/ FoundAsWritten(r, t, suffix)
               \/ ~t.explicitCatalog /\ FoundHere(r, t, suffix)
               \/ ~t.explicitCatalog /\ FoundInPublic(r, t, suffix)
<1> DEFINE sc == MaybeResolveTemporarySchema(path, t.schema)
           written == Lookup(<<t.catalog, sc>> \o suffix, known, broken, t, t)
           here == Lookup(<<curDb, sc>> \o suffix, known, broken, t, InDatabase(t, curDb))
           public == Lookup(<<t.schema, PublicSchema>> \o suffix, known, broken, t, InPublic(t))
<1>1. r = IF ForeignTemp(path, t.schema) THEN Failed(t)
          ELSE IF t.explicitCatalog THEN written
          ELSE IF here.kind # "nothing" THEN here ELSE public
  BY Zenon DEF Explicit
<1>2. Failed(t).kind = "error" /\ Failed(t).found = <<>> /\ Failed(t).name = t
  BY DEF Failed, Outcome
<1>0. ASSUME NEW where, NEW then, NEW l, l = Lookup(where, known, broken, t, then)
      PROVE  /\ l.kind = "found" => l.found = where /\ l.name = then /\ where \in known
             /\ l.kind # "found" => NotFound(l, t)
  BY <1>0, LookupIs DEF NotFound
<1> DEFINE here2 == <<curDb, sc>> \o suffix
           written2 == <<t.catalog, sc>> \o suffix
           public2 == <<t.schema, PublicSchema>> \o suffix
<1>a. /\ written = Lookup(written2, known, broken, t, t)
      /\ here = Lookup(here2, known, broken, t, InDatabase(t, curDb))
      /\ public = Lookup(public2, known, broken, t, InPublic(t))
  OBVIOUS
<1> HIDE DEF written, here, public, written2, here2, public2
<1>b. /\ written.kind = "found" => written.found = written2 /\ written.name = t /\ written2 \in known
      /\ written.kind # "found" => NotFound(written, t)
  BY <1>a, <1>0
<1>c. /\ here.kind = "found" => here.found = here2 /\ here.name = InDatabase(t, curDb) /\ here2 \in known
      /\ here.kind # "found" => NotFound(here, t)
  BY <1>a, <1>0
<1>d. /\ public.kind = "found" => public.found = public2 /\ public.name = InPublic(t) /\ public2 \in known
      /\ public.kind # "found" => NotFound(public, t)
  BY <1>a, <1>0
<1>3. /\ written.kind = "found" => written.found = <<t.catalog, sc>> \o suffix /\ written.name = t
                                   /\ written.found \in known
      /\ written.kind # "found" => NotFound(written, t)
  BY <1>b, Zenon DEF written2
<1>4. /\ here.kind = "found" => FoundHere(here, t, suffix) /\ here.found \in known
      /\ here.kind # "found" => NotFound(here, t)
  BY <1>c, Zenon DEF here2, FoundHere
<1>5. /\ public.kind = "found" => FoundInPublic(public, t, suffix) /\ public.found \in known
      /\ public.kind # "found" => NotFound(public, t)
  BY <1>d, Zenon DEF public2, FoundInPublic
<1>6. CASE ForeignTemp(path, t.schema)
  BY <1>1, <1>2, <1>6 DEF NotFound
<1>7. CASE ~ForeignTemp(path, t.schema) /\ t.explicitCatalog
  <2>1. r = written
    BY <1>1, <1>7, Zenon
  <2> QED
    BY <1>3, <1>7, <2>1, Zenon DEF FoundAsWritten
<1>8. CASE ~ForeignTemp(path, t.schema) /\ ~t.explicitCatalog
  <2>1. r = here \/ r = public
    BY <1>1, <1>8, Zenon
  <2> QED
    BY <1>4, <1>5, <1>8, <2>1, Zenon
<1> QED
  BY <1>6, <1>7, <1>8

LEMMA ToTableNameIs ==
  ASSUME NEW parts, Len(parts) \in 1 .. 3, NEW t, t = ToTableName(parts)
  PROVE  /\ t.table = parts[1]
         /\ Len(parts) = 1 => ~t.explicitSchema /\ ~t.explicitCatalog
         /\ Len(parts) = 2 => t.explicitSchema /\ ~t.explicitCatalog /\ t.schema = parts[2]
         /\ Len(parts) = 3 => t.explicitSchema /\ t.explicitCatalog /\ t.schema = parts[2] /\ t.catalog = parts[3]
         /\ t.explicitCatalog => t.explicitSchema
         /\ ~t.explicitSchema <=> Len(parts) = 1
         /\ t = [table |-> t.table, schema |-> t.schema, catalog |-> t.catalog,
                 explicitSchema |-> t.explicitSchema, explicitCatalog |-> t.explicitCatalog]
<1> DEFINE sc == Part(parts, 2)
           db == Part(parts, 3)
           es == Len(parts) >= 2
           ec == Len(parts) >= 3
<1>1. t = [table |-> parts[1], schema |-> sc, catalog |-> db, explicitSchema |-> es, explicitCatalog |-> ec]
  BY Zenon DEF ToTableName
<1>2. Len(parts) >= 2 => sc = parts[2]
  BY Zenon DEF Part
<1>3. Len(parts) >= 3 => db = parts[3]
  BY Zenon DEF Part
<1>4. /\ ec => es
      /\ Len(parts) = 1 => ~es /\ ~ec
      /\ Len(parts) = 2 => es /\ ~ec
      /\ Len(parts) = 3 => es /\ ec
      /\ ~es <=> Len(parts) = 1
  <2>1. \A n \in 1 .. 3 : /\ n >= 3 => n >= 2
                          /\ n = 1 => ~(n >= 2) /\ ~(n >= 3)
                          /\ n = 2 => n >= 2 /\ ~(n >= 3)
                          /\ n = 3 => n >= 2 /\ n >= 3
                          /\ (n >= 2 \/ n = 1)
    OBVIOUS
  <2> QED
    BY <2>1, Zenon
<1>6. /\ Len(parts) = 2 => Len(parts) >= 2
      /\ Len(parts) = 3 => Len(parts) >= 2 /\ Len(parts) >= 3
  OBVIOUS
<1> HIDE DEF sc, db, es, ec
<1>7. /\ t.table = parts[1] /\ t.schema = sc /\ t.catalog = db
      /\ t.explicitSchema = es /\ t.explicitCatalog = ec
  BY <1>1
<1>8. t = [table |-> t.table, schema |-> t.schema, catalog |-> t.catalog,
           explicitSchema |-> t.explicitSchema, explicitCatalog |-> t.explicitCatalog]
  <2> DEFINE table == parts[1]
  <2>1. t = [table |-> table, schema |-> sc, catalog |-> db, explicitSchema |-> es, explicitCatalog |-> ec]
    BY <1>1
  <2> HIDE DEF table
  <2> QED
    BY <2>1
<1>9. (t.explicitSchema <=> es) /\ (t.explicitCatalog <=> ec)
  BY <1>7
<1> QED
  BY <1>2, <1>3, <1>4, <1>6, <1>7, <1>8, <1>9, Zenon

\* A name with a schema, taken for one with a database.
LEMMA PublicIs ==
  ASSUME NEW t, NEW parts, t = ToTableName(parts)
  PROVE  /\ InPublic(t).table = t.table /\ InPublic(t).schema = PublicSchema
         /\ InPublic(t).catalog = t.schema /\ InPublic(t).explicitSchema = t.explicitSchema
         /\ InPublic(t).explicitCatalog
<1> DEFINE public == PublicSchema
           sc == Part(parts, 2)
           db == Part(parts, 3)
           es == Len(parts) >= 2
           ec == Len(parts) >= 3
<1>1. t = [table |-> parts[1], schema |-> sc, catalog |-> db, explicitSchema |-> es, explicitCatalog |-> ec]
  BY Zenon DEF ToTableName
<1>2. InPublic(t) = [t EXCEPT !.catalog = t.schema, !.schema = public, !.explicitCatalog = TRUE]
  BY Zenon DEF InPublic
<1> HIDE DEF public, sc, db, es, ec
<1>3. /\ InPublic(t).table = t.table /\ InPublic(t).schema = public
      /\ InPublic(t).catalog = t.schema /\ InPublic(t).explicitSchema = t.explicitSchema
      /\ InPublic(t).explicitCatalog
  BY <1>1, <1>2
<1> QED
  BY <1>3 DEF public

\* A lookup in one schema.
LEMMA InOneIs ==
  ASSUME NEW schema, NEW suffix, NEW known, NEW broken, NEW t, NEW r, r = InOne(schema, suffix, known, broken, t)
  PROVE  /\ r.kind = "found" => /\ r.found = <<curDb, schema>> \o suffix /\ r.found \in known
                                /\ r.name = InSchema(t, curDb, schema)
         /\ r.kind # "found" => NotFound(r, t)
         /\ r.kind = "nothing" => <<curDb, schema>> \o suffix \notin known
<1> DEFINE where == <<curDb, schema>> \o suffix
<1>1. r = Lookup(where, known, broken, t, InSchema(t, curDb, schema))
  BY DEF InOne
<1> HIDE DEF where
<1>2. /\ r.kind = "found" => r.found = where /\ r.name = InSchema(t, curDb, schema) /\ where \in known
      /\ r.kind # "found" => r.found = <<>> /\ r.name = t
      /\ r.kind = "nothing" => where \notin known
  BY <1>1, LookupIs
<1> QED
  BY <1>2, Zenon DEF where, NotFound

\* What a name without a schema comes to.
LEMMA SearchedIs ==
  ASSUME PathInv, NEW it \in {Iter(path), IterWithoutImplicitPGSchemas(path)},
         NEW suffix, NEW known, NEW broken, NEW t, NEW r, r = SearchFor(it, suffix, known, broken, t)
  PROVE  \/ NotFound(r, t)
         \/ /\ r.kind = "found" /\ r.found \in known
            /\ \E p \in Left(it) :
                 LET sc == Named(path.paths, path.tempSchemaName, p)
                 IN  r.found = <<curDb, sc>> \o suffix /\ r.name = InSchema(t, curDb, sc)
<1> DEFINE P == path.paths
           temp == path.tempSchemaName
<1>1. Len(P) \in Nat /\ it \in Iterators(P, temp)
  BY IteratorsOfPath DEF PathInv
<1>2. CASE \E p \in Left(it) : SearchEndsAt(r, it, P, temp, suffix, known, broken, t, p)
  <2>1. PICK p \in Left(it) : SearchEndsAt(r, it, P, temp, suffix, known, broken, t, p)
    BY <1>2
  <2>2. r = InOne(Named(P, temp, p), suffix, known, broken, t)
    BY <2>1, Zenon DEF SearchEndsAt
  <2> HIDE DEF P, temp
  <2>3. /\ r.kind = "found" => /\ r.found = <<curDb, Named(P, temp, p)>> \o suffix /\ r.found \in known
                               /\ r.name = InSchema(t, curDb, Named(P, temp, p))
        /\ r.kind # "found" => NotFound(r, t)
    BY <2>2, InOneIs
  <2> QED
    BY <2>3, Zenon DEF P, temp
<1>3. CASE r = Outcome("nothing", <<>>, t)
  BY <1>3 DEF Outcome, NotFound
<1>4. \/ \E p \in Left(it) : SearchEndsAt(r, it, P, temp, suffix, known, broken, t, p)
      \/ r = Outcome("nothing", <<>>, t)
  <2> HIDE DEF P, temp
  <2> QED
    BY <1>1, SearchForIs
<1> QED
  BY <1>2, <1>3, <1>4

\* The schemas that a lookup may come to.
InSchemas(known) == \A o \in known : <<o[1], o[2]>> \in schemas

\* A name that is resolved is completed, and agrees with what was written.
LEMMA Resolved ==
  ASSUME PathInv, CatalogInv, NEW parts, Len(parts) \in 1 .. 3,
         NEW known, InSchemas(known), NEW broken,
         NEW r, r = ResolveExisting(ToTableName(parts), known, broken)
  PROVE  \/ NotFound(r, ToTableName(parts))
         \/ /\ r.kind = "found" /\ r.found \in known
            /\ Completed(r.name, r.found) /\ Names(r.name, parts)
<1> DEFINE t == ToTableName(parts)
           suffix == <<t.table>>
           Res(sc) == MaybeResolveTemporarySchema(path, sc)
<1>1. /\ Len(parts) = 1 => ~t.explicitSchema /\ ~t.explicitCatalog
      /\ Len(parts) = 2 => t.explicitSchema /\ ~t.explicitCatalog /\ t.schema = parts[2]
      /\ t.explicitCatalog => t.explicitSchema
      /\ ~t.explicitSchema <=> Len(parts) = 1
      /\ ~t.explicitCatalog /\ t.explicitSchema => Len(parts) = 2
      /\ t = [table |-> t.table, schema |-> t.schema, catalog |-> t.catalog,
              explicitSchema |-> t.explicitSchema, explicitCatalog |-> t.explicitCatalog]
  <2>1. Len(parts) = 1 \/ Len(parts) = 2 \/ Len(parts) = 3
    OBVIOUS
  <2> QED
    BY <2>1, ToTableNameIs, Zenon
<1> HIDE DEF t
<1>2. r = IF t.explicitSchema THEN Explicit(t, suffix, known, broken)
          ELSE SearchFor(Iter(path), suffix, known, broken, t)
  BY Zenon DEF ResolveExisting, t
<1>3. \A x \in known : x[2] # PgTempSchemaName /\ (x[2] = OurTemp => HasTemp(path.tempSchemaName))
  <2> SUFFICES ASSUME NEW x \in known
               PROVE  x[2] # PgTempSchemaName /\ (x[2] = OurTemp => HasTemp(path.tempSchemaName))
    OBVIOUS
  <2>1. <<x[1], x[2]>> \in schemas
    BY DEF InSchemas
  <2>2. <<x[1], x[2]>>[2] = x[2]
    OBVIOUS
  <2> QED
    BY <2>1, <2>2, Zenon DEF CatalogInv
<1>4. \A o, a, b : o = <<a, b>> \o suffix => o = <<a, b, t.table>> /\ o[2] = b
  <2> DEFINE c == t.table
  <2>1. \A a, b : <<a, b>> \o <<c>> = <<a, b, c>>
    BY JoinIs
  <2>2. \A a, b : <<a, b, c>>[2] = b
    OBVIOUS
  <2> HIDE DEF c
  <2>3. suffix = <<c>>
    BY DEF c
  <2> HIDE DEF suffix
  <2>4. ASSUME NEW o, NEW a, NEW b, o = <<a, b>> \o suffix
        PROVE  o = <<a, b, c>> /\ o[2] = b
    <3>1. o = <<a, b, c>>
      BY <2>1, <2>3, <2>4, Zenon
    <3> QED
      BY <2>2, <3>1
  <2> QED
    BY <2>4 DEF c
<1> HIDE DEF suffix
<1>5. \A n : Names(n, parts) <=>
        \/ /\ n.table = t.table
           /\ t.explicitSchema => n.schema = t.schema
           /\ t.explicitCatalog => n.catalog = t.catalog
        \/ /\ Len(parts) = 2
           /\ n.table = InPublic(t).table
           /\ InPublic(t).explicitSchema => n.schema = InPublic(t).schema
           /\ InPublic(t).explicitCatalog => n.catalog = InPublic(t).catalog
  BY Zenon DEF Names, t
<1>6. \A db, sc : /\ InSchema(t, db, sc).table = t.table /\ InSchema(t, db, sc).schema = sc
                  /\ InSchema(t, db, sc).catalog = db
  BY <1>1 DEF InSchema
<1>7. \A db : /\ InDatabase(t, db).table = t.table /\ InDatabase(t, db).schema = t.schema
              /\ InDatabase(t, db).catalog = db
  BY <1>1 DEF InDatabase
<1>8. /\ InPublic(t).table = t.table /\ InPublic(t).schema = PublicSchema
      /\ InPublic(t).catalog = t.schema
  <2> DEFINE public == PublicSchema
  <2>1. InPublic(t) = [t EXCEPT !.catalog = t.schema, !.schema = public, !.explicitCatalog = TRUE]
    BY Zenon DEF InPublic
  <2> HIDE DEF public
  <2>2. InPublic(t).table = t.table /\ InPublic(t).schema = public /\ InPublic(t).catalog = t.schema
    BY <1>1, <2>1
  <2> QED
    BY <2>2 DEF public
<1>9. ASSUME ~ForeignTemp(path, t.schema)
      PROVE  Res(t.schema) # OthersTemp
  <2>1. path.tempSchemaName # OthersTemp
    BY NamesDiffer, Zenon DEF PathInv, HasTemp
  <2>2. t.schema # OthersTemp
    BY <1>9, <2>1, NamesDiffer DEF ForeignTemp
  <2> QED
    BY <2>1, <2>2, Zenon DEF MaybeResolveTemporarySchema
<1>10. CASE t.explicitSchema
  <2>1. \/ NotFound(r, t)
        \/ /\ r.kind = "found" /\ r.found \in known /\ ~ForeignTemp(path, t.schema)
           /\ \/ FoundAsWritten(r, t, suffix)
              \/ ~t.explicitCatalog /\ FoundHere(r, t, suffix)
              \/ ~t.explicitCatalog /\ FoundInPublic(r, t, suffix)
    BY <1>2, <1>10, ExplicitIs, Zenon
  <2>2. ASSUME ~ForeignTemp(path, t.schema), FoundAsWritten(r, t, suffix)
        PROVE  Completed(r.name, r.found) /\ Names(r.name, parts)
    <3>1. r.found = <<t.catalog, Res(t.schema), t.table>> /\ r.found[2] = Res(t.schema) /\ r.name = t
      <4>1. r.found = <<t.catalog, Res(t.schema)>> \o suffix /\ r.name = t
        BY <2>2, Zenon DEF FoundAsWritten
      <4> DEFINE o == r.found
                 x == t.catalog
                 y == Res(t.schema)
      <4>2. o = <<x, y>> \o suffix
        BY <4>1
      <4> HIDE DEF o, x, y
      <4>3. o = <<x, y, t.table>> /\ o[2] = y
        BY <1>4, <4>2
      <4> QED
        BY <4>1, <4>3, Zenon DEF o, x, y
    <3> QED
      BY <1>5, <1>9, <2>2, <3>1, Zenon DEF Completed
  <2>3. ASSUME ~ForeignTemp(path, t.schema), ~t.explicitCatalog, FoundHere(r, t, suffix)
        PROVE  Completed(r.name, r.found) /\ Names(r.name, parts)
    <3>1. r.found = <<curDb, Res(t.schema), t.table>> /\ r.found[2] = Res(t.schema)
          /\ r.name.table = t.table /\ r.name.schema = t.schema /\ r.name.catalog = curDb
      <4>1. r.found = <<curDb, Res(t.schema)>> \o suffix /\ r.name.table = t.table
            /\ r.name.schema = t.schema /\ r.name.catalog = curDb
        BY <1>7, <2>3, Zenon DEF FoundHere
      <4> DEFINE o == r.found
                 x == curDb
                 y == Res(t.schema)
      <4>2. o = <<x, y>> \o suffix
        BY <4>1
      <4> HIDE DEF o, x, y
      <4>3. o = <<x, y, t.table>> /\ o[2] = y
        BY <1>4, <4>2
      <4> QED
        BY <4>1, <4>3, Zenon DEF o, x, y
    <3> QED
      BY <1>5, <1>9, <2>3, <3>1, Zenon DEF Completed
  <2>4. ASSUME ~t.explicitCatalog, FoundInPublic(r, t, suffix)
        PROVE  Completed(r.name, r.found) /\ Names(r.name, parts)
    <3>1. r.found = <<t.schema, PublicSchema, t.table>> /\ r.found[2] = PublicSchema
          /\ r.name.table = t.table /\ r.name.schema = PublicSchema /\ r.name.catalog = t.schema
      <4>1. r.found = <<t.schema, PublicSchema>> \o suffix /\ r.name.table = t.table
            /\ r.name.schema = PublicSchema /\ r.name.catalog = t.schema
        BY <1>8, <2>4, Zenon DEF FoundInPublic
      <4> DEFINE o == r.found
                 x == t.schema
                 y == PublicSchema
      <4>2. o = <<x, y>> \o suffix
        BY <4>1
      <4> HIDE DEF o, x, y
      <4>3. o = <<x, y, t.table>> /\ o[2] = y
        BY <1>4, <4>2
      <4> QED
        BY <4>1, <4>3, Zenon DEF o, x, y
    <3>2. ~ForeignTemp(path, PublicSchema) /\ PublicSchema # OthersTemp
      BY NamesDiffer DEF ForeignTemp
    <3>3. Res(PublicSchema) = PublicSchema
      <4>1. PublicSchema # PgTempSchemaName
        BY NamesDiffer
      <4> QED
        BY <4>1, Zenon DEF MaybeResolveTemporarySchema
    <3>4. Completed(r.name, r.found)
      BY <3>1, <3>2, <3>3, Zenon DEF Completed
    <3>5. Names(r.name, parts)
      BY <1>1, <1>5, <1>8, <1>10, <2>4, <3>1, Zenon
    <3> QED
      BY <3>4, <3>5
  <2> QED
    BY <2>1, <2>2, <2>3, <2>4, Zenon DEF t
<1>11. CASE ~t.explicitSchema
  <2>1. r = SearchFor(Iter(path), suffix, known, broken, t)
    BY <1>2, <1>11
  <2>2. ASSUME r.found \in known, NEW p \in Left(Iter(path)), NEW sc,
               sc = Named(path.paths, path.tempSchemaName, p),
               r.found = <<curDb, sc>> \o suffix, r.name = InSchema(t, curDb, sc)
        PROVE  Completed(r.name, r.found) /\ Names(r.name, parts)
    <3>1. r.found = <<curDb, sc, t.table>> /\ r.found[2] = sc
          /\ r.name.table = t.table /\ r.name.schema = sc /\ r.name.catalog = curDb
      <4>1. r.found = <<curDb, sc>> \o suffix /\ r.name.table = t.table
            /\ r.name.schema = sc /\ r.name.catalog = curDb
        <5>1. r.found = <<curDb, sc>> \o suffix /\ r.name = InSchema(t, curDb, sc)
          BY <2>2
        <5>2. /\ InSchema(t, curDb, sc).table = t.table /\ InSchema(t, curDb, sc).schema = sc
              /\ InSchema(t, curDb, sc).catalog = curDb
          BY <1>6
        <5> QED
          BY <5>1, <5>2
      <4> DEFINE o == r.found
                 x == curDb
                 y == sc
      <4>2. o = <<x, y>> \o suffix
        BY <4>1
      <4> HIDE DEF o, x, y
      <4>3. o = <<x, y, t.table>> /\ o[2] = y
        BY <1>4, <4>2
      <4> QED
        BY <4>1, <4>3, Zenon DEF o, x, y
    <3>2. sc = OurTemp => HasTemp(path.tempSchemaName)
      BY <1>3, <2>2, <3>1
    <3>3. sc # OthersTemp /\ Res(sc) = sc /\ ~ForeignTemp(path, sc)
      BY <2>2, <3>2, NamedIs
    <3>4. Completed(r.name, r.found)
      BY <3>1, <3>3, Zenon DEF Completed
    <3>5. Names(r.name, parts)
      BY <1>1, <1>5, <1>11, <3>1, Zenon
    <3> QED
      BY <3>4, <3>5
  <2>3. \/ NotFound(r, t)
        \/ /\ r.kind = "found" /\ r.found \in known
           /\ \E p \in Left(Iter(path)) :
                LET sc == Named(path.paths, path.tempSchemaName, p)
                IN  r.found = <<curDb, sc>> \o suffix /\ r.name = InSchema(t, curDb, sc)
    BY <2>1, SearchedIs
  <2> QED
    BY <2>2, <2>3, Zenon DEF t
<1> QED
  BY <1>10, <1>11

\* A target is a schema that exists.
LEMMA TargetIs ==
  ASSUME PathInv, NEW t, NEW broken, ResolveTarget(t, broken).kind = "found"
  PROVE  ResolveTarget(t, broken).found \in schemas
<1> DEFINE r == ResolveTarget(t, broken)
<1>1. CASE t.explicitSchema
  <2>1. r = Explicit(t, <<>>, schemas, broken)
    BY <1>1, Zenon DEF ResolveTarget
  <2> HIDE DEF r
  <2>2. NotFound(r, t) \/ r.found \in schemas
    BY <2>1, ExplicitIs
  <2> QED
    BY <2>2, Zenon DEF NotFound, r
<1>2. CASE ~t.explicitSchema
  <2> DEFINE bare == IterWithoutImplicitPGSchemas(path)
  <2>1. r = SearchFor(bare, <<>>, schemas, broken, t)
    BY <1>2, Zenon DEF ResolveTarget
  <2>2. bare \in {Iter(path), IterWithoutImplicitPGSchemas(path)}
    OBVIOUS
  <2> HIDE DEF r, bare
  <2>3. NotFound(r, t) \/ r.found \in schemas
    BY <2>1, <2>2, SearchedIs
  <2> QED
    BY <2>3, Zenon DEF NotFound, r
<1> QED
  BY <1>1, <1>2
-----------------------------------------------------------------------------
(* The invariant *)

\* The path that is made of schemas, with a temporary schema.
PathOf(paths, temp) ==
  [paths                |-> paths,
   containsPgCatalog    |-> \E i \in DOMAIN paths : paths[i] = PgCatalogName,
   containsPgTempSchema |-> \E i \in DOMAIN paths : paths[i] = PgTempSchemaName,
   tempSchemaName       |-> temp]

LEMMA PathMade ==
  ASSUME NEW paths
  PROVE  /\ MakeSearchPath(paths) = PathOf(paths, "")
         /\ \A s, temp : s = WithTemporarySchemaName(MakeSearchPath(paths), temp) => s = PathOf(paths, temp)
<1> DEFINE c == \E i \in DOMAIN paths : paths[i] = PgCatalogName
           t == \E i \in DOMAIN paths : paths[i] = PgTempSchemaName
           none == ""
<1>1. MakeSearchPath(paths) =
        [paths |-> paths, containsPgCatalog |-> c, containsPgTempSchema |-> t, tempSchemaName |-> none]
  BY Zenon DEF MakeSearchPath
<1>2. MakeSearchPath(paths) = PathOf(paths, "")
  BY Zenon DEF MakeSearchPath, PathOf
<1>3. ASSUME NEW temp, NEW s, s = WithTemporarySchemaName(MakeSearchPath(paths), temp)
      PROVE  s = PathOf(paths, temp)
  <2> HIDE DEF c, t, none
  <2>1. s = [paths |-> paths, containsPgCatalog |-> c, containsPgTempSchema |-> t, tempSchemaName |-> temp]
    BY <1>1, <1>3 DEF WithTemporarySchemaName
  <2> QED
    BY <2>1, Zenon DEF PathOf, c, t
<1> QED
  BY <1>2, <1>3

LEMMA SearchPathIs ==
  ASSUME NamesAssumption, NEW paths \in SearchPaths, NEW temp, NEW s, s = PathOf(paths, temp)
  PROVE  /\ s \in [paths : {paths}, containsPgCatalog : BOOLEAN, containsPgTempSchema : BOOLEAN,
                   tempSchemaName : {temp}]
         /\ s.paths = paths /\ s.tempSchemaName = temp
         /\ Len(paths) \in Nat /\ DOMAIN paths = 1 .. Len(paths)
         /\ s.containsPgCatalog <=> \E i \in DOMAIN paths : paths[i] = PgCatalogName
         /\ s.containsPgTempSchema <=> \E i \in DOMAIN paths : paths[i] = PgTempSchemaName
         /\ \A i \in DOMAIN paths : paths[i] # OthersTemp
<1> DEFINE c == \E i \in DOMAIN paths : paths[i] = PgCatalogName
           t == \E i \in DOMAIN paths : paths[i] = PgTempSchemaName
<1>2. c \in BOOLEAN /\ t \in BOOLEAN
  OBVIOUS
<1>3. Len(paths) \in Nat /\ DOMAIN paths = 1 .. Len(paths)
  <2> DEFINE S == {paths[i] : i \in DOMAIN paths}
  <2>1. paths \in Seq(S)
    BY DEF NamesAssumption
  <2> HIDE DEF S
  <2> QED
    BY <2>1, LenProperties
<1>4. \A i \in DOMAIN paths : paths[i] # OthersTemp
  BY Zenon DEF NamesAssumption, OthersTemp
<1>5. s = [paths |-> paths, containsPgCatalog |-> c, containsPgTempSchema |-> t, tempSchemaName |-> temp]
  BY Zenon DEF PathOf
<1> HIDE DEF c, t
<1>6. /\ s \in [paths : {paths}, containsPgCatalog : BOOLEAN, containsPgTempSchema : BOOLEAN,
                tempSchemaName : {temp}]
      /\ s.paths = paths /\ s.tempSchemaName = temp
      /\ s.containsPgCatalog = c /\ s.containsPgTempSchema = t
  BY <1>2, <1>5
<1> QED
  BY <1>3, <1>4, <1>6, Zenon DEF c, t

\* What has been resolved stays so while the temporary schema has its name.
LEMMA FromKept ==
  ASSUME FromInv, UNCHANGED from, objects \subseteq objects',
         path'.tempSchemaName = path.tempSchemaName
  PROVE  FromInv'
<1>1. from' = from
  OBVIOUS
<1>2. (from \in Seq({from[i] : i \in DOMAIN from}))'
  BY <1>1, Zenon DEF FromInv
<1>3. ASSUME NEW i \in DOMAIN from
      PROVE  (/\ from[i].object \in objects
              /\ Completed(from[i].name, from[i].object)
              /\ from[i].parts \in Written /\ Names(from[i].name, from[i].parts))'
  <2>1. /\ from[i].object \in objects /\ Completed(from[i].name, from[i].object)
        /\ from[i].parts \in Written /\ Names(from[i].name, from[i].parts)
    BY <1>3, Zenon DEF FromInv
  <2>2. Completed(from[i].name, from[i].object)'
    BY <1>1, <2>1, Zenon DEF Completed, ForeignTemp, MaybeResolveTemporarySchema
  <2>3. (from[i].parts \in Written /\ Names(from[i].name, from[i].parts))'
    BY <1>1, <2>1, Zenon
  <2>4. from'[i].object \in objects'
    BY <1>1, <2>1
  <2> QED
    BY <2>2, <2>3, <2>4
<1> QED
  BY <1>1, <1>2, <1>3, Zenon DEF FromInv

\* The path is as it was, or has been set anew.
LEMMA PathSet ==
  ASSUME NamesAssumption, PathInv, NEW paths \in SearchPaths, connected' = TRUE,
         path' = PathOf(paths, path.tempSchemaName)
  PROVE  PathInv' /\ path'.tempSchemaName = path.tempSchemaName
<1>1. /\ path' \in [paths : {paths}, containsPgCatalog : BOOLEAN, containsPgTempSchema : BOOLEAN,
                    tempSchemaName : {path.tempSchemaName}]
      /\ path'.paths = paths /\ path'.tempSchemaName = path.tempSchemaName
      /\ Len(paths) \in Nat /\ DOMAIN paths = 1 .. Len(paths)
      /\ path'.containsPgCatalog <=> \E i \in DOMAIN paths : paths[i] = PgCatalogName
      /\ path'.containsPgTempSchema <=> \E i \in DOMAIN paths : paths[i] = PgTempSchemaName
      /\ \A i \in DOMAIN paths : paths[i] # OthersTemp
  BY SearchPathIs
<1>2. HasTemp(path.tempSchemaName) => path.tempSchemaName = OurTemp
  BY DEF PathInv
<1> QED
  BY <1>1, <1>2, Zenon DEF PathInv, Lists

LEMMA NamesInit ==
  ASSUME Init
  PROVE  NamesInv
<1> DEFINE none == ""
<1>1. /\ path = [paths |-> <<>>, containsPgCatalog |-> FALSE, containsPgTempSchema |-> FALSE,
                 tempSchemaName |-> none]
  <2>1. path = MakeSearchPath(<<>>)
    BY DEF Init
  <2>2. \A x : (\E i \in DOMAIN <<>> : <<>>[i] = x) = FALSE
    OBVIOUS
  <2> QED
    BY <2>1, <2>2, Zenon DEF MakeSearchPath
<1>2. ~HasTemp(none)
  BY DEF HasTemp
<1>3. Len(<<>>) = 0 /\ DOMAIN <<>> = {} /\ 1 .. 0 = {} /\ 0 \in Nat
  OBVIOUS
<1> HIDE DEF none
<1>4. /\ path.paths = <<>> /\ path.containsPgCatalog = FALSE /\ path.containsPgTempSchema = FALSE
      /\ path.tempSchemaName = none
      /\ path \in [paths : {path.paths}, containsPgCatalog : BOOLEAN, containsPgTempSchema : BOOLEAN,
                   tempSchemaName : {path.tempSchemaName}]
  BY <1>1
<1>5. PathInv
  <2>1. Len(path.paths) \in Nat /\ DOMAIN path.paths = 1 .. Len(path.paths) /\ DOMAIN path.paths = {}
    BY <1>3, <1>4
  <2>2. \A x : ~Lists(x)
    BY <2>1 DEF Lists
  <2> QED
    BY <1>2, <1>4, <2>1, <2>2 DEF PathInv
<1>6. ASSUME NEW s \in schemas
      PROVE  /\ s = <<s[1], s[2]>> /\ s[2] # "" /\ s[2] # PgTempSchemaName /\ s[2] # OurTemp
  <2>1. \/ \E d \in Databases \cup {""} : s = <<d, PgCatalogName>>
        \/ \E d \in Databases : s = <<d, PublicSchema>>
    BY Zenon DEF Init, Virtual
  <2>2. PICK n \in {PgCatalogName, PublicSchema} : \E d : s = <<d, n>>
    BY <2>1, Zenon
  <2>3. n # "" /\ n \notin Temporary
    BY NamesDiffer
  <2>4. n # PgTempSchemaName /\ n # OurTemp
    BY <2>3, NamesDiffer
  <2>5. s = <<s[1], s[2]>> /\ s[2] = n
    BY <2>2
  <2> QED
    BY <2>3, <2>4, <2>5, Zenon
<1>7. ASSUME NEW o \in objects
      PROVE  o = <<o[1], o[2], o[3]>> /\ <<o[1], o[2]>> \in schemas
  <2>1. PICK d \in Databases \cup {""} : o = <<d, PgCatalogName, "t">>
    BY Zenon DEF Init
  <2>2. <<d, PgCatalogName>> \in schemas
    BY Zenon DEF Init, Virtual
  <2>3. o[1] = d /\ o[2] = PgCatalogName /\ o[3] = "t"
    BY <2>1
  <2> QED
    BY <2>1, <2>2, <2>3, Zenon
<1>8. CatalogInv
  BY <1>6, <1>7, Zenon DEF CatalogInv
<1>9. FromInv
  <2>1. from = <<>> /\ DOMAIN from = {}
    BY <1>3 DEF Init
  <2>2. from \in Seq({from[i] : i \in DOMAIN from})
    BY <2>1, EmptySeq
  <2> QED
    BY <2>1, <2>2 DEF FromInv
<1> QED
  BY <1>5, <1>8, <1>9 DEF NamesInv

\* The catalog with what a step adds to it.
LEMMA CatalogGrows ==
  ASSUME CatalogInv, NEW S, NEW O, schemas' = schemas \cup S, objects' = objects \cup O,
         HasTemp(path.tempSchemaName) => HasTemp(path'.tempSchemaName),
         \A s \in S : /\ s = <<s[1], s[2]>>
                      /\ s[2] # "" /\ s[2] # PgTempSchemaName
                      /\ s[2] = OurTemp => HasTemp(path'.tempSchemaName),
         \A o \in O : o = <<o[1], o[2], o[3]>> /\ <<o[1], o[2]>> \in schemas'
  PROVE  CatalogInv'
<1>1. ASSUME NEW s \in schemas'
      PROVE  /\ s = <<s[1], s[2]>>
             /\ s[2] # "" /\ s[2] # PgTempSchemaName
             /\ s[2] = OurTemp => HasTemp(path'.tempSchemaName)
  <2>1. s \in schemas \/ s \in S
    OBVIOUS
  <2> QED
    BY <2>1, Zenon DEF CatalogInv
<1>2. ASSUME NEW o \in objects'
      PROVE  o = <<o[1], o[2], o[3]>> /\ <<o[1], o[2]>> \in schemas'
  <2>1. o \in objects \/ o \in O
    OBVIOUS
  <2>2. schemas \subseteq schemas'
    OBVIOUS
  <2>3. CASE o \in objects
    <3>1. o = <<o[1], o[2], o[3]>> /\ <<o[1], o[2]>> \in schemas
      BY <2>3, Zenon DEF CatalogInv
    <3> QED
      BY <2>2, <3>1, Zenon
  <2> QED
    BY <2>1, <2>3
<1> QED
  BY <1>1, <1>2, Zenon DEF CatalogInv

LEMMA FindKeeps ==
  ASSUME NamesAssumption, NamesInv, NEW parts \in Written, Find(parts)
  PROVE  NamesInv'
<1> USE DEF NamesInv
<1>0. PICK broken \in Broken :
        LET r == ResolveExisting(ToTableName(parts), objects, broken)
        IN  /\ r.kind = "found"
            /\ from' = Append(from, [parts |-> parts, name |-> r.name, object |-> r.found])
            /\ UNCHANGED <<connected, curDb, path, schemas, objects>>
  BY Zenon DEF Find
<1> DEFINE r == ResolveExisting(ToTableName(parts), objects, broken)
<1>1. /\ r.kind = "found"
      /\ from' = Append(from, [parts |-> parts, name |-> r.name, object |-> r.found])
      /\ UNCHANGED <<connected, curDb, path, schemas, objects>>
  BY <1>0
<1> DEFINE e == [parts |-> parts, name |-> r.name, object |-> r.found]
           R == {from[i] : i \in DOMAIN from}
<1>2. /\ r.found \in objects /\ Completed(r.name, r.found) /\ Names(r.name, parts)
  <2>1. Len(parts) \in 1 .. 3
    BY DEF NamesAssumption
  <2>2. InSchemas(objects)
    BY Zenon DEF InSchemas, CatalogInv
  <2>3. ~NotFound(r, ToTableName(parts))
    BY <1>1, Zenon DEF NotFound
  <2>4. r = ResolveExisting(ToTableName(parts), objects, broken)
    OBVIOUS
  <2> HIDE DEF r
  <2> QED
    BY <2>1, <2>2, <2>3, <2>4, Resolved
<1>3. PathInv' /\ CatalogInv'
  BY <1>1, Zenon DEF PathInv, CatalogInv, Lists
<1>4. e.object = r.found /\ e.name = r.name /\ e.parts = parts
  OBVIOUS
<1>10. from' = Append(from, e)
  BY <1>1
<1> HIDE DEF e, r
<1>5. /\ from' \in Seq(R \cup {e}) /\ Len(from') = Len(from) + 1 /\ Len(from) \in Nat
      /\ DOMAIN from = 1 .. Len(from) /\ DOMAIN from' = 1 .. Len(from')
      /\ \A i \in 1 .. Len(from) : from'[i] = from[i]
      /\ from'[Len(from) + 1] = e
  <2>1. from \in Seq(R)
    BY DEF FromInv
  <2> HIDE DEF R
  <2>2. from \in Seq(R \cup {e}) /\ e \in R \cup {e}
    <3>1. from \in [1 .. Len(from) -> R] /\ Len(from) \in Nat
      BY <2>1, LenProperties
    <3>2. from \in [1 .. Len(from) -> R \cup {e}]
      BY <3>1
    <3> QED
      BY <3>1, <3>2, SeqDef
  <2> QED
    BY <1>10, <2>2, AppendProperties, LenProperties
<1>6. from' \in Seq({from'[i] : i \in DOMAIN from'})
  <2> DEFINE R2 == {from'[i] : i \in DOMAIN from'}
  <2>1. from' \in [1 .. Len(from') -> R2] /\ Len(from') \in Nat
    <3>1. from' \in [1 .. Len(from') -> R \cup {e}]
      BY <1>5, LenProperties
    <3> QED
      BY <1>5, <3>1
  <2> HIDE DEF R2
  <2>2. from' \in Seq(R2)
    BY <2>1, SeqDef
  <2> QED
    BY <2>2 DEF R2
<1>7. ASSUME NEW i \in DOMAIN from'
      PROVE  \/ i \in DOMAIN from /\ from'[i] = from[i]
             \/ from'[i] = e
  BY <1>5
<1>8. ASSUME NEW i \in (DOMAIN from)'
      PROVE  (/\ from[i].object \in objects
              /\ Completed(from[i].name, from[i].object)
              /\ from[i].parts \in Written /\ Names(from[i].name, from[i].parts))'
  <2>1. PICK x : /\ x = from'[i] /\ x.object \in objects /\ Completed(x.name, x.object)
                 /\ x.parts \in Written /\ Names(x.name, x.parts)
    <3>1. CASE i \in DOMAIN from /\ from'[i] = from[i]
      BY <3>1, Zenon DEF FromInv
    <3>2. CASE from'[i] = e
      BY <1>2, <1>4, <3>2, Zenon
    <3> QED
      BY <1>7, <3>1, <3>2
  <2>2. Completed(from[i].name, from[i].object)'
    BY <1>1, <2>1, Zenon DEF Completed, ForeignTemp, MaybeResolveTemporarySchema
  <2> QED
    BY <1>1, <2>1, <2>2, Zenon
<1>9. FromInv'
  BY <1>6, <1>8, Zenon DEF FromInv
<1> QED
  BY <1>3, <1>9

LEMMA MakeKeeps ==
  ASSUME NamesInv, NEW parts, Make(parts)
  PROVE  NamesInv'
<1> USE DEF NamesInv
<1>0. PICK broken \in Broken :
        LET r == ResolveTarget(ToTableName(parts), broken)
        IN  /\ r.kind = "found"
            /\ objects' = objects \cup {r.found \o <<parts[1]>>}
            /\ UNCHANGED <<connected, curDb, path, schemas, from>>
  BY Zenon DEF Make
<1> DEFINE found == ResolveTarget(ToTableName(parts), broken).found
           x == parts[1]
           made == found \o <<x>>
<1>1. /\ objects' = objects \cup {made} /\ UNCHANGED <<connected, curDb, path, schemas, from>>
  BY <1>0
<1>2. found \in schemas
  BY <1>0, TargetIs
<1> HIDE DEF found, x
<1>3. PICK a, b : found = <<a, b>>
  <2>1. found = <<found[1], found[2]>>
    BY <1>2, Zenon DEF CatalogInv
  <2> QED
    BY <2>1
<1>4. made = <<a, b, x>>
  BY <1>3, JoinIs
<1> HIDE DEF made
<1>5. made[1] = a /\ made[2] = b /\ made[3] = x
  BY <1>4
<1>6. made = <<made[1], made[2], made[3]>> /\ <<made[1], made[2]>> \in schemas
  BY <1>2, <1>3, <1>4, <1>5, Zenon
<1>7. PathInv'
  BY <1>1, Zenon DEF PathInv, Lists
<1>8. CatalogInv'
  <2>1. schemas' = schemas \cup {}
    BY <1>1
  <2>2. path' = path /\ schemas' = schemas
    BY <1>1
  <2> DEFINE S == {}
             O == {made}
  <2>3. \A o \in O : o = <<o[1], o[2], o[3]>> /\ <<o[1], o[2]>> \in schemas'
    BY <1>6, <2>2, Zenon
  <2>4. schemas' = schemas \cup S /\ objects' = objects \cup O /\ S = {}
    BY <1>1, <2>1
  <2>5. \A s \in S : /\ s = <<s[1], s[2]>>
                     /\ s[2] # "" /\ s[2] # PgTempSchemaName
                     /\ s[2] = OurTemp => HasTemp(path'.tempSchemaName)
    BY Zenon
  <2> HIDE DEF S, O
  <2> QED
    BY <2>2, <2>3, <2>4, <2>5, CatalogGrows
<1>9. FromInv'
  BY <1>1, FromKept
<1> QED
  BY <1>7, <1>8, <1>9

\* The temporary schema is made: its alias had nothing to mean in the names before.
LEMMA MakeTemporaryKeeps ==
  ASSUME NamesInv, MakeTemporarySchema
  PROVE  NamesInv'
<1> USE DEF NamesInv
<1>1. /\ connected /\ connected' = connected /\ objects' = objects /\ from' = from
      /\ path' = [path EXCEPT !.tempSchemaName = OurTemp]
      /\ schemas' = schemas \cup {<<curDb, OurTemp>>}
  BY DEF MakeTemporarySchema, WithTemporarySchemaName
<1>2. ~HasTemp(path.tempSchemaName) /\ HasTemp(OurTemp)
  BY NamesDiffer, Zenon DEF MakeTemporarySchema, HasTemp
<1>3. /\ path' \in [paths : {path'.paths}, containsPgCatalog : BOOLEAN, containsPgTempSchema : BOOLEAN,
                    tempSchemaName : {path'.tempSchemaName}]
      /\ path'.paths = path.paths /\ path'.containsPgCatalog = path.containsPgCatalog
      /\ path'.containsPgTempSchema = path.containsPgTempSchema /\ path'.tempSchemaName = OurTemp
  <2> DEFINE temp == OurTemp
  <2>1. path' = [path EXCEPT !.tempSchemaName = temp]
    BY <1>1
  <2>2. path \in [paths : {path.paths}, containsPgCatalog : BOOLEAN, containsPgTempSchema : BOOLEAN,
                  tempSchemaName : {path.tempSchemaName}]
    BY DEF PathInv
  <2> HIDE DEF temp
  <2>3. /\ path' \in [paths : {path'.paths}, containsPgCatalog : BOOLEAN, containsPgTempSchema : BOOLEAN,
                      tempSchemaName : {path'.tempSchemaName}]
        /\ path'.paths = path.paths /\ path'.containsPgCatalog = path.containsPgCatalog
        /\ path'.containsPgTempSchema = path.containsPgTempSchema /\ path'.tempSchemaName = temp
    BY <2>1, <2>2
  <2> QED
    BY <2>3 DEF temp
<1>4. PathInv'
  BY <1>1, <1>2, <1>3, Zenon DEF PathInv, Lists
<1>5. CatalogInv'
  <2>1. objects' = objects \cup {}
    BY <1>1
  <2>2. ASSUME NEW s \in {<<curDb, OurTemp>>}
        PROVE  s = <<s[1], s[2]>> /\ s[2] = OurTemp
    OBVIOUS
  <2>3. OurTemp # "" /\ OurTemp # PgTempSchemaName
    BY NamesDiffer
  <2>4. HasTemp(path'.tempSchemaName)
    BY <1>2, <1>3, Zenon
  <2> DEFINE S == {<<curDb, OurTemp>>}
  <2>5. \A s \in S : /\ s = <<s[1], s[2]>>
                     /\ s[2] # "" /\ s[2] # PgTempSchemaName
                     /\ s[2] = OurTemp => HasTemp(path'.tempSchemaName)
    BY <2>2, <2>3, <2>4, Zenon
  <2> DEFINE O == {}
  <2>6. schemas' = schemas \cup S /\ objects' = objects \cup O /\ O = {}
    BY <1>1, <2>1
  <2>7. \A o \in O : o = <<o[1], o[2], o[3]>> /\ <<o[1], o[2]>> \in schemas'
    BY Zenon
  <2> HIDE DEF S, O
  <2> QED
    BY <2>4, <2>5, <2>6, <2>7, CatalogGrows
<1>6. ASSUME NEW i \in (DOMAIN from)'
      PROVE  (/\ from[i].object \in objects
              /\ Completed(from[i].name, from[i].object)
              /\ from[i].parts \in Written /\ Names(from[i].name, from[i].parts))'
  <2> DEFINE n == from[i].name
             o == from[i].object
  <2>1. o \in objects /\ Completed(n, o) /\ from[i].parts \in Written /\ Names(n, from[i].parts)
    BY <1>1, Zenon DEF FromInv
  <2>2. o[2] = n.schema /\ o[2] # OthersTemp /\ ~ForeignTemp(path, n.schema)
        /\ o = <<n.catalog, n.schema, n.table>>
    <3>1. MaybeResolveTemporarySchema(path, n.schema) = n.schema
      BY <1>2, Zenon DEF MaybeResolveTemporarySchema, HasTemp
    <3>2. o = <<n.catalog, n.schema, n.table>> /\ o[2] # OthersTemp /\ ~ForeignTemp(path, n.schema)
      BY <2>1, <3>1, Zenon DEF Completed
    <3> HIDE DEF n, o
    <3>3. o[2] = n.schema
      BY <3>2
    <3> QED
      BY <3>2, <3>3
  <2>3. n.schema # PgTempSchemaName
    <3>1. <<o[1], o[2]>> \in schemas
      BY <2>1, Zenon DEF CatalogInv
    <3>2. <<o[1], o[2]>>[2] = o[2]
      OBVIOUS
    <3>3. <<o[1], o[2]>>[2] # PgTempSchemaName
      BY <3>1, Zenon DEF CatalogInv
    <3> QED
      BY <2>2, <3>2, <3>3
  <2>4. ~ForeignTemp(path', n.schema)
    <3>1. n.schema \notin Temporary \/ n.schema = path.tempSchemaName
      BY <2>2, <2>3 DEF ForeignTemp
    <3>2. path.tempSchemaName \notin Temporary
      BY <1>2, NamesDiffer, Zenon DEF HasTemp
    <3> QED
      BY <3>1, <3>2 DEF ForeignTemp
  <2>5. MaybeResolveTemporarySchema(path', n.schema) = n.schema
    BY <2>3, Zenon DEF MaybeResolveTemporarySchema
  <2>6. Completed(from[i].name, from[i].object)'
    BY <1>1, <2>2, <2>4, <2>5, Zenon DEF Completed
  <2> QED
    BY <1>1, <2>1, <2>6, Zenon
<1>7. (from \in Seq({from[i] : i \in DOMAIN from}))'
  BY <1>1, Zenon DEF FromInv
<1>8. FromInv'
  BY <1>6, <1>7, Zenon DEF FromInv
<1> QED
  BY <1>4, <1>5, <1>8

LEMMA PathKept ==
  ASSUME PathInv, UNCHANGED <<connected, path>>
  PROVE  PathInv'
BY DEF PathInv, Lists

LEMMA TuplesAre ==
  ASSUME NEW a, NEW b, NEW c
  PROVE  /\ \A s : s = <<a, b>> => s = <<s[1], s[2]>> /\ s[1] = a /\ s[2] = b
         /\ \A o : o = <<a, b, c>> => o = <<o[1], o[2], o[3]>> /\ o[1] = a /\ o[2] = b /\ o[3] = c
OBVIOUS

\* A schema is made, with an object in it or without, by somebody else.
LEMMA OthersKeep ==
  ASSUME NamesInv, NEW db, NEW sc, NEW O, sc \notin {"", PgTempSchemaName, OurTemp},
         O = {} \/ (\E x : O = {<<db, sc, x>>}),
         schemas' = schemas \cup {<<db, sc>>}, objects' = objects \cup O,
         UNCHANGED <<connected, curDb, path, from>>
  PROVE  NamesInv'
<1> USE DEF NamesInv
<1>1. path' = path /\ connected' = connected /\ from' = from
  OBVIOUS
<1>2. PathInv'
  BY PathKept
<1>3. FromInv'
  <2>1. objects \subseteq objects'
    OBVIOUS
  <2> QED
    BY <1>1, <2>1, FromKept
<1>4. CatalogInv'
  <2> DEFINE S == {<<db, sc>>}
  <2>1. ASSUME NEW s \in S
        PROVE  s = <<s[1], s[2]>> /\ s[2] = sc
    <3>1. s = <<db, sc>>
      BY Zenon
    <3> QED
      BY <3>1, TuplesAre
  <2>2. \A s \in S : /\ s = <<s[1], s[2]>>
                     /\ s[2] # "" /\ s[2] # PgTempSchemaName
                     /\ s[2] = OurTemp => HasTemp(path'.tempSchemaName)
    BY <2>1, Zenon
  <2>3. ASSUME NEW o \in O
        PROVE  o = <<o[1], o[2], o[3]>> /\ <<o[1], o[2]>> \in schemas'
    <3>1. PICK x : o = <<db, sc, x>>
      BY <2>3, Zenon
    <3>2. o[1] = db /\ o[2] = sc /\ o[3] = x
      BY <3>1, TuplesAre
    <3>3. <<db, sc>> \in schemas'
      OBVIOUS
    <3> QED
      BY <3>1, <3>2, <3>3, Zenon
  <2>4. schemas' = schemas \cup S
    OBVIOUS
  <2> HIDE DEF S
  <2> QED
    BY <1>1, <2>2, <2>3, <2>4, CatalogGrows
<1> QED
  BY <1>2, <1>3, <1>4

LEMMA CatalogKept ==
  ASSUME CatalogInv, schemas' = schemas, objects' = objects,
         path'.tempSchemaName = path.tempSchemaName
  PROVE  CatalogInv'
BY Zenon DEF CatalogInv

LEMMA NamesStep ==
  ASSUME NamesAssumption, NamesInv, [Next]_vars
  PROVE  NamesInv'
<1>1. ASSUME NEW db \in Databases \cup {""}, NEW paths \in SearchPaths, Connect(db, paths)
      PROVE  NamesInv'
  <2>1. /\ ~connected /\ connected' = TRUE /\ path' = MakeSearchPath(paths)
        /\ schemas' = schemas /\ objects' = objects /\ from' = from
    BY <1>1, Zenon DEF Connect
  <2>2. path.tempSchemaName = ""
    BY <2>1, Zenon DEF NamesInv, PathInv, HasTemp
  <2>3. path' = PathOf(paths, path.tempSchemaName)
    BY <2>1, <2>2, PathMade, Zenon
  <2>4. PathInv' /\ path'.tempSchemaName = path.tempSchemaName
    BY <2>1, <2>3, PathSet DEF NamesInv
  <2> QED
    BY <2>1, <2>4, CatalogKept, FromKept DEF NamesInv
<1>2. ASSUME NEW parts \in Written, Find(parts)
      PROVE  NamesInv'
  BY <1>2, FindKeeps
<1>3. ASSUME NEW parts \in Written, Make(parts)
      PROVE  NamesInv'
  BY <1>3, MakeKeeps
<1>4. CASE MakeTemporarySchema
  BY <1>4, MakeTemporaryKeeps
<1>5. ASSUME NEW db \in Databases, SetDatabase(db)
      PROVE  NamesInv'
  <2>1. UNCHANGED <<connected, path, schemas, objects, from>>
    BY <1>5 DEF SetDatabase
  <2> QED
    BY <2>1, PathKept, CatalogKept, FromKept DEF NamesInv
<1>6. ASSUME NEW paths \in SearchPaths, SetSearchPath(paths)
      PROVE  NamesInv'
  <2>1. /\ connected' = TRUE
        /\ path' = PathOf(paths, path.tempSchemaName)
        /\ schemas' = schemas /\ objects' = objects /\ from' = from
    <3>1. /\ connected /\ path' = WithTemporarySchemaName(MakeSearchPath(paths), path.tempSchemaName)
          /\ UNCHANGED <<connected, curDb, schemas, objects, from>>
      BY <1>6, Zenon DEF SetSearchPath, UpdatePaths
    <3>2. path' = PathOf(paths, path.tempSchemaName)
      BY <3>1, PathMade, Zenon
    <3> QED
      BY <3>1, <3>2
  <2>2. PathInv' /\ path'.tempSchemaName = path.tempSchemaName
    BY <2>1, PathSet DEF NamesInv
  <2> QED
    BY <2>1, <2>2, CatalogKept, FromKept DEF NamesInv
<1>7. ASSUME NEW db \in Databases, NEW name \in UserSchemas, MakeSchema(db, name)
      PROVE  NamesInv'
  <2>1. name \notin {"", PgTempSchemaName, OurTemp}
    BY Zenon DEF NamesAssumption, PgTempSchemaName, OurTemp
  <2> DEFINE O == {}
  <2>2. /\ schemas' = schemas \cup {<<db, name>>} /\ objects' = objects \cup O
        /\ UNCHANGED <<connected, curDb, path, from>>
    BY <1>7 DEF MakeSchema
  <2>3. O = {} \/ \E x : O = {<<db, name, x>>}
    OBVIOUS
  <2> HIDE DEF O
  <2> QED
    BY <2>1, <2>2, <2>3, OthersKeep
<1>8. ASSUME NEW db \in Databases, MakeForeign(db, "t")
      PROVE  NamesInv'
  <2> DEFINE O == {<<db, OthersTemp, "t">>}
             sc == OthersTemp
  <2>1. sc \notin {"", PgTempSchemaName, OurTemp}
    BY NamesDiffer
  <2>2. /\ schemas' = schemas \cup {<<db, sc>>} /\ objects' = objects \cup O
        /\ UNCHANGED <<connected, curDb, path, from>>
    BY <1>8, Zenon DEF MakeForeign
  <2>3. O = {} \/ \E x : O = {<<db, sc, x>>}
    BY Zenon
  <2> HIDE DEF O, sc
  <2> QED
    BY <2>1, <2>2, <2>3, OthersKeep
<1>9. CASE UNCHANGED vars
  <2>1. UNCHANGED <<connected, path, schemas, objects, from>>
    BY <1>9 DEF vars
  <2> QED
    BY <2>1, PathKept, CatalogKept, FromKept DEF NamesInv
<1> QED
  BY <1>1, <1>2, <1>3, <1>4, <1>5, <1>6, <1>7, <1>8, <1>9 DEF Next
-----------------------------------------------------------------------------
(* What a name means *)

\* A lookup that does not fail.
LEMMA KnownInOne ==
  ASSUME NEW schema, NEW suffix, NEW known, NEW t
  PROVE  /\ InOne(schema, suffix, known, <<>>, t).kind = "nothing" <=> <<curDb, schema>> \o suffix \notin known
         /\ InOne(schema, suffix, known, <<>>, t).kind # "nothing" <=>
              InOne(schema, suffix, known, <<>>, t).kind = "found"
         /\ <<curDb, schema>> \o suffix \in known =>
              InOne(schema, suffix, known, <<>>, t).found = <<curDb, schema>> \o suffix
<1> DEFINE where == <<curDb, schema>> \o suffix
           r == InOne(schema, suffix, known, <<>>, t)
           then == InSchema(t, curDb, schema)
<1>1. r = Lookup(where, known, <<>>, t, then)
  BY DEF InOne
<1>2. <<where[1], where[2]>> # <<>>
  BY JoinIs
<1> HIDE DEF where, r, then
<1>3. /\ r.kind = "found" => r.found = where /\ where \in known
      /\ where \in known => r.kind = "found"
      /\ where \notin known => r.kind = "nothing"
      /\ r.kind = "nothing" => where \notin known
  BY <1>1, <1>2, LookupIs
<1> QED
  BY <1>3 DEF where, r

IsNothing(r, t) == r = Outcome("nothing", <<>>, t)

\* The first place that has it, for a search in which no lookup fails.
FirstPlace(it, suffix, known, p) ==
  LET Where(q) == <<curDb, Named(path.paths, path.tempSchemaName, q)>> \o suffix
  IN  /\ p \in Left(it) /\ Where(p) \in known
      /\ \A q \in Left(it) : q < p => Where(q) \notin known

SearchedAt(r, it, suffix, known, t) ==
  \/ /\ IsNothing(r, t)
     /\ \A q \in Left(it) : <<curDb, Named(path.paths, path.tempSchemaName, q)>> \o suffix \notin known
  \/ /\ r.kind = "found"
     /\ \E p \in Left(it) :
          /\ FirstPlace(it, suffix, known, p)
          /\ r.found = <<curDb, Named(path.paths, path.tempSchemaName, p)>> \o suffix

LEMMA SearchedPlaces ==
  ASSUME PathInv, NEW it \in {Iter(path), IterWithoutImplicitPGSchemas(path)},
         NEW suffix, NEW known, NEW t, NEW r, r = SearchFor(it, suffix, known, <<>>, t)
  PROVE  SearchedAt(r, it, suffix, known, t)
<1> DEFINE P == path.paths
           temp == path.tempSchemaName
           One(q) == InOne(Named(P, temp, q), suffix, known, <<>>, t)
           Where(q) == <<curDb, Named(P, temp, q)>> \o suffix
<1>1. Len(P) \in Nat /\ it \in Iterators(P, temp)
  BY IteratorsOfPath DEF PathInv
<1>2. \A q : /\ One(q).kind = "nothing" <=> Where(q) \notin known
             /\ One(q).kind # "nothing" <=> One(q).kind = "found"
             /\ Where(q) \in known => One(q).found = Where(q)
  BY KnownInOne
<1>3. \/ \E p \in Left(it) : SearchEndsAt(r, it, P, temp, suffix, known, <<>>, t, p)
      \/ IsNothing(r, t) /\ \A q \in Left(it) : One(q).kind = "nothing"
  <2> HIDE DEF P, temp
  <2> QED
    BY <1>1, SearchForIs DEF IsNothing
<1>4. CASE IsNothing(r, t) /\ \A q \in Left(it) : One(q).kind = "nothing"
  BY <1>2, <1>4, Zenon DEF SearchedAt
<1>5. ASSUME NEW p \in Left(it), SearchEndsAt(r, it, P, temp, suffix, known, <<>>, t, p)
      PROVE  r.kind = "found" /\ FirstPlace(it, suffix, known, p) /\ r.found = Where(p)
  <2>1. /\ r = One(p) /\ One(p).kind # "nothing"
        /\ \A q \in Left(it) : q < p => One(q).kind = "nothing"
    BY <1>5, Zenon DEF SearchEndsAt
  <2>2. Where(p) \in known /\ \A q \in Left(it) : q < p => Where(q) \notin known
    <3> HIDE DEF One, Where
    <3> QED
      BY <1>2, <2>1
  <2> QED
    BY <1>2, <2>1, <2>2, Zenon DEF FirstPlace
<1> QED
  BY <1>3, <1>4, <1>5, Zenon DEF SearchedAt

\* The first schema of an order, by places.
FirstOf(order, at) == IF at = {} THEN "" ELSE order[Least(at)]
Passed(order, Passing) == {i \in DOMAIN order : ~NoName(order[i]) /\ order[i] \in Passing}

FirstIs(first, it, paths, temp, Passing) ==
  /\ (\A p \in Left(it) : Named(paths, temp, p) \notin Passing) => NoName(first)
  /\ \A p \in Left(it) :
       (/\ Named(paths, temp, p) \in Passing
        /\ \A q \in Left(it) : q < p => Named(paths, temp, q) \notin Passing)
         => first = Named(paths, temp, p) /\ ~NoName(first)

\* A test that only a schema passes, made in an order and at the places of an iterator.
LEMMA FirstByPlaces ==
  ASSUME NEW order, NEW it, NEW paths, NEW temp, NEW ix, Matching(order, it, paths, temp, ix),
         Left(it) \subseteq Int, NEW Passing, \A x \in Passing : ~NoName(x),
         NEW first, first = FirstOf(order, Passed(order, Passing))
  PROVE  FirstIs(first, it, paths, temp, Passing)
<1> DEFINE at == {i \in DOMAIN order : ~NoName(order[i]) /\ order[i] \in Passing}
           good == {p \in Left(it) : Named(paths, temp, p) \in Passing}
<1>1. at \in SUBSET DOMAIN order /\ \A i \in at : ~NoName(order[i])
  BY Zenon
<1>2. good \in SUBSET Left(it) /\ \A p \in Left(it) : p \in good <=> Named(paths, temp, p) \in Passing
  BY Zenon
<1>3. \A p \in Left(it) : ix[p] \in DOMAIN order /\ order[ix[p]] = Named(paths, temp, p)
  BY DEF Matching
<1>4. \A p \in Left(it) : p \in good <=> ix[p] \in at
  BY <1>3, Zenon
<1>5. first = FirstOf(order, at)
  BY Zenon DEF Passed
<1> HIDE DEF at, good
<1>6. /\ good = {} => at = {}
      /\ \A p \in good : (\A q \in Left(it) : q < p => q \notin good) =>
           at # {} /\ order[Least(at)] = Named(paths, temp, p)
  BY <1>1, <1>2, <1>4, FirstMatches
<1>7. ASSUME \A p \in Left(it) : Named(paths, temp, p) \notin Passing
      PROVE  NoName(first)
  <2>1. good = {}
    BY <1>2, <1>7, Zenon
  <2> QED
    BY <1>5, <1>6, <2>1, Zenon DEF FirstOf, NoName
<1>8. ASSUME NEW p \in Left(it), Named(paths, temp, p) \in Passing,
             \A q \in Left(it) : q < p => Named(paths, temp, q) \notin Passing
      PROVE  first = Named(paths, temp, p) /\ ~NoName(first)
  <2>1. at # {} /\ order[Least(at)] = Named(paths, temp, p)
    BY <1>2, <1>6, <1>8, Zenon
  <2> QED
    BY <1>5, <1>8, <2>1, Zenon DEF FirstOf
<1> QED
  BY <1>7, <1>8, Zenon DEF FirstIs

\* The places of the iterators are numbers, and those without the implicit schemas
\* are among those with them.
LEMMA PlacesAre ==
  ASSUME PathInv
  PROVE  /\ Left(Iter(path)) \subseteq Int /\ Left(IterWithoutImplicitPGSchemas(path)) \subseteq Int
         /\ Left(IterWithoutImplicitPGSchemas(path)) \subseteq Left(Iter(path))
         /\ \A p \in Left(Iter(path)) :
              \/ p \in Left(IterWithoutImplicitPGSchemas(path))
              \/ p = -1 /\ ~Lists(PgTempSchemaName)
              \/ p = 0 /\ ~Lists(PgCatalogName)
<1>1. Len(path.paths) \in Nat
  BY DEF PathInv
<1> DEFINE P == path.paths
           temp == path.tempSchemaName
           t == ~Lists(PgTempSchemaName)
           c == ~Lists(PgCatalogName)
<1>2. /\ Left(Iter(path)) = Remaining(P, temp, t, c, 0)
      /\ Left(IterWithoutImplicitPGSchemas(path)) = Remaining(P, temp, FALSE, FALSE, 0)
  BY IteratorsOfPath
<1> HIDE DEF P, temp, t, c
<1>3. /\ Remaining(P, temp, t, c, 0) \subseteq Int /\ Remaining(P, temp, FALSE, FALSE, 0) \subseteq Int
      /\ Remaining(P, temp, FALSE, FALSE, 0) \subseteq Remaining(P, temp, t, c, 0)
      /\ \A p \in Remaining(P, temp, t, c, 0) :
           p \in Remaining(P, temp, FALSE, FALSE, 0) \/ (p = -1 /\ t) \/ (p = 0 /\ c)
  BY <1>1 DEF Remaining, P
<1> QED
  BY <1>2, <1>3, Zenon DEF t, c

\* No object, and no schema, is in a schema without a name.
LEMMA NamelessHasNone ==
  ASSUME CatalogInv, NEW db, NEW x
  PROVE  <<db, "", x>> \notin objects /\ <<db, "">> \notin schemas
<1> DEFINE none == ""
<1>1. \A s \in schemas : s[2] # none
  BY Zenon DEF CatalogInv
<1>2. \A o \in objects : <<o[1], o[2]>> \in schemas
  BY Zenon DEF CatalogInv
<1> HIDE DEF none
<1>3. <<db, none>> \notin schemas
  BY <1>1
<1>4. <<db, none, x>> \notin objects
  BY <1>2, <1>3
<1> QED
  BY <1>3, <1>4 DEF none

LEMMA TablesInOrder ==
  ASSUME PathInv, CatalogInv, NEW parts, Len(parts) = 1, NEW first, NEW r,
         first = FirstOf(DocumentedOrder,
                         {i \in DOMAIN DocumentedOrder :
                            /\ ~NoName(DocumentedOrder[i])
                            /\ <<curDb, DocumentedOrder[i], parts[1]>> \in objects}),
         r = ResolveExisting(ToTableName(parts), objects, <<>>)
  PROVE  IF NoName(first) THEN IsNothing(r, ToTableName(parts)) ELSE r.found = <<curDb, first, parts[1]>>
<1> DEFINE P == path.paths
           temp == path.tempSchemaName
           it == Iter(path)
           t == ToTableName(parts)
           x == parts[1]
           order == DocumentedOrder
           Passing == {sc \in {order[i] : i \in DOMAIN order} \cup {Named(P, temp, p) : p \in Left(it)} :
                         <<curDb, sc, x>> \in objects}
<1>1. ~t.explicitSchema /\ t.table = x
  BY ToTableNameIs
<1>2. r = SearchFor(it, <<x>>, objects, <<>>, t)
  BY <1>1, Zenon DEF ResolveExisting
<1>3. PICK ix : Matching(order, it, P, temp, ix)
  BY DocumentedPlaces
<1>4. Left(it) \subseteq Int
  BY PlacesAre
<1>5. \A sc \in Passing : ~NoName(sc)
  BY NamelessHasNone, Zenon DEF NoName
<1>6. first = FirstOf(order, Passed(order, Passing))
  <2> HIDE DEF order
  <2>1. \A i \in DOMAIN order : order[i] \in Passing <=> <<curDb, order[i], x>> \in objects
    BY Zenon
  <2>2. {i \in DOMAIN order : ~NoName(order[i]) /\ order[i] \in Passing}
          = {i \in DOMAIN order : ~NoName(order[i]) /\ <<curDb, order[i], x>> \in objects}
    <3> HIDE DEF Passing
    <3> QED
      BY <2>1
  <2> QED
    BY <2>2, Zenon DEF order, Passed
<1>7. \A p \in Left(it) : Named(P, temp, p) \in Passing <=> <<curDb, Named(P, temp, p), x>> \in objects
  BY Zenon
<1>8. \A sc : <<curDb, sc>> \o <<x>> = <<curDb, sc, x>>
  BY JoinIs
<1> HIDE DEF Passing, P, temp, it, t, x, order
<1>9. FirstIs(first, it, P, temp, Passing)
  BY <1>3, <1>4, <1>5, <1>6, FirstByPlaces
<1>10. \/ /\ IsNothing(r, t)
          /\ \A q \in Left(it) : <<curDb, Named(P, temp, q)>> \o <<x>> \notin objects
       \/ \E p \in Left(it) :
            /\ FirstPlace(it, <<x>>, objects, p)
            /\ r.found = <<curDb, Named(P, temp, p)>> \o <<x>>
  <2>1. SearchedAt(r, it, <<x>>, objects, t)
    BY <1>2, SearchedPlaces DEF it
  <2> QED
    BY <2>1, Zenon DEF SearchedAt, P, temp
<1>11. CASE /\ IsNothing(r, t)
            /\ \A q \in Left(it) : <<curDb, Named(P, temp, q)>> \o <<x>> \notin objects
  <2>1. \A q \in Left(it) : Named(P, temp, q) \notin Passing
    BY <1>7, <1>8, <1>11
  <2>2. NoName(first)
    BY <1>9, <2>1, Zenon DEF FirstIs
  <2> QED
    BY <1>11, <2>2, Zenon DEF t
<1>12. ASSUME NEW p \in Left(it), FirstPlace(it, <<x>>, objects, p),
              r.found = <<curDb, Named(P, temp, p)>> \o <<x>>
       PROVE  ~NoName(first) /\ r.found = <<curDb, first, x>>
  <2>1. /\ <<curDb, Named(P, temp, p)>> \o <<x>> \in objects
        /\ \A q \in Left(it) : q < p => <<curDb, Named(P, temp, q)>> \o <<x>> \notin objects
    BY <1>12, Zenon DEF FirstPlace, P, temp
  <2>2. Named(P, temp, p) \in Passing
    BY <1>7, <1>8, <2>1
  <2>3. \A q \in Left(it) : q < p => Named(P, temp, q) \notin Passing
    BY <1>7, <1>8, <2>1
  <2>4. first = Named(P, temp, p) /\ ~NoName(first)
    BY <1>9, <2>2, <2>3, Zenon DEF FirstIs
  <2> QED
    BY <1>8, <1>12, <2>4, Zenon
<1> QED
  BY <1>10, <1>11, <1>12, Zenon DEF x, t

LEMMA FunctionsInOrder ==
  ASSUME PathInv, NEW f, NEW first, NEW r,
         first = FirstOf(DocumentedOrder,
                         {i \in DOMAIN DocumentedOrder :
                            ~NoName(DocumentedOrder[i]) /\ <<DocumentedOrder[i], f>> \in FunDefs}),
         r = FunctionIn(Iter(path), f)
  PROVE  IF NoName(first) THEN r = <<>> ELSE r = <<first, f>>
<1> DEFINE P == path.paths
           temp == path.tempSchemaName
           it == Iter(path)
           order == DocumentedOrder
           Passing == {sc \in {order[i] : i \in DOMAIN order} \cup {Named(P, temp, p) : p \in Left(it)} :
                         ~NoName(sc) /\ <<sc, f>> \in FunDefs}
<1>1. Len(P) \in Nat /\ it \in Iterators(P, temp)
  BY IteratorsOfPath DEF PathInv
<1>2. PICK ix : Matching(order, it, P, temp, ix)
  BY DocumentedPlaces
<1>3. Left(it) \subseteq Int
  BY PlacesAre
<1>4. \A sc \in Passing : ~NoName(sc)
  BY Zenon
<1>5. first = FirstOf(order, Passed(order, Passing))
  <2> HIDE DEF order
  <2>1. \A i \in DOMAIN order : order[i] \in Passing <=> ~NoName(order[i]) /\ <<order[i], f>> \in FunDefs
    BY Zenon
  <2>2. {i \in DOMAIN order : ~NoName(order[i]) /\ order[i] \in Passing}
          = {i \in DOMAIN order : ~NoName(order[i]) /\ <<order[i], f>> \in FunDefs}
    <3> HIDE DEF Passing
    <3> QED
      BY <2>1
  <2> QED
    BY <2>2, Zenon DEF order, Passed
<1>6. \A p \in Left(it) : Named(P, temp, p) \in Passing <=> KnownIn(Named(P, temp, p), f)
  BY Zenon DEF KnownIn, NoName
<1> HIDE DEF Passing, P, temp, it, order
<1>7. FirstIs(first, it, P, temp, Passing)
  BY <1>2, <1>3, <1>4, <1>5, FirstByPlaces
<1>8. \/ \E p \in Left(it) : FunctionEndsAt(r, it, P, temp, f, p)
      \/ r = <<>> /\ \A q \in Left(it) : ~KnownIn(Named(P, temp, q), f)
  BY <1>1, FunctionInIs DEF it
<1>9. CASE r = <<>> /\ \A q \in Left(it) : ~KnownIn(Named(P, temp, q), f)
  <2>1. NoName(first)
    BY <1>6, <1>7, <1>9, Zenon DEF FirstIs
  <2> QED
    BY <1>9, <2>1, Zenon
<1>10. ASSUME NEW p \in Left(it), FunctionEndsAt(r, it, P, temp, f, p)
       PROVE  ~NoName(first) /\ r = <<first, f>>
  <2>1. /\ r = <<Named(P, temp, p), f>> /\ KnownIn(Named(P, temp, p), f)
        /\ \A q \in Left(it) : q < p => ~KnownIn(Named(P, temp, q), f)
    BY <1>10, Zenon DEF FunctionEndsAt
  <2>2. Named(P, temp, p) \in Passing /\ \A q \in Left(it) : q < p => Named(P, temp, q) \notin Passing
    BY <1>6, <2>1, Zenon
  <2>3. first = Named(P, temp, p) /\ ~NoName(first)
    BY <1>7, <2>2, Zenon DEF FirstIs
  <2> QED
    BY <2>1, <2>3, Zenon
<1> QED
  BY <1>8, <1>9, <1>10, Zenon

LEMMA FunctionResolved ==
  ASSUME NEW f
  PROVE  /\ ResolveFunction(<<f>>) = (IF <<"", f>> \in FunDefs THEN <<"", f>> ELSE FunctionIn(Iter(path), f))
         /\ <<"", f>> \in FunDefs => ResolveFunction(<<f, PgCatalogName>>) = <<"", f>>
<1>1. <<f>>[1] = f /\ <<f, PgCatalogName>>[1] = f /\ <<f, PgCatalogName>>[2] = PgCatalogName
  OBVIOUS
<1>2. Part(<<f>>, 2) = ""
  <2>1. ~(2 <= Len(<<f>>))
    OBVIOUS
  <2> QED
    BY <2>1, Zenon DEF Part
<1>3. Part(<<f, PgCatalogName>>, 2) = PgCatalogName
  <2>1. 2 <= Len(<<f, PgCatalogName>>)
    OBVIOUS
  <2> QED
    BY <1>1, <2>1, Zenon DEF Part
<1> QED
  BY <1>1, <1>2, <1>3, Zenon DEF ResolveFunction

LEMMA InOrder ==
  ASSUME PathInv, CatalogInv, NamesAssumption
  PROVE  SearchedInOrder
<1>1. ASSUME NEW parts \in Written, Len(parts) = 1
      PROVE  LET first == FirstWith(DocumentedOrder, LAMBDA x : <<curDb, x, parts[1]>> \in objects)
                 r     == ResolveExisting(ToTableName(parts), objects, <<>>)
             IN  IF first = "" THEN r.kind = "nothing" ELSE r.found = <<curDb, first, parts[1]>>
  <2> DEFINE at == {i \in DOMAIN DocumentedOrder :
                      ~NoName(DocumentedOrder[i]) /\ <<curDb, DocumentedOrder[i], parts[1]>> \in objects}
             first == FirstOf(DocumentedOrder, at)
             r == ResolveExisting(ToTableName(parts), objects, <<>>)
  <2>1. FirstWith(DocumentedOrder, LAMBDA x : <<curDb, x, parts[1]>> \in objects) = first
    BY Zenon DEF FirstWith, FirstOf, NoName
  <2>2. IF NoName(first) THEN IsNothing(r, ToTableName(parts)) ELSE r.found = <<curDb, first, parts[1]>>
    BY <1>1, TablesInOrder
  <2>3. IsNothing(r, ToTableName(parts)) => r.kind = "nothing"
    BY DEF IsNothing, Outcome
  <2> HIDE DEF first, r
  <2> QED
    BY <2>1, <2>2, <2>3, Zenon DEF NoName, r
<1>2. ASSUME NEW f
      PROVE  LET first == FirstWith(DocumentedOrder, LAMBDA x : <<x, f>> \in FunDefs)
             IN  /\ ResolveFunction(<<f>>) = (IF <<"", f>> \in FunDefs THEN <<"", f>>
                                              ELSE IF first = "" THEN <<>> ELSE <<first, f>>)
                 /\ <<"", f>> \in FunDefs => ResolveFunction(<<f, PgCatalogName>>) = <<"", f>>
  <2> DEFINE at == {i \in DOMAIN DocumentedOrder :
                      ~NoName(DocumentedOrder[i]) /\ <<DocumentedOrder[i], f>> \in FunDefs}
             first == FirstOf(DocumentedOrder, at)
             r == FunctionIn(Iter(path), f)
  <2>1. FirstWith(DocumentedOrder, LAMBDA x : <<x, f>> \in FunDefs) = first
    BY Zenon DEF FirstWith, FirstOf, NoName
  <2>2. IF NoName(first) THEN r = <<>> ELSE r = <<first, f>>
    BY FunctionsInOrder
  <2> HIDE DEF first
  <2> QED
    BY <2>1, <2>2, FunctionResolved, Zenon DEF NoName
<1> QED
  BY <1>1, <1>2, Zenon DEF SearchedInOrder

\* Where a name with a schema is looked for, when no lookup fails.
IsFound(r, where) == r.kind = "found" /\ r.found = where
Schema(t) == MaybeResolveTemporarySchema(path, t.schema)

LEMMA ExplicitExact ==
  ASSUME NEW t, NEW suffix, NEW known, NEW r, r = Explicit(t, suffix, known, <<>>), ~ForeignTemp(path, t.schema)
  PROVE  LET written == <<t.catalog, Schema(t)>> \o suffix
             here    == <<curDb, Schema(t)>> \o suffix
             public  == <<t.schema, PublicSchema>> \o suffix
         IN  /\ t.explicitCatalog => IF written \in known THEN IsFound(r, written) ELSE NotFound(r, t)
             /\ ~t.explicitCatalog =>
                  IF here \in known THEN IsFound(r, here)
                  ELSE IF public \in known THEN IsFound(r, public) ELSE NotFound(r, t)
<1> DEFINE Where(db, sc) == <<db, sc>> \o suffix
           One(db, sc, then) == Lookup(Where(db, sc), known, <<>>, t, then)
           written == Where(t.catalog, Schema(t))
           here == Where(curDb, Schema(t))
           public == Where(t.schema, PublicSchema)
           inWritten == One(t.catalog, Schema(t), t)
           inHere == One(curDb, Schema(t), InDatabase(t, curDb))
           inPublic == One(t.schema, PublicSchema, InPublic(t))
<1>1. r = IF t.explicitCatalog THEN inWritten
          ELSE IF inHere.kind # "nothing" THEN inHere ELSE inPublic
  BY Zenon DEF Explicit, Schema
<1>2. ASSUME NEW db, NEW sc, NEW then, NEW l, l = One(db, sc, then)
      PROVE  /\ Where(db, sc) \in known => IsFound(l, Where(db, sc)) /\ l.kind # "nothing"
             /\ Where(db, sc) \notin known => NotFound(l, t) /\ l.kind = "nothing"
  <2> DEFINE where == Where(db, sc)
  <2>1. <<where[1], where[2]>> # <<>>
    BY JoinIs
  <2>2. l = Lookup(where, known, <<>>, t, then)
    BY <1>2
  <2> HIDE DEF where
  <2>3. /\ where \in known => l.kind = "found" /\ l.found = where /\ l.kind # "nothing"
        /\ where \notin known => l.kind = "nothing" /\ l.kind # "found" /\ l.found = <<>> /\ l.name = t
    BY <2>1, <2>2, LookupIs
  <2> QED
    BY <2>3, Zenon DEF where, IsFound, NotFound
<1>3. /\ inWritten = One(t.catalog, Schema(t), t)
      /\ inHere = One(curDb, Schema(t), InDatabase(t, curDb))
      /\ inPublic = One(t.schema, PublicSchema, InPublic(t))
  OBVIOUS
<1> HIDE DEF One, Where, inWritten, inHere, inPublic
<1>4. /\ written \in known => IsFound(inWritten, written)
      /\ written \notin known => NotFound(inWritten, t)
  BY <1>2, <1>3
<1>5. /\ here \in known => IsFound(inHere, here) /\ inHere.kind # "nothing"
      /\ here \notin known => NotFound(inHere, t) /\ inHere.kind = "nothing"
  BY <1>2, <1>3
<1>6. /\ public \in known => IsFound(inPublic, public)
      /\ public \notin known => NotFound(inPublic, t)
  BY <1>2, <1>3
<1> HIDE DEF written, here, public
<1>7. t.explicitCatalog => IF written \in known THEN IsFound(r, written) ELSE NotFound(r, t)
  BY <1>1, <1>4, Zenon
<1>8. ~t.explicitCatalog =>
        IF here \in known THEN IsFound(r, here)
        ELSE IF public \in known THEN IsFound(r, public) ELSE NotFound(r, t)
  BY <1>1, <1>5, <1>6, Zenon
<1> QED
  BY <1>7, <1>8, Zenon DEF written, here, public, Where

\* What is made under a name with a schema is what the name finds.
LEMMA MadeIsFoundExplicit ==
  ASSUME CatalogInv, NEW t, t.explicitSchema, NEW target, target = ResolveTarget(t, <<>>),
         target.kind = "found", NEW x, x = t.table, NEW r,
         r = ResolveExisting(t, objects \cup {target.found \o <<x>>}, <<>>)
  PROVE  IsFound(r, target.found \o <<x>>)
<1> DEFINE made == target.found \o <<x>>
           known == objects \cup {made}
           sc == Schema(t)
<1>1. target = Explicit(t, <<>>, schemas, <<>>) /\ r = Explicit(t, <<x>>, known, <<>>)
  BY Zenon DEF ResolveTarget, ResolveExisting
<1>2. ~ForeignTemp(path, t.schema)
  <2>1. target.kind # "found" => NotFound(target, t)
    BY <1>1, ExplicitIs, Zenon
  <2>2. NotFound(target, t) \/ ~ForeignTemp(path, t.schema)
    BY <1>1, ExplicitIs
  <2> QED
    BY <2>2, Zenon DEF NotFound
<1>3. \A a, b : <<a, b>> \o <<>> = <<a, b>> /\ <<a, b>> \o <<x>> = <<a, b, x>>
  BY JoinIs
<1>4. \A a, b : <<a, b, x>> \in objects => <<a, b>> \in schemas
  <2>1. \A o \in objects : <<o[1], o[2]>> \in schemas
    BY Zenon DEF CatalogInv
  <2> SUFFICES ASSUME NEW a, NEW b, <<a, b, x>> \in objects PROVE <<a, b>> \in schemas
    OBVIOUS
  <2>2. <<a, b, x>>[1] = a /\ <<a, b, x>>[2] = b
    OBVIOUS
  <2> QED
    BY <2>1, <2>2
<1>5. /\ t.explicitCatalog =>
           IF <<t.catalog, sc>> \o <<>> \in schemas THEN IsFound(target, <<t.catalog, sc>> \o <<>>) ELSE NotFound(target, t)
      /\ ~t.explicitCatalog =>
           IF <<curDb, sc>> \o <<>> \in schemas THEN IsFound(target, <<curDb, sc>> \o <<>>)
           ELSE IF <<t.schema, PublicSchema>> \o <<>> \in schemas THEN IsFound(target, <<t.schema, PublicSchema>> \o <<>>)
           ELSE NotFound(target, t)
  BY <1>1, <1>2, ExplicitExact
<1>6. /\ t.explicitCatalog =>
           IF <<t.catalog, sc>> \o <<x>> \in known THEN IsFound(r, <<t.catalog, sc>> \o <<x>>) ELSE NotFound(r, t)
      /\ ~t.explicitCatalog =>
           IF <<curDb, sc>> \o <<x>> \in known THEN IsFound(r, <<curDb, sc>> \o <<x>>)
           ELSE IF <<t.schema, PublicSchema>> \o <<x>> \in known THEN IsFound(r, <<t.schema, PublicSchema>> \o <<x>>)
           ELSE NotFound(r, t)
  <2> HIDE DEF known
  <2> QED
    BY <1>1, <1>2, ExplicitExact
<1>7. ~NotFound(target, t)
  BY Zenon DEF NotFound
<1>8. \A where : IsFound(target, where) => target.found = where
  BY Zenon DEF IsFound
<1>9. made \in known /\ \A o : o \in known => o = made \/ o \in objects
  OBVIOUS
<1> HIDE DEF known, sc
<1>10. CASE t.explicitCatalog
  <2>1. target.found = <<t.catalog, sc>>
    BY <1>3, <1>5, <1>7, <1>8, <1>10, Zenon
  <2>2. made = <<t.catalog, sc>> \o <<x>>
    BY <2>1
  <2> QED
    BY <1>6, <1>9, <1>10, <2>2, Zenon
<1>11. CASE ~t.explicitCatalog /\ <<curDb, sc>> \in schemas
  <2>1. target.found = <<curDb, sc>>
    BY <1>3, <1>5, <1>8, <1>11, Zenon
  <2>2. made = <<curDb, sc>> \o <<x>>
    BY <2>1
  <2> QED
    BY <1>6, <1>9, <1>11, <2>2, Zenon
<1>12. CASE ~t.explicitCatalog /\ <<curDb, sc>> \notin schemas
  <2>1. target.found = <<t.schema, PublicSchema>>
    BY <1>3, <1>5, <1>7, <1>8, <1>12, Zenon
  <2>2. made = <<t.schema, PublicSchema>> \o <<x>>
    BY <2>1
  <2>3. CASE <<curDb, sc>> \o <<x>> \in known
    <3>1. <<curDb, sc>> \o <<x>> = made
      <4>1. <<curDb, sc, x>> \notin objects
        BY <1>4, <1>12
      <4> QED
        BY <1>3, <1>9, <2>3, <4>1, Zenon
    <3> QED
      BY <1>6, <1>12, <2>3, <3>1, Zenon
  <2>4. CASE <<curDb, sc>> \o <<x>> \notin known
    BY <1>6, <1>9, <1>12, <2>2, <2>4, Zenon
  <2> QED
    BY <2>3, <2>4
<1> QED
  BY <1>10, <1>11, <1>12

\* A name without a schema is made in the first schema listed that exists.
LEMMA MadeInListed ==
  ASSUME PathInv, CatalogInv, NEW t, ~t.explicitSchema, NEW target, target = ResolveTarget(t, <<>>),
         NEW first,
         first = FirstOf(Listed, {i \in DOMAIN Listed : ~NoName(Listed[i]) /\ <<curDb, Listed[i]>> \in schemas})
  PROVE  /\ IF NoName(first) THEN IsNothing(target, t) ELSE target.found = <<curDb, first>>
         /\ IsNothing(target, t)
            \/ \E p : /\ FirstPlace(IterWithoutImplicitPGSchemas(path), <<>>, schemas, p)
                      /\ target.found = <<curDb, Named(path.paths, path.tempSchemaName, p)>>
<1> DEFINE P == path.paths
           temp == path.tempSchemaName
           it == IterWithoutImplicitPGSchemas(path)
           order == Listed
           Passing == {sc \in {order[i] : i \in DOMAIN order} \cup {Named(P, temp, p) : p \in Left(it)} :
                         <<curDb, sc>> \in schemas}
<1>2. target = SearchFor(it, <<>>, schemas, <<>>, t)
  BY Zenon DEF ResolveTarget
<1>3. PICK ix : Matching(order, it, P, temp, ix)
  BY ListedPlaces
<1>4. Left(it) \subseteq Int
  BY PlacesAre
<1>5. \A sc \in Passing : ~NoName(sc)
  BY NamelessHasNone, Zenon DEF NoName
<1>6. first = FirstOf(order, Passed(order, Passing))
  <2> HIDE DEF order
  <2>1. \A i \in DOMAIN order : order[i] \in Passing <=> <<curDb, order[i]>> \in schemas
    BY Zenon
  <2>2. {i \in DOMAIN order : ~NoName(order[i]) /\ order[i] \in Passing}
          = {i \in DOMAIN order : ~NoName(order[i]) /\ <<curDb, order[i]>> \in schemas}
    <3> HIDE DEF Passing
    <3> QED
      BY <2>1
  <2> QED
    BY <2>2, Zenon DEF order, Passed
<1>7. \A p \in Left(it) : Named(P, temp, p) \in Passing <=> <<curDb, Named(P, temp, p)>> \in schemas
  BY Zenon
<1>8. \A sc : <<curDb, sc>> \o <<>> = <<curDb, sc>>
  BY JoinIs
<1> HIDE DEF Passing, P, temp, it, order
<1>9. FirstIs(first, it, P, temp, Passing)
  BY <1>3, <1>4, <1>5, <1>6, FirstByPlaces
<1>10. \/ /\ IsNothing(target, t)
          /\ \A q \in Left(it) : <<curDb, Named(P, temp, q)>> \o <<>> \notin schemas
       \/ \E p \in Left(it) :
            /\ FirstPlace(it, <<>>, schemas, p)
            /\ target.found = <<curDb, Named(P, temp, p)>> \o <<>>
  <2>1. it \in {Iter(path), IterWithoutImplicitPGSchemas(path)}
    BY DEF it
  <2> QED
    <3>1. SearchedAt(target, it, <<>>, schemas, t)
      BY <1>2, <2>1, SearchedPlaces
    <3> QED
      BY <3>1, Zenon DEF SearchedAt, P, temp
<1>11. CASE /\ IsNothing(target, t)
            /\ \A q \in Left(it) : <<curDb, Named(P, temp, q)>> \o <<>> \notin schemas
  <2>1. \A q \in Left(it) : Named(P, temp, q) \notin Passing
    BY <1>7, <1>8, <1>11
  <2>2. NoName(first)
    BY <1>9, <2>1, Zenon DEF FirstIs
  <2> QED
    BY <1>11, <2>2, Zenon
<1>12. ASSUME NEW p \in Left(it), FirstPlace(it, <<>>, schemas, p),
              target.found = <<curDb, Named(P, temp, p)>> \o <<>>
       PROVE  ~NoName(first) /\ target.found = <<curDb, first>> /\ target.found = <<curDb, Named(P, temp, p)>>
  <2>1. /\ <<curDb, Named(P, temp, p)>> \o <<>> \in schemas
        /\ \A q \in Left(it) : q < p => <<curDb, Named(P, temp, q)>> \o <<>> \notin schemas
    BY <1>12, Zenon DEF FirstPlace, P, temp
  <2>2. Named(P, temp, p) \in Passing
    BY <1>7, <1>8, <2>1
  <2>3. \A q \in Left(it) : q < p => Named(P, temp, q) \notin Passing
    BY <1>7, <1>8, <2>1
  <2>4. first = Named(P, temp, p) /\ ~NoName(first)
    BY <1>9, <2>2, <2>3, Zenon DEF FirstIs
  <2> QED
    BY <1>8, <1>12, <2>4, Zenon
<1> QED
  BY <1>10, <1>11, <1>12, Zenon DEF it, P, temp

FoundOrHidden(r, made) == r.kind = "found" /\ (r.found = made \/ r.found[2] \in SearchedUnlisted)

\* What is made there is what the name finds, unless a schema that is searched
\* without being listed has one of that name.
LEMMA MadeIsFoundImplicit ==
  ASSUME PathInv, CatalogInv, NEW t, ~t.explicitSchema, NEW target, target = ResolveTarget(t, <<>>),
         target.kind = "found", NEW x, x = t.table, NEW r,
         r = ResolveExisting(t, objects \cup {target.found \o <<x>>}, <<>>)
  PROVE  FoundOrHidden(r, target.found \o <<x>>)
<1> DEFINE P == path.paths
           temp == path.tempSchemaName
           it == Iter(path)
           bare == IterWithoutImplicitPGSchemas(path)
           made == target.found \o <<x>>
           known == objects \cup {made}
           first == FirstOf(Listed, {i \in DOMAIN Listed : ~NoName(Listed[i]) /\ <<curDb, Listed[i]>> \in schemas})
<1>1. ~IsNothing(target, t)
  BY DEF IsNothing, Outcome
<1>2. PICK p : /\ FirstPlace(bare, <<>>, schemas, p)
               /\ target.found = <<curDb, Named(P, temp, p)>>
  BY <1>1, MadeInListed
<1>3. r = SearchFor(it, <<x>>, known, <<>>, t)
  BY Zenon DEF ResolveExisting
<1>4. \A sc : <<curDb, sc>> \o <<>> = <<curDb, sc>> /\ <<curDb, sc>> \o <<x>> = <<curDb, sc, x>>
  BY JoinIs
<1>5. made \in known /\ \A o : o \in known => o = made \/ o \in objects
  OBVIOUS
<1>6. made = <<curDb, Named(P, temp, p)>> \o <<x>>
  BY <1>2
<1>7. /\ p \in Left(bare) /\ \A q \in Left(bare) : q < p => <<curDb, Named(P, temp, q)>> \notin schemas
  BY <1>2, <1>4 DEF FirstPlace
<1>8. /\ Left(it) \subseteq Int /\ p \in Left(it)
      /\ \A q \in Left(it) : \/ q \in Left(bare)
                             \/ q = -1 /\ ~Lists(PgTempSchemaName)
                             \/ q = 0 /\ ~Lists(PgCatalogName)
  BY <1>7, PlacesAre
<1> HIDE DEF known, made, it, bare, P, temp
<1>9. \/ /\ IsNothing(r, t)
         /\ \A q \in Left(it) : <<curDb, Named(P, temp, q)>> \o <<x>> \notin known
      \/ /\ r.kind = "found"
         /\ \E q \in Left(it) :
              /\ FirstPlace(it, <<x>>, known, q)
              /\ r.found = <<curDb, Named(P, temp, q)>> \o <<x>>
  <2>1. it \in {Iter(path), IterWithoutImplicitPGSchemas(path)}
    BY DEF it
  <2> QED
    <3>1. SearchedAt(r, it, <<x>>, known, t)
      BY <1>3, <2>1, SearchedPlaces
    <3> QED
      BY <3>1, Zenon DEF SearchedAt, P, temp
<1>10. PICK q \in Left(it) : /\ r.kind = "found" /\ FirstPlace(it, <<x>>, known, q)
                             /\ r.found = <<curDb, Named(P, temp, q)>> \o <<x>>
  BY <1>5, <1>6, <1>8, <1>9, Zenon
<1>11. CASE r.found = made
  BY <1>10, <1>11, Zenon DEF made, FoundOrHidden
<1>12. CASE r.found # made
  <2> DEFINE sc == Named(P, temp, q)
  <2>1. r.found = <<curDb, sc, x>> /\ <<curDb, sc>> \o <<x>> \in known
        /\ \A k \in Left(it) : k < q => <<curDb, Named(P, temp, k)>> \o <<x>> \notin known
    BY <1>4, <1>10, Zenon DEF FirstPlace, P, temp
  <2>2. <<curDb, sc, x>> \in objects
    BY <1>4, <1>5, <1>12, <2>1
  <2> HIDE DEF sc
  <2>3. <<curDb, sc>> \in schemas /\ r.found[2] = sc
    <3>1. \A o \in objects : <<o[1], o[2]>> \in schemas
      BY Zenon DEF CatalogInv
    <3>2. <<curDb, sc, x>>[1] = curDb /\ <<curDb, sc, x>>[2] = sc
      OBVIOUS
    <3> QED
      BY <2>1, <2>2, <3>1, <3>2
  <2>4. q # p
    BY <1>4, <1>6, <1>12, <2>1, Zenon DEF sc
  <2>5. ~(p < q)
    BY <1>5, <1>6, <1>8, <2>1
  <2>6. q < p
    <3>1. p \in Int /\ q \in Int
      BY <1>8
    <3> QED
      BY <2>4, <2>5, <3>1
  <2>7. q \notin Left(bare)
    BY <1>7, <2>3, <2>6, Zenon DEF sc
  <2>8. CASE q = -1 /\ ~Lists(PgTempSchemaName)
    <3>1. sc = temp
      BY <2>8, Zenon DEF sc, Named
    <3> QED
      BY <1>10, <2>3, <2>8, <3>1, Zenon DEF SearchedUnlisted, FoundOrHidden, temp
  <2>9. CASE q = 0 /\ ~Lists(PgCatalogName)
    <3>1. sc = PgCatalogName
      <4>1. 0 # -1
        OBVIOUS
      <4> QED
        BY <2>9, <4>1, Zenon DEF sc, Named
    <3> QED
      BY <1>10, <2>3, <2>9, <3>1, Zenon DEF SearchedUnlisted, FoundOrHidden
  <2> QED
    BY <1>8, <2>7, <2>8, <2>9, Zenon
<1> QED
  BY <1>11, <1>12

LEMMA MadeFound ==
  ASSUME PathInv, CatalogInv, NamesAssumption
  PROVE  MadeIsFound
<1> SUFFICES
      ASSUME NEW parts \in Written
      PROVE  LET target == ResolveTarget(ToTableName(parts), <<>>)
                 made   == target.found \o <<parts[1]>>
                 r      == ResolveExisting(ToTableName(parts), objects \cup {made}, <<>>)
                 listed == FirstWith(Listed, LAMBDA x : <<curDb, x>> \in schemas)
             IN  /\ Len(parts) = 1 =>
                      target.found = (IF listed = "" THEN <<>> ELSE <<curDb, listed>>)
                 /\ target.kind = "found" =>
                      /\ r.kind = "found"
                      /\ \/ r.found = made
                         \/ /\ Len(parts) = 1
                            /\ r.found[2] \in SearchedUnlisted
  BY Zenon DEF MadeIsFound
<1> DEFINE t == ToTableName(parts)
           x == parts[1]
           target == ResolveTarget(t, <<>>)
           made == target.found \o <<x>>
           r == ResolveExisting(t, objects \cup {made}, <<>>)
           listed == FirstWith(Listed, LAMBDA y : <<curDb, y>> \in schemas)
           first == FirstOf(Listed, {i \in DOMAIN Listed : ~NoName(Listed[i]) /\ <<curDb, Listed[i]>> \in schemas})
<1>1. t.table = x /\ (~t.explicitSchema <=> Len(parts) = 1)
  <2>1. Len(parts) \in 1 .. 3
    BY DEF NamesAssumption
  <2> QED
    BY <2>1, ToTableNameIs
<1>2. listed = first
  BY Zenon DEF FirstWith, FirstOf, NoName
<1>3. Len(parts) = 1 => target.found = (IF listed = "" THEN <<>> ELSE <<curDb, listed>>)
  <2>1. IsNothing(target, t) => target.found = <<>>
    BY DEF IsNothing, Outcome
  <2>2. Len(parts) = 1 => IF NoName(first) THEN IsNothing(target, t) ELSE target.found = <<curDb, first>>
    <3> HIDE DEF t
    <3> QED
      BY <1>1, MadeInListed
  <2> HIDE DEF first, target, listed, t
  <2> QED
    BY <1>2, <2>1, <2>2, Zenon DEF NoName
<1> HIDE DEF t, x
<1>4. ASSUME target.kind = "found", t.explicitSchema
      PROVE  r.kind = "found" /\ r.found = made
  <2>1. IsFound(r, made)
    BY <1>1, <1>4, MadeIsFoundExplicit
  <2> QED
    BY <2>1, Zenon DEF IsFound
<1>5. ASSUME target.kind = "found", ~t.explicitSchema
      PROVE  r.kind = "found" /\ (r.found = made \/ r.found[2] \in SearchedUnlisted)
  <2>1. FoundOrHidden(r, made)
    BY <1>1, <1>5, MadeIsFoundImplicit
  <2> QED
    BY <2>1, Zenon DEF FoundOrHidden
<1> HIDE DEF target, made, r, listed, first
<1>6. /\ Len(parts) = 1 => target.found = (IF listed = "" THEN <<>> ELSE <<curDb, listed>>)
      /\ target.kind = "found" =>
           /\ r.kind = "found"
           /\ \/ r.found = made
              \/ Len(parts) = 1 /\ r.found[2] \in SearchedUnlisted
  BY <1>1, <1>3, <1>4, <1>5, Zenon
<1> QED
  BY <1>6, Zenon DEF target, made, r, listed, t, x

\* A name that is printed in full is read as that of the same object.
LEMMA PrintedIs ==
  ASSUME NEW name, NEW object \in objects, Completed(name, object), NEW r,
         r = ResolveExisting(ToTableName(FQString(name)), objects, <<>>)
  PROVE  r.kind = "found" /\ r.found = object
<1> DEFINE t == ToTableName(FQString(name))
<1>1. Len(FQString(name)) = 3 /\ FQString(name)[1] = name.table /\ FQString(name)[2] = name.schema
      /\ FQString(name)[3] = name.catalog
  BY DEF FQString
<1>2. t.explicitSchema /\ t.explicitCatalog /\ t.table = name.table /\ t.schema = name.schema
      /\ t.catalog = name.catalog
  <2>1. Len(FQString(name)) \in 1 .. 3
    BY <1>1
  <2> QED
    BY <1>1, <2>1, ToTableNameIs
<1>3. r = Explicit(t, <<t.table>>, objects, <<>>)
  BY <1>2, Zenon DEF ResolveExisting
<1>4. ~ForeignTemp(path, t.schema) /\ object = <<t.catalog, Schema(t), t.table>>
  BY <1>2, Zenon DEF Completed, Schema
<1> HIDE DEF t
<1>5. <<t.catalog, Schema(t)>> \o <<t.table>> = <<t.catalog, Schema(t), t.table>>
  BY JoinIs
<1>6. IF <<t.catalog, Schema(t)>> \o <<t.table>> \in objects
      THEN IsFound(r, <<t.catalog, Schema(t)>> \o <<t.table>>) ELSE NotFound(r, t)
  BY <1>2, <1>3, <1>4, ExplicitExact
<1>7. IsFound(r, object)
  BY <1>4, <1>5, <1>6, Zenon
<1> QED
  BY <1>7, Zenon DEF IsFound

\* The prefix that was written means the source, unless it hides behind another.
LEMMA PrefixIs ==
  ASSUME NamesInv, NEW i \in DOMAIN from, Len(from[i].parts) \in 1 .. 3
  PROVE  i \in ResolvePrefix(from[i].parts) \/ \E k \in DOMAIN from : HidesSource(k, i)
<1> DEFINE parts == from[i].parts
           p == ToTableName(parts)
           Direct == FindSourceMatchingName(p)
<1>1. \A k : k \in Direct <=> k \in DOMAIN from /\ Matches(from[k], p)
  BY DEF FindSourceMatchingName
<1>2. \A k : k \in FindSourceMatchingName(InPublic(p)) <=> k \in DOMAIN from /\ Matches(from[k], InPublic(p))
  BY DEF FindSourceMatchingName
<1>3. Matches(from[i], p) \/ (Len(parts) = 2 /\ Matches(from[i], InPublic(p)))
  <2>1. Names(from[i].name, parts)
    BY Zenon DEF NamesInv, FromInv
  <2> QED
    BY <2>1, Zenon DEF Names, Matches
<1>4. CASE Matches(from[i], p)
  <2>1. i \in Direct /\ Direct # {}
    BY <1>1, <1>4
  <2> QED
    BY <2>1, Zenon DEF ResolvePrefix
<1>5. CASE ~Matches(from[i], p) /\ Direct = {}
  <2>1. Len(parts) = 2 /\ i \in FindSourceMatchingName(InPublic(p))
    BY <1>2, <1>3, <1>5
  <2> QED
    BY <1>5, <2>1, Zenon DEF ResolvePrefix
<1>6. CASE ~Matches(from[i], p) /\ Direct # {}
  <2>1. PICK k \in DOMAIN from : Matches(from[k], p)
    BY <1>1, <1>6
  <2>2. p.explicitSchema /\ ~p.explicitCatalog /\ p.schema = parts[2]
    BY <1>3, <1>6, ToTableNameIs
  <2>3. /\ from[i].name.table = p.table /\ from[i].name.schema = PublicSchema
        /\ from[i].name.catalog = p.schema
    <3>1. Matches(from[i], InPublic(p))
      BY <1>3, <1>6
    <3>2. /\ InPublic(p).table = p.table /\ InPublic(p).schema = PublicSchema
          /\ InPublic(p).catalog = p.schema /\ InPublic(p).explicitSchema /\ InPublic(p).explicitCatalog
      BY <2>2, PublicIs
    <3> QED
      BY <3>1, <3>2, Zenon DEF Matches
  <2>4. p.schema # PublicSchema
    BY <1>6, <2>2, <2>3, Zenon DEF Matches
  <2>5. from[k].name.schema = p.schema
    BY <2>1, <2>2, Zenon DEF Matches
  <2>6. ASSUME from[k].object = from[i].object
        PROVE  FALSE
    <3> DEFINE a == from[i].name
               b == from[k].name
               Res(sc) == MaybeResolveTemporarySchema(path, sc)
    <3>1. <<a.catalog, Res(a.schema), a.table>> = <<b.catalog, Res(b.schema), b.table>>
      BY <2>6, Zenon DEF NamesInv, FromInv, Completed
    <3>2. Res(a.schema) = Res(b.schema)
      BY <3>1
    <3>3. Res(PublicSchema) = PublicSchema
      BY NamesDiffer, Zenon DEF MaybeResolveTemporarySchema, Temporary
    <3>4. Res(p.schema) # PublicSchema
      <4>1. HasTemp(path.tempSchemaName) => path.tempSchemaName = OurTemp
        BY DEF NamesInv, PathInv
      <4>2. OurTemp # PublicSchema
        BY NamesDiffer
      <4> QED
        BY <2>4, <4>1, <4>2, Zenon DEF MaybeResolveTemporarySchema, HasTemp
    <3> QED
      BY <2>3, <2>5, <3>2, <3>3, <3>4, Zenon
  <2>7. HidesSource(k, i)
    BY <2>1, <2>6, Zenon DEF HidesSource
  <2> QED
    BY <2>7
<1> QED
  BY <1>4, <1>5, <1>6

LEMMA ForGood ==
  ASSUME NamesInv, NamesAssumption
  PROVE  ResolvedForGood
<1>1. ASSUME NEW i \in DOMAIN from
      PROVE  /\ LET r == ResolveExisting(ToTableName(FQString(from[i].name)), objects, <<>>)
                IN  r.kind = "found" /\ r.found = from[i].object
             /\ \/ i \in ResolvePrefix(from[i].parts)
                \/ \E k \in DOMAIN from : HidesSource(k, i)
             /\ from[i].object[2] # OthersTemp
  <2>1. /\ from[i].object \in objects /\ Completed(from[i].name, from[i].object)
        /\ from[i].parts \in Written
    BY Zenon DEF NamesInv, FromInv
  <2>2. Len(from[i].parts) \in 1 .. 3
    BY <2>1 DEF NamesAssumption
  <2>3. i \in ResolvePrefix(from[i].parts) \/ \E k \in DOMAIN from : HidesSource(k, i)
    BY <2>2, PrefixIs
  <2> DEFINE r == ResolveExisting(ToTableName(FQString(from[i].name)), objects, <<>>)
  <2>4. r.kind = "found" /\ r.found = from[i].object
    BY <2>1, PrintedIs
  <2>5. from[i].object[2] # OthersTemp
    BY <2>1, Zenon DEF Completed
  <2> QED
    BY <2>3, <2>4, <2>5, Zenon
<1>2. ASSUME NEW parts \in Written, NEW broken \in Broken
      PROVE  LET t == ToTableName(parts)
                 r == ResolveExisting(t, objects, broken)
             IN  r.kind # "found" => r.name = t
  <2>1. Len(parts) \in 1 .. 3
    BY DEF NamesAssumption
  <2>2. InSchemas(objects)
    BY Zenon DEF InSchemas, NamesInv, CatalogInv
  <2> DEFINE t == ToTableName(parts)
             r == ResolveExisting(t, objects, broken)
  <2>3. NotFound(r, t) \/ (r.kind = "found" /\ r.found \in objects /\ Completed(r.name, r.found) /\ Names(r.name, parts))
    BY <2>1, <2>2, Resolved DEF NamesInv
  <2> QED
    BY <2>3, Zenon DEF NotFound
<1> QED
  BY <1>1, <1>2, Zenon DEF ResolvedForGood

\* Whatever schemas and objects are created, by whomever, and whatever the session
\* sets its database and its path to: a name without a schema means the object that
\* the documented order of the schemas gives it; what is made under a name is what
\* that name finds, but for the schemas that are searched without being listed; and
\* a name that was resolved means, printed in full, the same object ever after
\* (name_resolution.go 201-330, search_path.go 100-260).
THEOREM NamesMeanOne ==
  ASSUME NamesAssumption
  PROVE  Spec => []NamesResolve
<1>1. Init => NamesInv
  BY NamesInit
<1>2. NamesInv /\ [Next]_vars => NamesInv'
  BY NamesStep
<1>3. NamesInv => NamesResolve
  BY InOrder, MadeFound, ForGood DEF NamesInv, NamesResolve
<1> QED
  BY <1>1, <1>2, <1>3, PTL DEF Spec
=============================================================================

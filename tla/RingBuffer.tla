----------------------------- MODULE RingBuffer -----------------------------
(***************************************************************************)
(* ring.Buffer (pkg/util/ring/ring_buffer.go): a deque over a slice that   *)
(* is used as a ring and doubled when it is full.                          *)
(***************************************************************************)
EXTENDS Integers, Sequences

CONSTANTS
  Elem,         \* the elements
  Nil,          \* nil, what an unused place of a new slice holds
  MaxCap,       \* a bound on the capacity
  ReserveFrom   \* Reserve makes the slice larger only when the buffer holds
                \* at least so many elements, or all that fit

RingAssumption ==
  /\ Nil \notin Elem
  /\ MaxCap \in Nat \ {0}
  /\ ReserveFrom \in Nat

VARIABLES
  buffer,      \* the slice, a function on 0 .. cap - 1
  cap,         \* its capacity
  head, tail,  \* the index of the first element, and of the place after the last
  nonEmpty     \* tells an empty buffer from a full one

ringVars == <<buffer, cap, head, tail, nonEmpty>>

RingInit ==
  /\ buffer = [i \in {} |-> Nil]
  /\ cap = 0
  /\ head = 0
  /\ tail = 0
  /\ nonEmpty = FALSE

RLen ==
  IF ~nonEmpty THEN 0
  ELSE IF head < tail THEN tail - head
  ELSE cap + tail - head

Get(i) == buffer[(i + head) % cap]
GetFirst == buffer[head]
GetLast  == buffer[(cap + tail - 1) % cap]

\* The new slice of grow: the elements from the first place on.
Moved(n) == [i \in 0 .. n - 1 |-> IF i < RLen THEN Get(i) ELSE Nil]

\* The slice, head and tail after maybeGrow, which doubles a full slice. grow
\* sets the tail to the old capacity.
Full    == RLen = cap
Grown   == IF cap = 0 THEN 1 ELSE 2 * cap
NewCap  == IF Full THEN Grown ELSE cap
NewBuf  == IF Full THEN Moved(Grown) ELSE buffer
NewHead == IF Full THEN 0 ELSE head
NewTail == IF Full THEN cap ELSE tail

\* Mutant: the element goes where head was.
AddFirstLate(e) ==
  /\ NewCap <= MaxCap
  /\ cap' = NewCap
  /\ buffer' = [NewBuf EXCEPT ![NewHead] = e]
  /\ head' = (NewCap + NewHead - 1) % NewCap
  /\ tail' = NewTail
  /\ nonEmpty' = TRUE

AddFirst(e) ==
  /\ NewCap <= MaxCap
  /\ cap' = NewCap
  /\ head' = (NewCap + NewHead - 1) % NewCap
  /\ buffer' = [NewBuf EXCEPT ![head'] = e]
  /\ tail' = NewTail
  /\ nonEmpty' = TRUE

AddLast(e) ==
  /\ NewCap <= MaxCap
  /\ cap' = NewCap
  /\ buffer' = [NewBuf EXCEPT ![NewTail] = e]
  /\ tail' = (NewTail + 1) % NewCap
  /\ head' = NewHead
  /\ nonEmpty' = TRUE

\* Removing from an empty buffer is a panic, and leaves it as it is.
RemoveFirst ==
  /\ RLen # 0
  /\ buffer' = [buffer EXCEPT ![head] = Nil]
  /\ head' = (head + 1) % cap
  /\ nonEmpty' = (head' # tail)
  /\ UNCHANGED <<cap, tail>>

RemoveLast ==
  /\ RLen # 0
  /\ tail' = (cap + tail - 1) % cap
  /\ buffer' = [buffer EXCEPT ![tail'] = Nil]
  /\ nonEmpty' = (tail' # head)
  /\ UNCHANGED <<cap, head>>

\* Fewer than the length is a panic; what fits changes nothing. grow panics
\* when the buffer is empty but has a capacity.
Reserve(n) ==
  /\ n > cap
  /\ Full \/ RLen >= ReserveFrom
  /\ RLen = 0 => cap = 0
  /\ buffer' = Moved(n)
  /\ cap' = n
  /\ head' = 0
  /\ tail' = cap
  /\ UNCHANGED nonEmpty

\* The places keep what they hold.
Reset ==
  /\ head' = 0
  /\ tail' = 0
  /\ nonEmpty' = FALSE
  /\ UNCHANGED <<buffer, cap>>

RingNext ==
  \/ \E e \in Elem : AddFirst(e) \/ AddLast(e)
  \/ RemoveFirst \/ RemoveLast \/ Reset
  \/ \E n \in 1 .. MaxCap : Reserve(n)

RingSpec == RingInit /\ [][RingNext]_ringVars
-----------------------------------------------------------------------------
\* The elements of the buffer, front to back.
Items == [i \in 1 .. RLen |-> Get(i - 1)]

\* Every operation does to the elements what it does to a deque, and the first
\* and the last one are found where head and tail are (ring_buffer.go 28-37,
\* 70-80).
D == INSTANCE Deque WITH items <- Items
IsDeque == D!Spec /\ [](nonEmpty => GetFirst = Items[1] /\ GetLast = Items[RLen])
=============================================================================

------------------------------- MODULE Deque -------------------------------
(***************************************************************************)
(* What ring.Buffer promises: a sequence that grows and shrinks at both    *)
(* ends by one element at a time, or is emptied.                           *)
(***************************************************************************)
EXTENDS Integers, Sequences

CONSTANT Elem
VARIABLE items

Init == items = <<>>

AddFirst    == \E e \in Elem : items' = <<e>> \o items
AddLast     == \E e \in Elem : items' = Append(items, e)
RemoveFirst == items # <<>> /\ items' = Tail(items)
RemoveLast  == items # <<>> /\ items' = SubSeq(items, 1, Len(items) - 1)
Reset       == items' = <<>>

Next == AddFirst \/ AddLast \/ RemoveFirst \/ RemoveLast \/ Reset

Spec == Init /\ [][Next]_items
=============================================================================

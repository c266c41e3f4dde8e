---------------------------- MODULE TokenStream ----------------------------
(***************************************************************************)
(* What a scanner promises its callers, whatever the lexical rules: an     *)
(* input of size characters is cut, from left to right, into nonempty      *)
(* disjoint spans, one per call.                                           *)
(***************************************************************************)
EXTENDS Integers, Sequences

VARIABLES
  size,    \* the size of the input
  at,      \* everything before this has been handed out or skipped
  spans,   \* the spans handed out
  open     \* the caller still asks for more

vars == <<size, at, spans, open>>

Init ==
  /\ size \in Nat
  /\ at = 0
  /\ spans = <<>>
  /\ open = TRUE

Cut(s, e) ==
  /\ spans' = Append(spans, [pos |-> s, end |-> e])
  /\ at' = e

\* One token, and the caller goes on or has what it wanted.
Emit ==
  /\ open
  /\ \E s \in at .. size - 1 : \E e \in s + 1 .. size : Cut(s, e)
  /\ open' \in BOOLEAN
  /\ UNCHANGED size

\* No further token.
Stop ==
  /\ open
  /\ open' = FALSE
  /\ UNCHANGED <<size, at, spans>>

Next == Emit \/ Stop

Spec == Init /\ [][Next]_vars
=============================================================================

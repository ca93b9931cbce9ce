---------------------------- MODULE BoundedQueue ----------------------------
(***************************************************************************)
(* What queue.h promises: a first-in first-out queue of bounded size with  *)
(* two ways to add.  A push to a full queue is refused, an overwriting     *)
(* push removes the oldest element first.  What a pop from an empty queue  *)
(* returns is not specified.                                               *)
(***************************************************************************)
EXTENDS Naturals, Sequences

CONSTANTS Capacity,   \* the size given to queue_init
          Value,      \* what is pushed
          Garbage     \* what a pop from an empty queue may return as well

VARIABLES kept,       \* the elements, oldest first
          popped      \* result of the last pop

vars == <<kept, popped>>

Init == kept = <<>> /\ popped \in Value \cup Garbage

Full == Len(kept) = Capacity

Push(value) ==
  /\ kept' = IF Full THEN kept ELSE Append(kept, value)
  /\ UNCHANGED popped

OverwritePush(value) ==
  /\ kept' = IF Full THEN Append(Tail(kept), value) ELSE Append(kept, value)
  /\ UNCHANGED popped

Pop == kept # <<>> /\ popped' = Head(kept) /\ kept' = Tail(kept)

PopNothing ==
  /\ kept = <<>>
  /\ popped' \in Value \cup Garbage
  /\ UNCHANGED kept

Next == \/ \E value \in Value : Push(value) \/ OverwritePush(value)
        \/ Pop \/ PopNothing

Spec == Init /\ [][Next]_vars
=============================================================================

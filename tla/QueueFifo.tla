----------------------------- MODULE QueueFifo -----------------------------
(***************************************************************************)
(* One queue of queue.c under any sequence of calls.  The program calls    *)
(* queues from the main loop only, never from the ISR, so each call is one *)
(* step.                                                                   *)
(***************************************************************************)
EXTENDS Queue, Sequences

CONSTANTS Size,    \* the argument of queue_init; 10 to 20000 in the code
          Value    \* the values pushed

ASSUME QueueFifoAssumption ==
  /\ Size \in Nat \ {0}
  /\ Value \subseteq Nat

VARIABLES q,       \* the queue_t
          popped   \* result of the last queue_pop

vars == <<q, popped>>

Init == q = queue_init(Size) /\ popped = EmptySlot

push(value) == q' = queue_push(q, value) /\ UNCHANGED popped

overwritePush(value) == q' = queue_overwritePush(q, value) /\ UNCHANGED popped

pop == q' = queue_pop(q) /\ popped' = queue_popValue(q)

Next == \/ \E value \in Value : push(value) \/ overwritePush(value)
        \/ pop

Spec == Init /\ [][Next]_vars
-----------------------------------------------------------------------------
Slot == 0 .. Size

TypeOK ==
  /\ q \in [indexIn : Slot, indexOut : Slot, elementCount : 0 .. Size,
            size : {Size + 1}, data : [Slot -> Value \cup {EmptySlot}]]
  /\ popped \in Value \cup {EmptySlot}

\* Elements between the two indices, counted the way the indices move.
Length == IF q.indexOut <= q.indexIn THEN q.indexIn - q.indexOut
                                     ELSE q.indexIn + q.size - q.indexOut

\* Three views of one queue agree: the counter kept beside the indices, the
\* distance of the indices, and the two tests. (queue.c:41-100)
CountsAgree ==
  /\ queue_elementCount(q) = Length
  /\ queueFull(q) <=> Length = Size
  /\ queue_empty(q) <=> Length = 0

\* What a reader sees through the access functions, index 0 first.
Contents == [k \in 1 .. queue_elementCount(q) |-> queue_readElementAt(q, k - 1)]

Bounded == INSTANCE BoundedQueue WITH Capacity <- Size, Garbage <- {EmptySlot},
                                      kept <- Contents

\* Read through queue_elementCount() and queue_readElementAt(), the queue is a
\* first-in first-out queue of exactly Size elements whose low indices are the
\* older ones: no element is lost, doubled or reordered at the seam, a refused
\* push changes nothing, and a pop from an empty queue neither. (queue.h:36-51)
ImplementsQueue == Bounded!Spec
=============================================================================

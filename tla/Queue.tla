------------------------------- MODULE Queue -------------------------------
(***************************************************************************)
(* The functions of queue.c as operators on a queue_t.  A function that    *)
(* changes *q is an operator that returns the new queue_t; queue_pop, which *)
(* also returns a value, is an operator for each of the two.  The queues   *)
(* here have been through queue_init: their storage has size slots.        *)
(***************************************************************************)
EXTENDS Integers

EmptySlot == -1     \* what queue_init leaves in every slot

\* One location more than was asked for tells a full queue from an empty one.
queue_init(size) ==
  [indexIn |-> 0, indexOut |-> 0, elementCount |-> 0, size |-> size + 1,
   data |-> [slot \in 0 .. size |-> EmptySlot]]

\* A slip: the case of an index at the end of the storage is forgotten.
queueFullWithoutWrap(q) == q.indexIn + 1 = q.indexOut

queueFull(q) == IF q.indexIn = q.size - 1 THEN q.indexOut = 0
                                          ELSE q.indexIn + 1 = q.indexOut

queue_empty(q) == q.indexIn = q.indexOut

queue_advancePtr(p, size) == IF p = size - 1 THEN 0 ELSE p + 1

queue_push(q, value) ==
  IF queueFull(q)
  THEN q
  ELSE [q EXCEPT !.data[q.indexIn] = value,
                 !.indexIn = queue_advancePtr(q.indexIn, q.size),
                 !.elementCount = @ + 1]

\* The value is read before the test: an empty queue gives what is in the slot.
queue_popValue(q) == q.data[q.indexOut]

queue_pop(q) ==
  IF queue_empty(q)
  THEN q
  ELSE [q EXCEPT !.indexOut = queue_advancePtr(q.indexOut, q.size),
                 !.elementCount = @ - 1]

queue_overwritePush(q, value) ==
  queue_push(IF queueFull(q) THEN queue_pop(q) ELSE q, value)

\* A slip: the index is taken from the start of the storage.
readFromStart(q, index) == q.data[index % q.size]

queue_readElementAt(q, index) == q.data[(index + q.indexOut) % q.size]

queue_elementCount(q) == q.elementCount
=============================================================================

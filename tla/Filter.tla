------------------------------- MODULE Filter -------------------------------
(***************************************************************************)
(* The computations of filter.c on the queues of queue.c.  The doubles of  *)
(* the code are integers here: sums are exact, and what is at stake is     *)
(* which element meets which coefficient and which elements are squared.   *)
(***************************************************************************)
EXTENDS Queue, Sums, FiniteSets

CONSTANTS firBcoeff,  \* coefficients by index, from 0
          iirAcoeff,  \* coefficients by filter number and index
          iirBcoeff,
          POWER_OUTPUT_QUEUE_SIZE  \* 20000 in the code

\* A slip: one push too few.
filledQueueShort(size, value, times) ==
  LET pushed[n \in 0 .. times * size] ==
        IF n = 0 THEN queue_init(size) ELSE queue_overwritePush(pushed[n - 1], value)
  IN pushed[times * size - 1]

\* queue_init and a push for each place, as initXQueue() and its like do, or
\* two pushes for each, as filter_runTestDJs() does.
filledQueue(size, value, times) ==
  LET pushed[n \in 0 .. times * size] ==
        IF n = 0 THEN queue_init(size) ELSE queue_overwritePush(pushed[n - 1], value)
  IN pushed[times * size]

FIR_COEF_COUNT == Cardinality(DOMAIN firBcoeff)
IIR_A_COEFFICIENT_COUNT == Cardinality(DOMAIN iirAcoeff[0])
IIR_B_COEFFICIENT_COUNT == Cardinality(DOMAIN iirBcoeff[0])

\* A slip: the oldest element meets the first coefficient.
weighInOrder(q, coeff, count) ==
  total([i \in 0 .. count - 1 |-> queue_readElementAt(q, i) * coeff[i]], count)

\* for (i = 0; i < count; i++) sum += readElementAt(q, i) * coeff[count-1-i]
weigh(q, coeff, count) ==
  total([i \in 0 .. count - 1 |->
           queue_readElementAt(q, i) * coeff[count - 1 - i]], count)

firOutput(xQueue) == weigh(xQueue, firBcoeff, FIR_COEF_COUNT)

iirOutput(yQueue, zQueue, filterNumber) ==
  weigh(yQueue, iirBcoeff[filterNumber], IIR_B_COEFFICIENT_COUNT)
    - weigh(zQueue, iirAcoeff[filterNumber], IIR_A_COEFFICIENT_COUNT)

\* A queue that was never initialised: static storage, no memory.
NoQueue == [indexIn |-> 0, indexOut |-> 0, elementCount |-> 0, size |-> 0,
            data |-> [slot \in {} |-> EmptySlot]]
hasStorage(q) == q.size # 0

\* Pushing to one writes through the null pointer.
powerPush(q, z) == IF hasStorage(q) THEN queue_overwritePush(q, z) ELSE q

\* filter_computePower, not from scratch: after the push, the newest element comes in
\* and the oldest, which is still in the queue, goes out.
nextPower(q, power) ==
  LET newest == queue_readElementAt(q, POWER_OUTPUT_QUEUE_SIZE - 1)
      oldest == queue_readElementAt(q, 0)
  IN power + newest * newest - oldest * oldest
=============================================================================

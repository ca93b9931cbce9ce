-------------------------- MODULE FilterChain_proofs --------------------------
(***************************************************************************)
(* Theorems about the way from a sample to a hit, for filters of any       *)
(* length, any coefficients, decimation factor, number of channels, size   *)
(* of the power queues and number of samples.                              *)
(*                                                                         *)
(* What a loop over an array or over pushes computes is proved by          *)
(* induction on its turns.  The library's induction theorems take the      *)
(* claim as an operator; the lemma Induction below takes the set of the    *)
(* numbers it is true of, and comes from the well-founded order of Nat.    *)
(***************************************************************************)
EXTENDS FilterChain, Detector_proofs, WellFoundedInduction

\* Every set of naturals has a least element.
LEMMA LeastElement ==
  ASSUME NEW T, T \subseteq Nat, T # {}
  PROVE  \E x \in T : \A y \in T : x <= y
<1>1. PICK x \in T : \A y \in T : ~(<<y, x>> \in OpToRel(<, Nat))
  BY WFMin, NatLessThanWellFounded
<1>2. \A y \in T : y < x => <<y, x>> \in OpToRel(<, Nat)
  BY DEF OpToRel
<1>3. \A y \in T : ~(y < x)
  BY <1>1, <1>2, Zenon
<1>4. QED BY <1>3

\* Induction, about the set of the numbers a claim is true of.
LEMMA Induction ==
  ASSUME NEW S, 0 \in S, \A n \in Nat : n \in S => n + 1 \in S
  PROVE  \A n \in Nat : n \in S
<1>1. SUFFICES ASSUME Nat \ S # {} PROVE FALSE
  OBVIOUS
<1>2. PICK x \in Nat \ S : \A y \in Nat \ S : x <= y
  BY <1>1, LeastElement
<1>3. x - 1 \in Nat /\ x - 1 \notin Nat \ S
  BY <1>2
<1>4. QED BY <1>2, <1>3

-----------------------------------------------------------------------------
\* What the loop has summed up before each of its turns.
IsSum(f, term, m) ==
  f = [n \in 0 .. m |-> IF n = 0 THEN 0 ELSE f[n - 1] + term[n - 1]]

\* There is such a function, and it is the same up to any number of turns.
LEMMA SumExists ==
  ASSUME NEW term
  PROVE \A m \in Nat : \E f : IsSum(f, term, m)
<1> DEFINE S == {m \in Nat : \E f : IsSum(f, term, m)}
<1>1. 0 \in S
  <2> DEFINE f == [n \in 0 .. 0 |-> 0]
  <2>1. IsSum(f, term, 0)
    BY DEF IsSum
  <2>2. QED BY <2>1
<1>2. ASSUME NEW m \in Nat, m \in S PROVE m + 1 \in S
  <2>1. PICK f : IsSum(f, term, m)
    BY <1>2
  <2> DEFINE g == [n \in 0 .. m + 1 |-> IF n <= m THEN f[n] ELSE f[m] + term[m]]
  <2>2. ASSUME NEW n \in 0 .. m + 1
        PROVE g[n] = IF n = 0 THEN 0 ELSE g[n - 1] + term[n - 1]
    <3>1. CASE n <= m
      BY <2>1, <3>1 DEF IsSum
    <3>2. CASE n = m + 1
      BY <3>2
    <3>3. QED BY <3>1, <3>2
  <2>3. IsSum(g, term, m + 1)
    BY <2>2, Zenon DEF IsSum
  <2>4. QED BY <2>3
<1> HIDE DEF S
<1>3. \A m \in Nat : m \in S
  BY <1>1, <1>2, Induction
<1>4. QED BY <1>3 DEF S

LEMMA SumUnique ==
  ASSUME NEW term, NEW m \in Nat, NEW k \in Nat, NEW f, NEW g,
         IsSum(f, term, m), IsSum(g, term, k)
  PROVE \A n \in Nat : n <= m /\ n <= k => f[n] = g[n]
<1> DEFINE S == {n \in Nat : n <= m /\ n <= k => f[n] = g[n]}
<1>1. 0 \in S
  BY DEF IsSum
<1>2. ASSUME NEW n \in Nat, n \in S PROVE n + 1 \in S
  <2> SUFFICES ASSUME n + 1 <= m, n + 1 <= k PROVE f[n + 1] = g[n + 1]
    OBVIOUS
  <2>1. f[n] = g[n]
    BY <1>2
  <2>2. f[n + 1] = f[n] + term[n] /\ g[n + 1] = g[n] + term[n]
    BY DEF IsSum
  <2>3. QED BY <2>1, <2>2
<1> HIDE DEF S
<1>3. \A n \in Nat : n \in S
  BY <1>1, <1>2, Induction
<1>4. QED BY <1>3 DEF S

LEMMA TotalIsSum ==
  ASSUME NEW term, NEW m \in Nat
  PROVE \E f : IsSum(f, term, m) /\ total(term, m) = f[m]
<1> DEFINE f == CHOOSE g : IsSum(g, term, m)
<1>1. IsSum(f, term, m)
  BY SumExists, Zenon
<1>2. total(term, m) = f[m]
  BY Zenon DEF total, IsSum
<1>3. QED BY <1>1, <1>2

\* The recursion the lemmas below go by.
LEMMA TotalStep ==
  ASSUME NEW term
  PROVE /\ total(term, 0) = 0
        /\ \A n \in Nat : total(term, n + 1) = total(term, n) + term[n]
<1>1. total(term, 0) = 0
  <2>1. PICK f : IsSum(f, term, 0) /\ total(term, 0) = f[0]
    BY TotalIsSum
  <2>2. QED BY <2>1 DEF IsSum
<1>2. ASSUME NEW n \in Nat
      PROVE total(term, n + 1) = total(term, n) + term[n]
  <2>1. PICK f : IsSum(f, term, n) /\ total(term, n) = f[n]
    BY TotalIsSum
  <2>2. PICK g : IsSum(g, term, n + 1) /\ total(term, n + 1) = g[n + 1]
    BY TotalIsSum
  <2>3. g[n] = f[n]
    BY <2>1, <2>2, SumUnique
  <2>4. g[n + 1] = g[n] + term[n]
    BY <2>2 DEF IsSum
  <2>5. QED BY <2>1, <2>2, <2>3, <2>4
<1>3. QED BY <1>1, <1>2

LEMMA TotalType ==
  ASSUME NEW term, NEW count \in Nat, \A k \in 0 .. count - 1 : term[k] \in Int
  PROVE \A n \in 0 .. count : total(term, n) \in Int
<1> DEFINE S == {n \in Nat : n <= count => total(term, n) \in Int}
<1>1. 0 \in S
  BY TotalStep
<1>2. ASSUME NEW n \in Nat, n \in S PROVE n + 1 \in S
  <2>1. total(term, n + 1) = total(term, n) + term[n]
    BY TotalStep
  <2>2. QED BY <1>2, <2>1
<1> HIDE DEF S
<1>3. \A n \in Nat : n \in S
  BY <1>1, <1>2, Induction
<1>4. QED BY <1>3 DEF S

\* Only the terms added count.
LEMMA TotalSame ==
  ASSUME NEW f, NEW g, NEW count \in Nat, \A k \in 0 .. count - 1 : f[k] = g[k]
  PROVE total(f, count) = total(g, count)
<1> DEFINE S == {n \in Nat : n <= count => total(f, n) = total(g, n)}
<1>1. 0 \in S
  BY TotalStep
<1>2. ASSUME NEW n \in Nat, n \in S PROVE n + 1 \in S
  <2>1. /\ total(f, n + 1) = total(f, n) + f[n]
        /\ total(g, n + 1) = total(g, n) + g[n]
    BY TotalStep
  <2>2. QED BY <1>2, <2>1
<1> HIDE DEF S
<1>3. \A n \in Nat : n \in S
  BY <1>1, <1>2, Induction
<1>4. QED BY <1>3 DEF S

\* Summing from the other end.
LEMMA TotalReversed ==
  ASSUME NEW f, NEW g, NEW count \in Nat,
         \A k \in 0 .. count - 1 : f[k] \in Int /\ g[k] = f[count - 1 - k]
  PROVE total(g, count) = total(f, count)
<1> DEFINE S == {n \in Nat : n <= count =>
                   total(g, n) + total(f, count - n) = total(f, count)}
<1>1. \A n \in 0 .. count : total(f, n) \in Int
  BY TotalType
<1>2. \A n \in 0 .. count : total(g, n) \in Int
  <2>1. \A k \in 0 .. count - 1 : g[k] \in Int
    OBVIOUS
  <2>2. QED BY <2>1, TotalType
<1>3. 0 \in S
  BY TotalStep, <1>1
<1>4. ASSUME NEW n \in Nat, n \in S PROVE n + 1 \in S
  <2> SUFFICES ASSUME n + 1 <= count
               PROVE total(g, n + 1) + total(f, count - (n + 1)) = total(f, count)
    OBVIOUS
  <2> DEFINE rest == count - (n + 1)
  <2>1. rest \in Nat /\ rest + 1 = count - n
    OBVIOUS
  <2>2. total(g, n + 1) = total(g, n) + g[n]
    BY TotalStep
  <2>3. total(f, rest + 1) = total(f, rest) + f[rest]
    BY <2>1, TotalStep
  <2>4. g[n] = f[rest] /\ f[rest] \in Int
    BY <2>1
  <2>5. total(g, n) + total(f, rest + 1) = total(f, count)
    BY <1>4, <2>1
  <2>6. /\ total(g, n) \in Int /\ total(f, rest) \in Int /\ total(f, count) \in Int
    BY <1>1, <1>2
  <2> HIDE DEF rest
  <2>7. total(g, n + 1) + total(f, rest) = total(f, count)
    BY <2>2, <2>3, <2>4, <2>5, <2>6
  <2>8. QED BY <2>7 DEF rest
<1> HIDE DEF S
<1>5. \A n \in Nat : n \in S
  BY <1>3, <1>4, Induction
<1>6. total(g, count) + total(f, 0) = total(f, count)
  BY <1>5 DEF S
<1>7. QED BY <1>1, <1>2, <1>6, TotalStep

\* Taking the first term off.
LEMMA TotalShifted ==
  ASSUME NEW f, NEW g, NEW count \in Nat,
         \A k \in 0 .. count : f[k] \in Int,
         \A k \in 0 .. count - 1 : g[k] = f[k + 1]
  PROVE total(f, count + 1) = f[0] + total(g, count)
<1> DEFINE S == {n \in Nat : n <= count => total(f, n + 1) = f[0] + total(g, n)}
<1>1. \A n \in 0 .. count : total(g, n) \in Int
  <2>1. \A k \in 0 .. count - 1 : g[k] \in Int
    OBVIOUS
  <2>2. QED BY <2>1, TotalType
<1>2. 0 \in S
  BY TotalStep
<1>3. ASSUME NEW n \in Nat, n \in S PROVE n + 1 \in S
  <2> SUFFICES ASSUME n + 1 <= count
               PROVE total(f, n + 1 + 1) = f[0] + total(g, n + 1)
    OBVIOUS
  <2>1. /\ total(f, n + 1 + 1) = total(f, n + 1) + f[n + 1]
        /\ total(g, n + 1) = total(g, n) + g[n]
    BY TotalStep
  <2>2. total(f, n + 1) = f[0] + total(g, n) /\ g[n] = f[n + 1]
    BY <1>3
  <2>3. /\ f[0] \in Int /\ f[n + 1] \in Int /\ total(g, n) \in Int
    BY <1>1
  <2>4. QED BY <2>1, <2>2, <2>3
<1> HIDE DEF S
<1>4. \A n \in Nat : n \in S
  BY <1>2, <1>3, Induction
<1>5. QED BY <1>4 DEF S

-----------------------------------------------------------------------------
(* The operations of Queue on a queue_t given by its fields.  (The provers  *)
(* take an update of a record apart when its type says what the fields are.) *)

QueueIs(q, in, out, count, size, data) ==
  q \in [indexIn : {in}, indexOut : {out}, elementCount : {count}, size : {size},
         data : {data}]

LEMMA QueueFields ==
  ASSUME NEW q, NEW in, NEW out, NEW count, NEW size, NEW data
  PROVE /\ QueueIs(q, in, out, count, size, data) <=>
             q = [indexIn |-> in, indexOut |-> out, elementCount |-> count,
                  size |-> size, data |-> data]
        /\ QueueIs(q, in, out, count, size, data) =>
             /\ q.indexIn = in /\ q.indexOut = out /\ q.elementCount = count
             /\ q.size = size /\ q.data = data
BY DEF QueueIs

LEMMA PushWithRoom ==
  ASSUME NEW q, NEW in, NEW out, NEW count, NEW size, NEW data, NEW value,
         QueueIs(q, in, out, count, size, data), ~queueFull(q)
  PROVE QueueIs(queue_push(q, value), queue_advancePtr(in, size), out, count + 1,
                size, [data EXCEPT ![in] = value])
<1> DEFINE next == queue_advancePtr(in, size)
<1>1. queue_push(q, value) =
        [q EXCEPT !.data[in] = value, !.indexIn = next, !.elementCount = count + 1]
  BY QueueFields DEF queue_push
<1>2. q \in [indexIn : {in}, indexOut : {out}, elementCount : {count}, size : {size},
             data : {data}]
  BY DEF QueueIs
<1> HIDE DEF next
<1>3. [q EXCEPT !.data[in] = value, !.indexIn = next, !.elementCount = count + 1]
        \in [indexIn : {next}, indexOut : {out}, elementCount : {count + 1},
             size : {size}, data : {[data EXCEPT ![in] = value]}]
  BY <1>2
<1>4. QED BY <1>1, <1>3 DEF QueueIs, next

LEMMA PopOfSome ==
  ASSUME NEW q, NEW in, NEW out, NEW count, NEW size, NEW data,
         QueueIs(q, in, out, count, size, data), ~queue_empty(q)
  PROVE QueueIs(queue_pop(q), in, queue_advancePtr(out, size), count - 1, size, data)
<1> DEFINE next == queue_advancePtr(out, size)
<1>1. queue_pop(q) = [q EXCEPT !.indexOut = next, !.elementCount = count - 1]
  BY QueueFields DEF queue_pop
<1>2. q \in [indexIn : {in}, indexOut : {out}, elementCount : {count}, size : {size},
             data : {data}]
  BY DEF QueueIs
<1> HIDE DEF next
<1>3. [q EXCEPT !.indexOut = next, !.elementCount = count - 1]
        \in [indexIn : {in}, indexOut : {next}, elementCount : {count - 1},
             size : {size}, data : {data}]
  BY <1>2
<1>4. QED BY <1>1, <1>3 DEF QueueIs, next
-----------------------------------------------------------------------------
(* Full queues.                                                             *)

\* A queue_t of n places, all taken: the out index is one place further than
\* the in index.
FullQueue(q, n) ==
  /\ q \in QueueOf(n)
  /\ q.indexOut = IF q.indexIn = n THEN 0 ELSE q.indexIn + 1

LEMMA FullQueueFields ==
  ASSUME NEW n \in Nat \ {0}, NEW q, FullQueue(q, n)
  PROVE /\ q.indexIn \in 0 .. n /\ q.indexOut \in 0 .. n
        /\ q.elementCount = n /\ q.size = n + 1
        /\ q.data \in [0 .. n -> Int]
        /\ QueueIs(q, q.indexIn, q.indexOut, n, n + 1, q.data)
BY DEF FullQueue, QueueOf, QueueIs

\* The slot of an element without %.
LEMMA SlotOfElement ==
  ASSUME NEW n \in Nat \ {0}, NEW out \in 0 .. n, NEW i \in 0 .. n
  PROVE (i + out) % (n + 1) = IF i + out <= n THEN i + out ELSE i + out - (n + 1)
OBVIOUS

LEMMA FullQueueRead ==
  ASSUME NEW n \in Nat \ {0}, NEW q, FullQueue(q, n), NEW i \in 0 .. n
  PROVE /\ queue_readElementAt(q, i) =
             q.data[IF i + q.indexOut <= n THEN i + q.indexOut
                                           ELSE i + q.indexOut - (n + 1)]
        /\ queue_readElementAt(q, i) \in Int
<1>1. /\ q.indexOut \in 0 .. n /\ q.size = n + 1 /\ q.data \in [0 .. n -> Int]
  BY FullQueueFields
<1>2. (i + q.indexOut) % (n + 1) = IF i + q.indexOut <= n THEN i + q.indexOut
                                   ELSE i + q.indexOut - (n + 1)
  BY <1>1, SlotOfElement
<1>3. (IF i + q.indexOut <= n THEN i + q.indexOut ELSE i + q.indexOut - (n + 1)) \in 0 .. n
  BY <1>1
<1>4. QED BY <1>1, <1>2, <1>3 DEF queue_readElementAt

\* What the two steps of queue_overwritePush make of a full queue.
LEMMA FullQueueOverwritten ==
  ASSUME NEW n \in Nat \ {0}, NEW q, FullQueue(q, n), NEW value
  PROVE QueueIs(queue_overwritePush(q, value),
                q.indexOut, IF q.indexOut = n THEN 0 ELSE q.indexOut + 1, n, n + 1,
                [q.data EXCEPT ![q.indexIn] = value])
<1> DEFINE in == q.indexIn
           out == IF q.indexOut = n THEN 0 ELSE q.indexOut + 1
           p == queue_pop(q)
<1>1. /\ in \in 0 .. n /\ q.indexOut \in 0 .. n /\ q.size = n + 1
      /\ QueueIs(q, in, q.indexOut, n, n + 1, q.data)
      /\ q.indexOut = IF in = n THEN 0 ELSE in + 1
  BY FullQueueFields DEF FullQueue
<1>2. queueFull(q) /\ ~queue_empty(q)
  BY <1>1 DEF queueFull, queue_empty
<1>3. /\ queue_advancePtr(q.indexOut, n + 1) = out
      /\ queue_advancePtr(in, n + 1) = q.indexOut
  BY <1>1 DEF queue_advancePtr
<1>4. QueueIs(p, in, out, n - 1, n + 1, q.data)
  BY <1>1, <1>2, <1>3, PopOfSome
<1>5. p.indexIn = in /\ p.indexOut = out /\ p.size = n + 1
  BY <1>4, QueueFields
<1>6. ~queueFull(p)
  BY <1>1, <1>5 DEF queueFull
<1>7. QueueIs(queue_push(p, value), q.indexOut, out, n - 1 + 1, n + 1,
              [q.data EXCEPT ![in] = value])
  BY <1>3, <1>4, <1>6, PushWithRoom
<1>8. queue_overwritePush(q, value) = queue_push(p, value)
  BY <1>2 DEF queue_overwritePush
<1>9. n - 1 + 1 = n
  OBVIOUS
<1>10. QED BY <1>7, <1>8, <1>9

\* The place of an element counted from an index, and the index after another.
SlotFrom(i, out, n) == IF i + out <= n THEN i + out ELSE i + out - (n + 1)
After(p, n) == IF p = n THEN 0 ELSE p + 1

\* After a push to a full queue the newest element is in the slot of the in
\* index, and the others are where the next ones were counted before.
LEMMA SlotAfterPush ==
  ASSUME NEW n \in Nat \ {0}, NEW in \in 0 .. n, NEW i \in 0 .. n - 1
  PROVE /\ SlotFrom(i, After(After(in, n), n), n) \in 0 .. n
        /\ SlotFrom(i, After(After(in, n), n), n) = in <=> i = n - 1
        /\ i < n - 1 => SlotFrom(i, After(After(in, n), n), n)
                          = SlotFrom(i + 1, After(in, n), n)
<1>1. CASE in = n
  BY <1>1 DEF After, SlotFrom
<1>2. CASE in = n - 1
  BY <1>2 DEF After, SlotFrom
<1>3. CASE in < n - 1
  BY <1>3 DEF After, SlotFrom
<1>4. QED BY <1>1, <1>2, <1>3

\* A push to a full queue moves every element one place down.
LEMMA FullQueuePush ==
  ASSUME NEW n \in Nat \ {0}, NEW q, FullQueue(q, n), NEW value \in Int,
         NEW s, s = queue_overwritePush(q, value)
  PROVE /\ FullQueue(s, n)
        /\ queue_readElementAt(s, n - 1) = value
        /\ \A i \in 0 .. n - 2 : queue_readElementAt(s, i) = queue_readElementAt(q, i + 1)
<1>1. /\ q.indexIn \in 0 .. n /\ q.indexOut \in 0 .. n /\ q.data \in [0 .. n -> Int]
      /\ q.indexOut = IF q.indexIn = n THEN 0 ELSE q.indexIn + 1
  BY FullQueueFields DEF FullQueue
<1>2. QueueIs(s, q.indexOut, IF q.indexOut = n THEN 0 ELSE q.indexOut + 1, n, n + 1,
              [q.data EXCEPT ![q.indexIn] = value])
  BY FullQueueOverwritten
<1>3. /\ s.indexIn = q.indexOut
      /\ s.indexOut = IF q.indexOut = n THEN 0 ELSE q.indexOut + 1
      /\ s.data = [q.data EXCEPT ![q.indexIn] = value]
  BY <1>2, QueueFields
<1>4. FullQueue(s, n)
  <2> DEFINE out == IF q.indexOut = n THEN 0 ELSE q.indexOut + 1
             data == [q.data EXCEPT ![q.indexIn] = value]
  <2>1. data \in [0 .. n -> Int] /\ out \in 0 .. n
    BY <1>1
  <2>2. QueueIs(s, q.indexOut, out, n, n + 1, data)
    BY <1>2
  <2> HIDE DEF out, data
  <2>3. s \in QueueOf(n)
    BY <1>1, <2>1, <2>2 DEF QueueIs, QueueOf
  <2>4. QED BY <1>1, <1>3, <2>3 DEF FullQueue
<1>5. ASSUME NEW i \in 0 .. n - 1
      PROVE queue_readElementAt(s, i) =
              IF i = n - 1 THEN value ELSE queue_readElementAt(q, i + 1)
  <2> DEFINE slot == SlotFrom(i, s.indexOut, n)
             moved == SlotFrom(i + 1, q.indexOut, n)
  <2>1. queue_readElementAt(s, i) = s.data[slot]
    BY <1>4, FullQueueRead DEF SlotFrom
  <2>2. queue_readElementAt(q, i + 1) = q.data[moved]
    BY FullQueueRead DEF SlotFrom
  <2>3. q.indexOut = After(q.indexIn, n) /\ s.indexOut = After(q.indexOut, n)
    BY <1>1, <1>3 DEF After
  <2>4. /\ slot \in 0 .. n
        /\ slot = q.indexIn <=> i = n - 1
        /\ i < n - 1 => slot = moved
    <3> DEFINE in == q.indexIn
    <3>1. in \in 0 .. n
      BY <1>1
    <3>2. slot = SlotFrom(i, After(After(in, n), n), n) /\ moved = SlotFrom(i + 1, After(in, n), n)
      BY <2>3, Zenon
    <3> HIDE DEF in, slot, moved
    <3>3. QED BY <3>1, <3>2, SlotAfterPush DEF in
  <2> HIDE DEF slot, moved
  <2>5. s.data[slot] = IF slot = q.indexIn THEN value ELSE q.data[slot]
    BY <1>1, <1>3, <2>4
  <2>6. QED BY <2>1, <2>2, <2>4, <2>5
<1>6. QED BY <1>4, <1>5
-----------------------------------------------------------------------------
(* Queues filled by pushes.                                                 *)

\* The queue after n <= 2 * size pushes of value.
FilledIn(size, n) == IF n <= size THEN n ELSE n - size - 1
FilledData(size, value, n) ==
  [slot \in 0 .. size |-> IF slot < n THEN value ELSE EmptySlot]
Filled(size, value, n) ==
  [indexIn |-> FilledIn(size, n), indexOut |-> IF n <= size THEN 0 ELSE n - size,
   elementCount |-> IF n <= size THEN n ELSE size, size |-> size + 1,
   data |-> FilledData(size, value, n)]

LEMMA FilledFull ==
  ASSUME NEW size \in Nat \ {0}, NEW value \in Int, NEW n \in size .. 2 * size
  PROVE /\ FullQueue(Filled(size, value, n), size)
        /\ \A i \in 0 .. size - 1 : queue_readElementAt(Filled(size, value, n), i) = value
<1> DEFINE q == Filled(size, value, n)
<1>1. FullQueue(q, size)
  BY DEF FullQueue, QueueOf, Filled, FilledIn, FilledData, EmptySlot
<1>2. ASSUME NEW i \in 0 .. size - 1 PROVE queue_readElementAt(q, i) = value
  <2> DEFINE slot == IF i + q.indexOut <= size THEN i + q.indexOut
                                               ELSE i + q.indexOut - (size + 1)
  <2>1. queue_readElementAt(q, i) = q.data[slot]
    BY <1>1, FullQueueRead
  <2>2. /\ q.indexOut = IF n <= size THEN 0 ELSE n - size
        /\ q.data = [k \in 0 .. size |-> IF k < n THEN value ELSE EmptySlot]
    BY DEF Filled, FilledData
  <2>3. slot \in 0 .. size /\ slot < n
    BY <2>2
  <2> HIDE DEF slot, q
  <2>4. QED BY <2>1, <2>2, <2>3
<1>3. QED BY <1>1, <1>2

\* What one more push does to the storage: one slot written, or, once all of
\* them are, one written again.
LEMMA FilledSlots ==
  ASSUME NEW size \in Nat \ {0}, NEW value \in Int, NEW n \in 0 .. 2 * size - 1
  PROVE [FilledData(size, value, n) EXCEPT ![FilledIn(size, n)] = value]
          = FilledData(size, value, n + 1)
<1> DEFINE in == FilledIn(size, n)
           data == FilledData(size, value, n)
<1>1. in \in 0 .. size /\ (in = n \/ n > size)
  BY DEF FilledIn
<1>2. data = [slot \in 0 .. size |-> IF slot < n THEN value ELSE EmptySlot]
  BY DEF FilledData
<1> HIDE DEF in, data
<1>3. ASSUME NEW slot \in 0 .. size
      PROVE [data EXCEPT ![in] = value][slot] = IF slot < n + 1 THEN value ELSE EmptySlot
  <2>1. CASE slot = in
    BY <1>1, <1>2, <2>1
  <2>2. CASE slot # in
    <3>1. [data EXCEPT ![in] = value][slot] = IF slot < n THEN value ELSE EmptySlot
      BY <1>2, <2>2
    <3>2. slot < n <=> slot < n + 1
      BY <1>1, <2>2
    <3>3. QED BY <3>1, <3>2
  <2>3. QED BY <2>1, <2>2
<1>4. [data EXCEPT ![in] = value]
        = [slot \in 0 .. size |-> [data EXCEPT ![in] = value][slot]]
  BY <1>2
<1>5. [data EXCEPT ![in] = value] = FilledData(size, value, n + 1)
  BY <1>3, <1>4, Zenon DEF FilledData
<1>6. QED BY <1>5 DEF in, data

\* One more push.
LEMMA FilledStep ==
  ASSUME NEW size \in Nat \ {0}, NEW value \in Int, NEW n \in 0 .. 2 * size - 1
  PROVE queue_overwritePush(Filled(size, value, n), value) = Filled(size, value, n + 1)
<1> DEFINE q == Filled(size, value, n)
           in == FilledIn(size, n)
           data == FilledData(size, value, n)
<1>1. QueueIs(q, in, IF n <= size THEN 0 ELSE n - size, IF n <= size THEN n ELSE size,
              size + 1, data)
  BY QueueFields DEF Filled
<1>2. [data EXCEPT ![in] = value] = FilledData(size, value, n + 1)
  BY FilledSlots
<1> HIDE DEF q, in, data
<1>3. CASE n < size
  <2>1. in = n /\ FilledIn(size, n + 1) = n + 1
    BY <1>3 DEF in, FilledIn
  <2>2. QueueIs(q, in, 0, n, size + 1, data)
    BY <1>1, <1>3
  <2>3. q.indexIn = n /\ q.indexOut = 0 /\ q.size = size + 1
    BY <2>1, <2>2, QueueFields
  <2>4. ~queueFull(q) /\ queue_advancePtr(in, size + 1) = n + 1
    BY <1>3, <2>1, <2>3 DEF queueFull, queue_advancePtr
  <2>5. QueueIs(queue_push(q, value), n + 1, 0, n + 1, size + 1,
                FilledData(size, value, n + 1))
    BY <1>2, <2>2, <2>4, PushWithRoom
  <2>6. queue_overwritePush(q, value) = queue_push(q, value)
    BY <2>4 DEF queue_overwritePush
  <2>7. Filled(size, value, n + 1) =
          [indexIn |-> n + 1, indexOut |-> 0, elementCount |-> n + 1, size |-> size + 1,
           data |-> FilledData(size, value, n + 1)]
    BY <1>3, <2>1 DEF Filled
  <2>8. QED BY <2>5, <2>6, <2>7, QueueFields DEF q
<1>4. CASE n >= size
  <2>1. n \in size .. 2 * size
    BY <1>4
  <2>2. FullQueue(q, size)
    BY <2>1, FilledFull DEF q
  <2>3. q.indexIn = in /\ q.indexOut = n - size /\ q.data = data
    BY <1>1, <1>4, QueueFields
  <2>4. QueueIs(queue_overwritePush(q, value),
                q.indexOut, IF q.indexOut = size THEN 0 ELSE q.indexOut + 1,
                size, size + 1, FilledData(size, value, n + 1))
    BY <1>2, <2>2, <2>3, FullQueueOverwritten
  <2>5. /\ q.indexOut = FilledIn(size, n + 1)
        /\ (IF q.indexOut = size THEN 0 ELSE q.indexOut + 1) = n + 1 - size
    BY <1>4, <2>3 DEF FilledIn
  <2>6. QueueIs(queue_overwritePush(q, value), FilledIn(size, n + 1), n + 1 - size,
                size, size + 1, FilledData(size, value, n + 1))
    BY <2>4, <2>5
  <2>7. Filled(size, value, n + 1) =
          [indexIn |-> FilledIn(size, n + 1), indexOut |-> n + 1 - size,
           elementCount |-> size, size |-> size + 1,
           data |-> FilledData(size, value, n + 1)]
    BY <1>4 DEF Filled
  <2>8. QED BY <2>6, <2>7, QueueFields DEF q
<1>5. QED BY <1>3, <1>4

\* The function of filledQueue: the queue after each push.
IsPushed(g, size, value, m) ==
  g = [n \in 0 .. m |-> IF n = 0 THEN queue_init(size)
                        ELSE queue_overwritePush(g[n - 1], value)]

LEMMA PushedIsFilled ==
  ASSUME NEW size \in Nat \ {0}, NEW value \in Int, NEW m \in 0 .. 2 * size
  PROVE /\ \E g : IsPushed(g, size, value, m)
        /\ \A g : IsPushed(g, size, value, m) => g[m] = Filled(size, value, m)
<1>1. queue_init(size) = Filled(size, value, 0)
  BY DEF queue_init, Filled, FilledIn, FilledData
<1>2. \E g : IsPushed(g, size, value, m)
  <2> DEFINE g == [n \in 0 .. m |-> Filled(size, value, n)]
  <2>1. ASSUME NEW n \in 0 .. m
        PROVE Filled(size, value, n) =
                IF n = 0 THEN queue_init(size) ELSE queue_overwritePush(g[n - 1], value)
    <3>1. CASE n = 0
      BY <1>1, <3>1
    <3>2. CASE n # 0
      <4>1. n - 1 \in 0 .. m /\ n - 1 \in 0 .. 2 * size - 1
        BY <3>2
      <4>2. g[n - 1] = Filled(size, value, n - 1)
        BY <4>1
      <4>3. queue_overwritePush(Filled(size, value, n - 1), value)
              = Filled(size, value, n - 1 + 1)
        BY <4>1, FilledStep
      <4>4. n - 1 + 1 = n
        OBVIOUS
      <4>5. QED BY <3>2, <4>2, <4>3, <4>4, Zenon
    <3>3. QED BY <3>1, <3>2
  <2>2. IsPushed(g, size, value, m)
    BY <2>1, Zenon DEF IsPushed
  <2>3. QED BY <2>2
<1>3. ASSUME NEW g, IsPushed(g, size, value, m) PROVE g[m] = Filled(size, value, m)
  <2> DEFINE S == {n \in Nat : n <= m => g[n] = Filled(size, value, n)}
  <2>1. 0 \in S
    BY <1>1, <1>3 DEF IsPushed
  <2>2. ASSUME NEW n \in Nat, n \in S PROVE n + 1 \in S
    <3> SUFFICES ASSUME n + 1 <= m PROVE g[n + 1] = Filled(size, value, n + 1)
      OBVIOUS
    <3>1. g[n] = Filled(size, value, n)
      BY <2>2
    <3>2. g[n + 1] = queue_overwritePush(g[n], value)
      BY <1>3 DEF IsPushed
    <3>3. n \in 0 .. 2 * size - 1
      OBVIOUS
    <3>4. QED BY <3>1, <3>2, <3>3, FilledStep
  <2> HIDE DEF S
  <2>3. \A n \in Nat : n \in S
    BY <2>1, <2>2, Induction
  <2>4. QED BY <2>3 DEF S
<1>4. QED BY <1>2, <1>3

\* initXQueue() and its like, and the double fill of filter_runTestDJs(), leave
\* a full queue that reads as the value everywhere.
LEMMA FilledQueueFull ==
  ASSUME NEW size \in Nat \ {0}, NEW value \in Int, NEW times \in {1, 2}
  PROVE /\ FullQueue(filledQueue(size, value, times), size)
        /\ \A i \in 0 .. size - 1 :
             queue_readElementAt(filledQueue(size, value, times), i) = value
<1> DEFINE m == times * size
           g == CHOOSE f : IsPushed(f, size, value, m)
<1>1. m \in 0 .. 2 * size /\ m \in size .. 2 * size
  OBVIOUS
<1>2. filledQueue(size, value, times) = g[m]
  BY Zenon DEF filledQueue, IsPushed
<1> HIDE DEF m
<1>3. IsPushed(g, size, value, m)
  BY <1>1, PushedIsFilled, Zenon
<1>4. g[m] = Filled(size, value, m)
  BY <1>1, <1>3, PushedIsFilled, Zenon
<1>5. /\ FullQueue(Filled(size, value, m), size)
      /\ \A i \in 0 .. size - 1 : queue_readElementAt(Filled(size, value, m), i) = value
  BY <1>1, FilledFull
<1>6. filledQueue(size, value, times) = Filled(size, value, m)
  BY <1>2, <1>4, Zenon DEF m
<1>7. QED BY <1>5, <1>6
-----------------------------------------------------------------------------
(* Where the program is, and the queues between the stages.                 *)

LEMMA Parameters ==
  /\ FILTER_FIR_DECIMATION_FACTOR \in Nat \ {0}
  /\ POWER_OUTPUT_QUEUE_SIZE \in Nat \ {0}
  /\ FIR_COEF_COUNT \in Nat \ {0}
  /\ IIR_A_COEFFICIENT_COUNT \in Nat \ {0}
  /\ IIR_B_COEFFICIENT_COUNT \in Nat \ {0}
  /\ firBcoeff \in [0 .. FIR_COEF_COUNT - 1 -> Int]
  /\ \A f \in FilterNumber :
       /\ iirAcoeff[f] \in [0 .. IIR_A_COEFFICIENT_COUNT - 1 -> Int]
       /\ iirBcoeff[f] \in [0 .. IIR_B_COEFFICIENT_COUNT - 1 -> Int]
  /\ \A f \in FilterNumber : TestPower[f] \in Int
BY FilterChainAssumption

\* The filters run only in the mode, and on the last sample of a group.
StageInv ==
  /\ pc \in {"samples", "fir", "channels", "computeHit", "sort", "report", "done"}
  /\ phase \in {"test1", "test2", "mode"}
  /\ phase # "mode" => /\ pc \in {"samples", "computeHit", "sort", "report"}
                       /\ sampleCount = 0
  /\ inDetector \in BOOLEAN
  /\ pc \in {"fir", "channels"} => sampleCount = 0
  /\ sampleCount \in 0 .. FILTER_FIR_DECIMATION_FACTOR - 1
  /\ channel \in 0 .. FILTER_IIR_FILTER_COUNT
  /\ pc = "channels" => channel \in FilterNumber

QueueInv ==
  /\ FullQueue(xQueue, FIR_COEF_COUNT)
  /\ FullQueue(yQueue, IIR_B_COEFFICIENT_COUNT)
  /\ zQueue \in [FilterNumber -> QueueOf(IIR_A_COEFFICIENT_COUNT)]
  /\ \A f \in FilterNumber : FullQueue(zQueue[f], IIR_A_COEFFICIENT_COUNT)
  /\ DOMAIN powerOutput = FilterNumber
  /\ \A f \in FilterNumber : \/ FullQueue(powerOutput[f], POWER_OUTPUT_QUEUE_SIZE)
                             \/ powerOutput[f] = NoQueue

LEMMA StageInit == Init => StageInv
<1> SUFFICES ASSUME Init PROVE StageInv
  OBVIOUS
<1>1. /\ pc = "computeHit" /\ phase = "test1" /\ inDetector = FALSE
      /\ sampleCount = 0 /\ channel = 0
  BY DEF Init
<1>2. /\ sampleCount \in 0 .. FILTER_FIR_DECIMATION_FACTOR - 1
      /\ channel \in 0 .. FILTER_IIR_FILTER_COUNT
  BY <1>1, Parameters, Sizes
<1>3. QED BY <1>1, <1>2 DEF StageInv

LEMMA StageNext == StageInv /\ [Next]_vars => StageInv'
<1> SUFFICES ASSUME StageInv, [Next]_vars PROVE StageInv'
  OBVIOUS
<1>1. CASE computeHit
  <2>1. UNCHANGED <<phase, sampleCount, channel>>
    BY <1>1 DEF computeHit, chainUnchanged
  <2>2. pc \in {"computeHit", "sort", "report"}
    BY <1>1 DEF computeHit, copyPower, sortNext, testThreshold, sorted, report
  <2>3. pc' \in {"samples", "sort", "report"}
    <3>1. ASSUME copyPower \/ report PROVE pc' \in {"samples", "sort", "report"}
      BY <3>1 DEF copyPower, report
    <3>2. ASSUME sortNext PROVE pc' = "sort"
      BY <3>2 DEF sortNext
    <3>3. ASSUME testThreshold PROVE pc' \in {"samples", "report"}
      BY <3>3 DEF testThreshold
    <3>4. QED BY <1>1, <3>1, <3>2, <3>3 DEF computeHit
  <2>4. inDetector' \in BOOLEAN
    BY <1>1 DEF computeHit, StageInv
  <2>5. QED BY <2>1, <2>2, <2>3, <2>4 DEF StageInv
<1>2. CASE secondTest
  BY <1>2 DEF secondTest, StageInv
<1>3. CASE enterMode
  BY <1>3 DEF enterMode, detectorVars, StageInv
<1>4. CASE filter_addNewInput
  <2>1. /\ pc = "samples" /\ phase = "mode" /\ UNCHANGED <<phase, inDetector, channel>>
        /\ IF sampleCount + 1 = FILTER_FIR_DECIMATION_FACTOR
           THEN sampleCount' = 0 /\ pc' = "fir"
           ELSE sampleCount' = sampleCount + 1 /\ pc' = pc
    BY <1>4 DEF filter_addNewInput, inMode
  <2>2. QED BY <2>1, Parameters DEF StageInv
<1>5. CASE filter_firFilter
  <2>1. /\ pc = "fir" /\ pc' = "channels" /\ channel' = 0
        /\ phase = "mode" /\ UNCHANGED <<phase, inDetector, sampleCount>>
    BY <1>5 DEF filter_firFilter, inMode
  <2>2. 0 \in FilterNumber /\ 0 \in 0 .. FILTER_IIR_FILTER_COUNT
    BY Sizes DEF FilterNumber
  <2>3. QED BY <2>1, <2>2 DEF StageInv
<1>6. CASE runChannel
  <2>1. /\ pc = "channels" /\ phase = "mode"
        /\ UNCHANGED <<phase, inDetector, sampleCount>>
        /\ channel' = channel + 1
        /\ IF channel < Last THEN pc' = pc ELSE pc' \in {"samples", "computeHit"}
    BY <1>6 DEF runChannel, inMode
  <2>2. /\ channel + 1 \in 0 .. FILTER_IIR_FILTER_COUNT
        /\ channel < Last => channel + 1 \in FilterNumber
    BY <2>1, Sizes DEF StageInv, FilterNumber, Last
  <2>3. QED BY <2>1, <2>2 DEF StageInv
<1>7. CASE exit
  BY <1>7 DEF exit, inMode, StageInv
<1>8. CASE UNCHANGED vars
  BY <1>8 DEF vars, detectorVars, StageInv
<1>9. CASE callDetector \/ detectorReturns
  BY <1>9 DEF callDetector, detectorReturns, inMode, StageInv
<1>10. QED BY <1>1, <1>2, <1>3, <1>4, <1>5, <1>6, <1>7, <1>8, <1>9 DEF Next

\* A filter computes a number from full queues.
LEMMA WeighType ==
  ASSUME NEW count \in Nat \ {0}, NEW q, FullQueue(q, count),
         NEW coeff \in [0 .. count - 1 -> Int]
  PROVE weigh(q, coeff, count) \in Int
<1> DEFINE term == [i \in 0 .. count - 1 |->
                      queue_readElementAt(q, i) * coeff[count - 1 - i]]
<1>1. ASSUME NEW i \in 0 .. count - 1 PROVE term[i] \in Int
  <2>1. queue_readElementAt(q, i) \in Int
    BY FullQueueRead
  <2>2. coeff[count - 1 - i] \in Int
    OBVIOUS
  <2>3. QED BY <2>1, <2>2
<1>2. weigh(q, coeff, count) = total(term, count)
  BY DEF weigh
<1> HIDE DEF term
<1>3. count \in 0 .. count
  OBVIOUS
<1>4. QED BY <1>1, <1>2, <1>3, TotalType

LEMMA OutputType ==
  ASSUME QueueInv
  PROVE /\ firOutput(xQueue) \in Int
        /\ \A f \in FilterNumber : iirOutput(yQueue, zQueue[f], f) \in Int
<1>1. firOutput(xQueue) \in Int
  BY Parameters, WeighType DEF QueueInv, firOutput
<1>2. ASSUME NEW f \in FilterNumber PROVE iirOutput(yQueue, zQueue[f], f) \in Int
  <2>1. weigh(yQueue, iirBcoeff[f], IIR_B_COEFFICIENT_COUNT) \in Int
    BY Parameters, WeighType DEF QueueInv
  <2>2. weigh(zQueue[f], iirAcoeff[f], IIR_A_COEFFICIENT_COUNT) \in Int
    BY Parameters, WeighType DEF QueueInv
  <2>3. QED BY <2>1, <2>2 DEF iirOutput
<1>3. QED BY <1>1, <1>2

LEMMA StorageOfFull ==
  /\ \A q : FullQueue(q, POWER_OUTPUT_QUEUE_SIZE) => hasStorage(q)
  /\ ~hasStorage(NoQueue)
BY Parameters, FullQueueFields DEF hasStorage, NoQueue

LEMMA QueueInit == Init => QueueInv
<1> SUFFICES ASSUME Init PROVE QueueInv
  OBVIOUS
<1>1. /\ xQueue = filledQueue(FIR_COEF_COUNT, 1, 1)
      /\ yQueue = filledQueue(IIR_B_COEFFICIENT_COUNT, 1, 1)
      /\ zQueue = [f \in FilterNumber |-> filledQueue(IIR_A_COEFFICIENT_COUNT, 1, 1)]
  BY DEF Init, queuesFilledWith
<1>2. /\ FullQueue(filledQueue(FIR_COEF_COUNT, 1, 1), FIR_COEF_COUNT)
      /\ FullQueue(filledQueue(IIR_B_COEFFICIENT_COUNT, 1, 1), IIR_B_COEFFICIENT_COUNT)
      /\ FullQueue(filledQueue(IIR_A_COEFFICIENT_COUNT, 1, 1), IIR_A_COEFFICIENT_COUNT)
  BY Parameters, FilledQueueFull
<1>3. /\ DOMAIN powerOutput = FilterNumber
      /\ \A f \in FilterNumber : \/ powerOutput[f] = filledQueue(POWER_OUTPUT_QUEUE_SIZE, f, 2)
                                 \/ powerOutput[f] = NoQueue
  BY DEF Init
<1>4. ASSUME NEW f \in FilterNumber
      PROVE FullQueue(filledQueue(POWER_OUTPUT_QUEUE_SIZE, f, 2), POWER_OUTPUT_QUEUE_SIZE)
  BY Parameters, FilledQueueFull DEF FilterNumber
<1>5. QED BY <1>1, <1>2, <1>3, <1>4, Zenon DEF QueueInv, FullQueue

LEMMA QueueNext == StageInv /\ QueueInv /\ [Next]_vars => QueueInv'
<1> SUFFICES ASSUME StageInv, QueueInv, [Next]_vars PROVE QueueInv'
  OBVIOUS
<1>1. CASE computeHit
  BY <1>1 DEF computeHit, chainUnchanged, queues, QueueInv
<1>2. CASE secondTest
  BY <1>2 DEF secondTest, queues, QueueInv
<1>3. CASE enterMode
  <2>1. /\ xQueue' = filledQueue(FIR_COEF_COUNT, 0, 1)
        /\ yQueue' = filledQueue(IIR_B_COEFFICIENT_COUNT, 0, 1)
        /\ zQueue' = [f \in FilterNumber |-> filledQueue(IIR_A_COEFFICIENT_COUNT, 0, 1)]
        /\ UNCHANGED powerOutput
    BY <1>3 DEF enterMode, filter_init, queuesFilledWith
  <2>2. /\ FullQueue(filledQueue(FIR_COEF_COUNT, 0, 1), FIR_COEF_COUNT)
        /\ FullQueue(filledQueue(IIR_B_COEFFICIENT_COUNT, 0, 1), IIR_B_COEFFICIENT_COUNT)
        /\ FullQueue(filledQueue(IIR_A_COEFFICIENT_COUNT, 0, 1), IIR_A_COEFFICIENT_COUNT)
    BY Parameters, FilledQueueFull
  <2>3. QED BY <2>1, <2>2, Zenon DEF QueueInv, FullQueue
<1>4. CASE filter_addNewInput
  <2>1. PICK v \in Input : xQueue' = queue_overwritePush(xQueue, v)
    BY <1>4 DEF filter_addNewInput
  <2>2. v \in Int
    BY FilterChainAssumption
  <2>3. FullQueue(xQueue', FIR_COEF_COUNT)
    BY <2>1, <2>2, Parameters, FullQueuePush DEF QueueInv
  <2>4. UNCHANGED <<yQueue, zQueue, powerOutput>>
    BY <1>4 DEF filter_addNewInput
  <2>5. QED BY <2>3, <2>4 DEF QueueInv
<1>5. CASE filter_firFilter
  <2>1. yQueue' = queue_overwritePush(yQueue, firOutput(xQueue))
    BY <1>5 DEF filter_firFilter
  <2>2. FullQueue(yQueue', IIR_B_COEFFICIENT_COUNT)
    BY <2>1, OutputType, Parameters, FullQueuePush DEF QueueInv
  <2>3. UNCHANGED <<xQueue, zQueue, powerOutput>>
    BY <1>5 DEF filter_firFilter
  <2>4. QED BY <2>2, <2>3 DEF QueueInv
<1>6. CASE runChannel
  <2> DEFINE v == iirOutput(yQueue, zQueue[channel], channel)
             z == queue_overwritePush(zQueue[channel], v)
             pushed == powerPush(powerOutput[channel], v)
  <2>1. /\ zQueue' = [zQueue EXCEPT ![channel] = z]
        /\ powerOutput' = [powerOutput EXCEPT ![channel] = pushed]
        /\ UNCHANGED <<xQueue, yQueue>>
    BY <1>6 DEF runChannel
  <2>2. channel \in FilterNumber
    BY <1>6 DEF runChannel, inMode, StageInv
  <2>3. v \in Int
    BY <2>2, OutputType
  <2>4. FullQueue(z, IIR_A_COEFFICIENT_COUNT)
    <3> HIDE DEF v
    <3>1. QED BY <2>2, <2>3, Parameters, FullQueuePush DEF QueueInv
  <2>5. FullQueue(pushed, POWER_OUTPUT_QUEUE_SIZE) \/ pushed = NoQueue
    <3> HIDE DEF v
    <3>1. CASE FullQueue(powerOutput[channel], POWER_OUTPUT_QUEUE_SIZE)
      BY <3>1, <2>3, Parameters, StorageOfFull, FullQueuePush DEF powerPush
    <3>2. CASE powerOutput[channel] = NoQueue
      BY <3>2, StorageOfFull DEF powerPush
    <3>3. QED BY <2>2, <3>1, <3>2 DEF QueueInv
  <2>6. z \in QueueOf(IIR_A_COEFFICIENT_COUNT)
    BY <2>4 DEF FullQueue
  <2> HIDE DEF z, pushed
  <2>7. /\ zQueue' \in [FilterNumber -> QueueOf(IIR_A_COEFFICIENT_COUNT)]
        /\ \A f \in FilterNumber : zQueue'[f] = IF f = channel THEN z ELSE zQueue[f]
    BY <2>1, <2>2, <2>6 DEF QueueInv
  <2>8. /\ DOMAIN powerOutput' = FilterNumber
        /\ \A f \in FilterNumber :
             powerOutput'[f] = IF f = channel THEN pushed ELSE powerOutput[f]
    BY <2>1, <2>2 DEF QueueInv
  <2>9. QED BY <2>1, <2>4, <2>5, <2>7, <2>8 DEF QueueInv
<1>7. CASE exit
  BY <1>7 DEF exit, queues, QueueInv
<1>8. CASE UNCHANGED vars
  BY <1>8 DEF vars, queues, QueueInv
<1>9. CASE callDetector \/ detectorReturns
  BY <1>9 DEF callDetector, detectorReturns, queues, QueueInv
<1>10. QED BY <1>1, <1>2, <1>3, <1>4, <1>5, <1>6, <1>7, <1>8, <1>9 DEF Next
-----------------------------------------------------------------------------
(* The detector behind the filters.                                         *)

LEMMA NextPowerType ==
  ASSUME NEW q, FullQueue(q, POWER_OUTPUT_QUEUE_SIZE), NEW power \in Int
  PROVE nextPower(q, power) \in Int
<1>1. /\ queue_readElementAt(q, POWER_OUTPUT_QUEUE_SIZE - 1) \in Int
      /\ queue_readElementAt(q, 0) \in Int
  BY Parameters, FullQueueRead
<1>2. QED BY <1>1 DEF nextPower

LEMMA RunChannelPowerType ==
  ASSUME StageInv, QueueInv, QueueInv', DetectorTypeOK, runChannel
  PROVE currentPowerValue' \in [FilterNumber -> Int]
<1>1. channel \in FilterNumber
  BY DEF runChannel, inMode, StageInv
<1> DEFINE pushed == powerPush(powerOutput[channel],
                               iirOutput(yQueue, zQueue[channel], channel))
<1>2. PICK guess \in Garbage :
        currentPowerValue' =
          [currentPowerValue EXCEPT ![channel] =
             IF hasStorage(pushed) THEN nextPower(pushed, currentPowerValue[channel])
                                   ELSE guess]
  BY DEF runChannel
<1>3. powerOutput'[channel] = pushed
  BY <1>1 DEF runChannel, QueueInv
<1> HIDE DEF pushed
<1>4. hasStorage(pushed) => FullQueue(pushed, POWER_OUTPUT_QUEUE_SIZE)
  BY <1>1, <1>3, StorageOfFull DEF QueueInv
<1>5. currentPowerValue[channel] \in Int /\ guess \in Int
  BY <1>1, FilterChainAssumption DEF DetectorTypeOK
<1>6. hasStorage(pushed) => nextPower(pushed, currentPowerValue[channel]) \in Int
  BY <1>4, <1>5, NextPowerType
<1>7. QED BY <1>2, <1>5, <1>6 DEF DetectorTypeOK

\* The sort's invariant holds in the chain: while the array is sorted, nothing
\* touches the powers.
LEMMA ChainDetectorInit == Init => Inv
<1> SUFFICES ASSUME Init PROVE Inv
  OBVIOUS
<1>1. currentPowerValue \in [FilterNumber -> Int]
  BY FilterChainAssumption DEF Init
<1>2. QED BY <1>1, InitInv DEF Init

LEMMA ChainDetectorNext ==
  StageInv /\ QueueInv /\ Inv /\ [Next]_vars => Inv'
<1> SUFFICES ASSUME StageInv, QueueInv, Inv, [Next]_vars PROVE Inv'
  OBVIOUS
<1>1. CASE computeHit
  <2>1. DetectorNext
    BY <1>1 DEF computeHit, DetectorNext
  <2>2. QED BY <2>1, NextInv
<1>2. CASE secondTest
  <2>1. TestPower \in [FilterNumber -> Int]
    BY FilterChainAssumption
  <2>2. QED BY <1>2, <2>1 DEF secondTest, Inv, DetectorTypeOK, SortInv
<1>3. CASE enterMode
  BY <1>3, NextInv DEF enterMode
<1>4. CASE filter_addNewInput
  BY <1>4 DEF filter_addNewInput, inMode, Inv, DetectorTypeOK, SortInv
<1>5. CASE filter_firFilter
  BY <1>5 DEF filter_firFilter, inMode, Inv, DetectorTypeOK, SortInv
<1>6. CASE runChannel
  <2>1. currentPowerValue' \in [FilterNumber -> Int]
    BY <1>6, QueueNext, RunChannelPowerType DEF Inv
  <2>2. /\ pc' # "sort"
        /\ UNCHANGED <<sortedPower, nextToSort, detector_hitDetectedFlag>>
    BY <1>6 DEF runChannel, inMode
  <2>3. QED BY <2>1, <2>2 DEF Inv, DetectorTypeOK, SortInv
<1>7. CASE exit
  BY <1>7 DEF exit, inMode, Inv, DetectorTypeOK, SortInv
<1>8. CASE UNCHANGED vars
  BY <1>8, NextInv DEF vars
<1>9. CASE callDetector \/ detectorReturns
  BY <1>9 DEF callDetector, detectorReturns, inMode, Inv, DetectorTypeOK, SortInv
<1>10. QED BY <1>1, <1>2, <1>3, <1>4, <1>5, <1>6, <1>7, <1>8, <1>9 DEF Next

\* What every state of the chain satisfies.
ChainInv == StageInv /\ QueueInv /\ Inv

LEMMA ChainInvariant == Spec => []ChainInv
<1>1. Init => ChainInv
  BY StageInit, QueueInit, ChainDetectorInit DEF ChainInv
<1>2. ChainInv /\ [Next]_vars => ChainInv'
  BY StageNext, QueueNext, ChainDetectorNext DEF ChainInv
<1>3. QED BY <1>1, <1>2, PTL DEF Spec

\* filter.c:134-163: the types of the chain; in particular the x, y and z
\* queues are full whenever a filter reads them, so that no empty or stale slot
\* meets a coefficient.
THEOREM ChainTypeCorrect == Spec => []TypeOK
<1>1. ChainInv => TypeOK
  <2> SUFFICES ASSUME ChainInv PROVE TypeOK
    OBVIOUS
  <2>1. /\ xQueue \in QueueOf(FIR_COEF_COUNT)
        /\ yQueue \in QueueOf(IIR_B_COEFFICIENT_COUNT)
        /\ zQueue \in [FilterNumber -> QueueOf(IIR_A_COEFFICIENT_COUNT)]
        /\ \A f \in FilterNumber :
             powerOutput[f] \in QueueOf(POWER_OUTPUT_QUEUE_SIZE) \cup {NoQueue}
    BY DEF ChainInv, QueueInv, FullQueue
  <2>2. QED BY <2>1 DEF ChainInv, StageInv, Inv, TypeOK
<1>2. QED BY <1>1, ChainInvariant, PTL

\* detector.c:43-66: the sort is right in every run of the program, also the
\* one that follows a computation of powers from samples.
THEOREM ChainSortIsRight == Spec => []SortIsRight
BY ChainInvariant, InvSorted, PTL DEF ChainInv

\* detector.c:69-78: so is the comparison with the median.
THEOREM ChainHitIsOverMedian == Spec => HitIsOverMedian
<1> DEFINE Rule ==
      testThreshold /\ ~detector_hitDetectedFlag =>
        (detector_hitDetectedFlag' <=> StandsOut(currentPowerValue))
<1>1. ChainInv => [Rule]_detectorVars
  BY ThresholdRule, InvSorted DEF ChainInv
<1>2. QED BY <1>1, ChainInvariant, PTL DEF HitIsOverMedian
-----------------------------------------------------------------------------
(* What the two data sets of detector_runTest() leave in the hit flag.       *)

\* The flag is up in the tests only from the threshold to the report of the
\* first data set; the second one is sorted with its own values.
QuietInv ==
  /\ phase = "test1" => (detector_hitDetectedFlag <=> pc = "report")
  /\ phase = "test2" => /\ currentPowerValue = TestPower
                        /\ ~detector_hitDetectedFlag
                        /\ pc # "report"

LEMMA QuietNext == ChainInv /\ QuietInv /\ [Next]_vars => QuietInv'
<1> SUFFICES ASSUME ChainInv, QuietInv, [Next]_vars PROVE QuietInv'
  OBVIOUS
<1>0. phase \in {"test1", "test2", "mode"} /\ detector_hitDetectedFlag \in BOOLEAN
  BY DEF ChainInv, StageInv, Inv, DetectorTypeOK
<1>1. CASE computeHit
  <2>1. UNCHANGED <<phase, currentPowerValue>>
    BY <1>1 DEF computeHit, chainUnchanged, copyPower, sortNext, testThreshold, report
  <2>2. CASE copyPower \/ sortNext
    <3>1. pc # "report" /\ pc' # "report" /\ UNCHANGED detector_hitDetectedFlag
      BY <2>2 DEF copyPower, sortNext
    <3>2. QED BY <2>1, <3>1 DEF QuietInv
  <2>3. CASE testThreshold
    <3>1. pc = "sort" /\ pc' = IF detector_hitDetectedFlag' THEN "report" ELSE "samples"
      BY <2>3 DEF testThreshold, sorted
    <3>2. detector_hitDetectedFlag' \in BOOLEAN
      BY <2>3, <1>0 DEF testThreshold, overThreshold
    <3>3. CASE phase = "test1"
      BY <2>1, <3>1, <3>2, <3>3 DEF QuietInv
    <3>4. CASE phase = "test2"
      <4>1. ~detector_hitDetectedFlag /\ ~StandsOut(currentPowerValue)
        BY <3>4, SecondDataSetIsQuiet DEF QuietInv
      <4>2. ~detector_hitDetectedFlag'
        BY <2>3, <4>1, ThresholdRule, InvSorted DEF ChainInv, Inv
      <4>3. QED BY <2>1, <3>1, <3>4, <4>2 DEF QuietInv
    <3>5. CASE phase = "mode"
      BY <2>1, <3>5 DEF QuietInv
    <3>6. QED BY <1>0, <3>3, <3>4, <3>5
  <2>4. CASE report
    <3>1. pc = "report" /\ pc' = "samples"
      BY <2>4 DEF report
    <3>2. phase = "test1" => detector_hitDetectedFlag' = FALSE
      BY <1>1, <3>1 DEF computeHit, copyPower, sortNext, testThreshold, sorted
    <3>3. QED BY <1>0, <2>1, <3>1, <3>2 DEF QuietInv
  <2>5. QED BY <1>1, <2>2, <2>3, <2>4 DEF computeHit
<1>2. CASE secondTest
  BY <1>2 DEF secondTest, QuietInv
<1>3. CASE phase' = "mode"
  BY <1>3 DEF QuietInv
<1>4. CASE enterMode
  BY <1>3, <1>4 DEF enterMode
<1>5. CASE \/ callDetector \/ detectorReturns \/ filter_addNewInput
           \/ filter_firFilter \/ runChannel \/ exit
  BY <1>3, <1>5 DEF callDetector, detectorReturns, filter_addNewInput,
                    filter_firFilter, runChannel, exit, inMode
<1>6. CASE UNCHANGED vars
  BY <1>6 DEF vars, detectorVars, QuietInv
<1>7. QED BY <1>1, <1>2, <1>4, <1>5, <1>6 DEF Next

\* detector.c:165-197, 38-41: the provoked hit of detector_runTest() is not there
\* when a mode is entered, for all data sets whose second one holds no channel
\* over FUDGE_FACTOR times its median: it is cleared, and neither what the first
\* set leaves in the powers and in the sorted array nor anything else brings a
\* hit into the second.
THEOREM TestsLeaveNoHit == Spec => GameStartsWithoutHit
<1>1. Init => QuietInv
  BY DEF Init, DetectorInit, QuietInv
<1>2. ChainInv /\ QuietInv /\ [Next]_vars => QuietInv'
  BY QuietNext
<1>3. QuietInv => [enterMode => ~detector_hitDetectedFlag]_vars
  BY DEF QuietInv, enterMode
<1>4. QED BY <1>1, <1>2, <1>3, ChainInvariant, PTL DEF Spec, GameStartsWithoutHit
-----------------------------------------------------------------------------
(* The incremental power.                                                   *)

\* The energy in all places of a power queue but the oldest.
EnergyOf(q) ==
  total([i \in 0 .. POWER_OUTPUT_QUEUE_SIZE - 2 |->
           queue_readElementAt(q, i + 1) * queue_readElementAt(q, i + 1)],
        POWER_OUTPUT_QUEUE_SIZE - 1)

LEMMA EnergyType ==
  ASSUME NEW q, FullQueue(q, POWER_OUTPUT_QUEUE_SIZE)
  PROVE EnergyOf(q) \in Int
<1> DEFINE count == POWER_OUTPUT_QUEUE_SIZE - 1
           term == [i \in 0 .. POWER_OUTPUT_QUEUE_SIZE - 2 |->
                      queue_readElementAt(q, i + 1) * queue_readElementAt(q, i + 1)]
<1>1. ASSUME NEW i \in 0 .. count - 1 PROVE term[i] \in Int
  <2>1. queue_readElementAt(q, i + 1) \in Int
    BY Parameters, FullQueueRead
  <2>2. i \in 0 .. POWER_OUTPUT_QUEUE_SIZE - 2
    BY Parameters
  <2>3. QED BY <2>1, <2>2
<1>2. count \in Nat /\ count \in 0 .. count
  BY Parameters
<1>3. EnergyOf(q) = total(term, count)
  BY DEF EnergyOf
<1> HIDE DEF term, count
<1>4. QED BY <1>1, <1>2, <1>3, TotalType

\* A push takes the second oldest value out of the energy, which is then the
\* oldest, and brings the newest in.
LEMMA EnergyPush ==
  ASSUME NEW q, FullQueue(q, POWER_OUTPUT_QUEUE_SIZE), NEW v \in Int,
         NEW s, s = queue_overwritePush(q, v), NEW power \in Int
  PROVE nextPower(s, power) - EnergyOf(s) = power - EnergyOf(q)
<1> DEFINE P == POWER_OUTPUT_QUEUE_SIZE
           count == P - 1
           square == [k \in 0 .. count |-> queue_readElementAt(s, k) * queue_readElementAt(s, k)]
           after == [i \in 0 .. P - 2 |->
                       queue_readElementAt(s, i + 1) * queue_readElementAt(s, i + 1)]
           before == [i \in 0 .. P - 2 |->
                       queue_readElementAt(q, i + 1) * queue_readElementAt(q, i + 1)]
<1>1. /\ FullQueue(s, P)
      /\ \A i \in 0 .. P - 2 : queue_readElementAt(s, i) = queue_readElementAt(q, i + 1)
  BY Parameters, FullQueuePush
<1>2. P \in Nat \ {0} /\ count \in Nat /\ P = count + 1
  BY Parameters
<1>3. \A k \in 0 .. count : square[k] \in Int
  <2> SUFFICES ASSUME NEW k \in 0 .. count PROVE square[k] \in Int
    OBVIOUS
  <2>1. k \in 0 .. P
    BY <1>2
  <2>2. queue_readElementAt(s, k) \in Int
    BY <1>1, <1>2, <2>1, FullQueueRead
  <2>3. QED BY <2>2
<1>4. \A k \in 0 .. count - 1 : after[k] = square[k + 1] /\ before[k] = square[k]
  <2> SUFFICES ASSUME NEW k \in 0 .. count - 1
               PROVE after[k] = square[k + 1] /\ before[k] = square[k]
    OBVIOUS
  <2>1. k \in 0 .. P - 2 /\ k \in 0 .. count /\ k + 1 \in 0 .. count
    BY <1>2
  <2>2. QED BY <1>1, <2>1
<1>5. EnergyOf(s) = total(after, count) /\ EnergyOf(q) = total(before, count)
  BY DEF EnergyOf
<1>6. nextPower(s, power) = power + square[count] - square[0]
  BY <1>2 DEF nextPower
<1> HIDE DEF P, count, square, after, before
<1>7. total(square, count + 1) = square[0] + total(after, count)
  BY <1>2, <1>3, <1>4, TotalShifted
<1>8. total(square, count + 1) = total(square, count) + square[count]
  BY <1>2, TotalStep
<1>9. total(before, count) = total(square, count)
  BY <1>2, <1>4, TotalSame
<1>10. /\ EnergyOf(s) \in Int /\ EnergyOf(q) \in Int
       /\ square[0] \in Int /\ square[count] \in Int
  BY <1>1, <1>2, <1>3, EnergyType DEF P
<1>11. QED BY <1>5, <1>6, <1>7, <1>8, <1>9, <1>10

\* filter.c:161, 174-177: the power of a channel and the energy of the newest
\* POWER_OUTPUT_QUEUE_SIZE - 1 outputs of its filter stay as far apart as they were,
\* after any number of outputs and whatever they are: what comes into the power and
\* what goes out of it are squares of the same outputs.  (In exact arithmetic, and
\* for a power queue that is full.)
THEOREM PowerDoesNotDrift ==
  ASSUME NEW count \in Nat, NEW output \in [0 .. count - 1 -> Int],
         NEW q, NEW power,
         FullQueue(q[0], POWER_OUTPUT_QUEUE_SIZE), power[0] \in Int,
         \A k \in 0 .. count - 1 :
           /\ q[k + 1] = powerPush(q[k], output[k])
           /\ power[k + 1] = nextPower(q[k + 1], power[k])
  PROVE  power[count] - EnergyOf(q[count]) = power[0] - EnergyOf(q[0])
<1> DEFINE P == POWER_OUTPUT_QUEUE_SIZE
           S == {k \in Nat : k <= count =>
                   /\ FullQueue(q[k], P) /\ power[k] \in Int
                   /\ power[k] - EnergyOf(q[k]) = power[0] - EnergyOf(q[0])}
<1>1. 0 \in S
  OBVIOUS
<1>2. ASSUME NEW k \in Nat, k \in S PROVE k + 1 \in S
  <2> SUFFICES ASSUME k + 1 <= count
               PROVE  /\ FullQueue(q[k + 1], P) /\ power[k + 1] \in Int
                      /\ power[k + 1] - EnergyOf(q[k + 1]) = power[0] - EnergyOf(q[0])
    OBVIOUS
  <2>1. k \in 0 .. count - 1
    OBVIOUS
  <2>2. /\ FullQueue(q[k], P) /\ power[k] \in Int
        /\ power[k] - EnergyOf(q[k]) = power[0] - EnergyOf(q[0])
    BY <1>2
  <2>3. /\ q[k + 1] = queue_overwritePush(q[k], output[k])
        /\ power[k + 1] = nextPower(q[k + 1], power[k])
        /\ output[k] \in Int
    BY <2>1, <2>2, StorageOfFull DEF powerPush
  <2>4. FullQueue(q[k + 1], P)
    BY <2>2, <2>3, Parameters, FullQueuePush
  <2>5. power[k + 1] \in Int
    BY <2>2, <2>3, <2>4, NextPowerType
  <2>6. power[k + 1] - EnergyOf(q[k + 1]) = power[k] - EnergyOf(q[k])
    BY <2>2, <2>3, EnergyPush
  <2>7. QED BY <2>2, <2>4, <2>5, <2>6
<1> HIDE DEF S
<1>3. \A k \in Nat : k \in S
  BY <1>1, <1>2, Induction
<1>4. QED BY <1>3 DEF S
-----------------------------------------------------------------------------
(* The queues as windows on signals.                                        *)

WindowOf(q, count) == [age \in 0 .. count - 1 |-> queue_readElementAt(q, count - 1 - age)]

\* A push makes every value one turn older.
LEMMA WindowPush ==
  ASSUME NEW n \in Nat \ {0}, NEW q, FullQueue(q, n), NEW v \in Int
  PROVE WindowOf(queue_overwritePush(q, v), n) = Equation!later(WindowOf(q, n), v)
<1> DEFINE s == queue_overwritePush(q, v)
           before == WindowOf(q, n)
<1>1. /\ queue_readElementAt(s, n - 1) = v
      /\ \A i \in 0 .. n - 2 : queue_readElementAt(s, i) = queue_readElementAt(q, i + 1)
  BY FullQueuePush
<1>2. /\ DOMAIN before = 0 .. n - 1
      /\ \A age \in 0 .. n - 1 : before[age] = queue_readElementAt(q, n - 1 - age)
  BY DEF WindowOf
<1> HIDE DEF s, before
<1>3. ASSUME NEW age \in 0 .. n - 1
      PROVE queue_readElementAt(s, n - 1 - age) = IF age = 0 THEN v ELSE before[age - 1]
  <2>1. CASE age = 0
    <3>1. n - 1 - age = n - 1
      BY <2>1
    <3>2. QED BY <1>1, <2>1, <3>1
  <2>2. CASE age # 0
    <3>1. /\ n - 1 - age \in 0 .. n - 2 /\ age - 1 \in 0 .. n - 1
          /\ n - 1 - (age - 1) = n - 1 - age + 1
      BY <2>2
    <3>2. before[age - 1] = queue_readElementAt(q, n - 1 - age + 1)
      BY <1>2, <3>1
    <3>3. queue_readElementAt(s, n - 1 - age) = queue_readElementAt(q, n - 1 - age + 1)
      BY <1>1, <3>1
    <3>4. QED BY <2>2, <3>2, <3>3
  <2>3. QED BY <2>1, <2>2
<1>4. WindowOf(s, n) = Equation!later(before, v)
  BY <1>2, <1>3, Zenon DEF WindowOf, Equation!later
<1>5. QED BY <1>4 DEF s, before

\* filter.c reads a queue oldest first and the coefficients last first: that is
\* the sum of the equation, taken from its other end.
LEMMA WeighIsSum ==
  ASSUME NEW n \in Nat \ {0}, NEW q, FullQueue(q, n), NEW coeff \in [0 .. n - 1 -> Int]
  PROVE weigh(q, coeff, n) = Equation!sum(coeff, WindowOf(q, n))
<1> DEFINE f == [k \in 0 .. n - 1 |-> coeff[k] * WindowOf(q, n)[k]]
           g == [i \in 0 .. n - 1 |-> queue_readElementAt(q, i) * coeff[n - 1 - i]]
<1>1. ASSUME NEW k \in 0 .. n - 1
      PROVE f[k] \in Int /\ g[k] = f[n - 1 - k]
  <2>1. /\ n - 1 - k \in 0 .. n - 1 /\ n - 1 - (n - 1 - k) = k
        /\ k \in 0 .. n /\ n - 1 - k \in 0 .. n
    OBVIOUS
  <2>2. /\ queue_readElementAt(q, k) \in Int /\ queue_readElementAt(q, n - 1 - k) \in Int
        /\ coeff[k] \in Int /\ coeff[n - 1 - k] \in Int
    <3>1. queue_readElementAt(q, k) \in Int
      BY <2>1, FullQueueRead
    <3>2. queue_readElementAt(q, n - 1 - k) \in Int
      BY <2>1, FullQueueRead
    <3>3. coeff[k] \in Int /\ coeff[n - 1 - k] \in Int
      BY <2>1
    <3>4. QED BY <3>1, <3>2, <3>3
  <2>3. /\ WindowOf(q, n)[k] = queue_readElementAt(q, n - 1 - k)
        /\ WindowOf(q, n)[n - 1 - k] = queue_readElementAt(q, n - 1 - (n - 1 - k))
    BY <2>1, Zenon DEF WindowOf
  <2>4. WindowOf(q, n)[n - 1 - k] = queue_readElementAt(q, k)
    BY <2>1, <2>3
  <2>5. f[k] = coeff[k] * WindowOf(q, n)[k]
    OBVIOUS
  <2>6. f[n - 1 - k] = coeff[n - 1 - k] * WindowOf(q, n)[n - 1 - k]
    BY <2>1
  <2>7. g[k] = queue_readElementAt(q, k) * coeff[n - 1 - k]
    OBVIOUS
  <2> HIDE DEF f, g
  <2>8. f[k] \in Int
    BY <2>2, <2>3, <2>5
  <2>9. g[k] = f[n - 1 - k]
    BY <2>2, <2>4, <2>6, <2>7
  <2>10. QED BY <2>8, <2>9
<1>2. Cardinality(DOMAIN coeff) = n /\ DOMAIN coeff = 0 .. n - 1
  BY FS_Interval
<1>3. Equation!sum(coeff, WindowOf(q, n)) = total(f, n)
  <2>1. Equation!Cardinality(DOMAIN coeff) = Cardinality(DOMAIN coeff)
    BY Zenon DEF Equation!Cardinality, Cardinality, IsFiniteSet, Equation!IsFiniteSet
  <2>2. Equation!sum(coeff, WindowOf(q, n)) = Equation!total(f, n)
    BY <1>2, <2>1 DEF Equation!sum
  <2>3. QED BY <2>2, Zenon DEF Equation!total, total
<1>4. weigh(q, coeff, n) = total(g, n)
  BY DEF weigh
<1> HIDE DEF f, g
<1>5. total(g, n) = total(f, n)
  BY <1>1, TotalReversed
<1>6. QED BY <1>3, <1>4, <1>5

\* The state of the equation as the chain holds it.
xBar == window(xQueue, FIR_COEF_COUNT)
yBar == window(yQueue, IIR_B_COEFFICIENT_COUNT)
zBar == [f \in FilterNumber |-> window(zQueue[f], IIR_A_COEFFICIENT_COUNT)]
phaseBar == IF pc = "fir" THEN FILTER_FIR_DECIMATION_FACTOR ELSE sampleCount
pendingBar == IF pc = "channels" THEN channel .. Last ELSE {}

LEMMA BarsInMode ==
  ASSUME phase = "mode"
  PROVE /\ xBar = WindowOf(xQueue, FIR_COEF_COUNT)
        /\ yBar = WindowOf(yQueue, IIR_B_COEFFICIENT_COUNT)
        /\ zBar = [f \in FilterNumber |-> WindowOf(zQueue[f], IIR_A_COEFFICIENT_COUNT)]
BY DEF xBar, yBar, zBar, window, WindowOf

LEMMA BarsInModeNext ==
  ASSUME phase' = "mode"
  PROVE /\ xBar' = WindowOf(xQueue', FIR_COEF_COUNT)
        /\ yBar' = WindowOf(yQueue', IIR_B_COEFFICIENT_COUNT)
        /\ zBar' = [f \in FilterNumber |-> WindowOf(zQueue'[f], IIR_A_COEFFICIENT_COUNT)]
BY DEF xBar, yBar, zBar, window, WindowOf

LEMMA EquationVars ==
  Equation!vars = <<xBar, yBar, zBar, phaseBar, pendingBar>>
BY DEF Equation!vars, xBar, yBar, zBar, phaseBar, pendingBar

LEMMA EquationInit == Init => Equation!Init
<1> SUFFICES ASSUME Init PROVE Equation!Init
  OBVIOUS
<1>1. phase = "test1" /\ pc = "computeHit" /\ sampleCount = 0
  BY DEF Init
<1>2. /\ DOMAIN firBcoeff = 0 .. FIR_COEF_COUNT - 1
      /\ DOMAIN iirBcoeff[0] = 0 .. IIR_B_COEFFICIENT_COUNT - 1
      /\ DOMAIN iirAcoeff = FilterNumber
      /\ \A f \in FilterNumber : DOMAIN iirAcoeff[f] = 0 .. IIR_A_COEFFICIENT_COUNT - 1
  <2>1. 0 \in FilterNumber
    BY Sizes DEF FilterNumber
  <2>2. QED BY <2>1, FilterChainAssumption
<1>3. /\ window(xQueue, FIR_COEF_COUNT) = [age \in 0 .. FIR_COEF_COUNT - 1 |-> 0]
      /\ window(yQueue, IIR_B_COEFFICIENT_COUNT)
           = [age \in 0 .. IIR_B_COEFFICIENT_COUNT - 1 |-> 0]
      /\ \A f \in FilterNumber : window(zQueue[f], IIR_A_COEFFICIENT_COUNT)
           = [age \in 0 .. IIR_A_COEFFICIENT_COUNT - 1 |-> 0]
  BY <1>1 DEF window
<1>4. QED BY <1>1, <1>2, <1>3 DEF Equation!Init, Equation!zero, Equation!Filters

LEMMA EquationNext ==
  ChainInv /\ [Next]_vars => [Equation!Next]_Equation!vars
<1> SUFFICES ASSUME ChainInv, [Next]_vars
             PROVE Equation!Next \/ UNCHANGED Equation!vars
  OBVIOUS
<1>0. StageInv /\ QueueInv
  BY DEF ChainInv
<1>1. DOMAIN iirAcoeff = FilterNumber /\ Equation!Filters = FilterNumber
  BY FilterChainAssumption DEF Equation!Filters
<1>2. CASE UNCHANGED <<phase, queues, sampleCount, channel>>
           /\ pc \notin {"fir", "channels"} /\ pc' \notin {"fir", "channels"}
  <2>1. UNCHANGED <<xBar, yBar, zBar, phaseBar, pendingBar>>
    BY <1>2 DEF xBar, yBar, zBar, phaseBar, pendingBar, window, queues
  <2>2. QED BY <2>1, EquationVars DEF Equation!vars, xBar, yBar, zBar, phaseBar, pendingBar
<1>3. CASE computeHit
  <2>1. pc \notin {"fir", "channels"} /\ pc' \notin {"fir", "channels"}
    BY <1>3 DEF computeHit, copyPower, sortNext, testThreshold, sorted, report
  <2>2. QED BY <1>2, <1>3, <2>1 DEF computeHit, chainUnchanged, queues
<1>4. CASE secondTest
  <2>1. /\ phase # "mode" /\ phase' # "mode"
        /\ pc \notin {"fir", "channels"} /\ pc' \notin {"fir", "channels"}
        /\ UNCHANGED <<queues, sampleCount, channel>>
    BY <1>4 DEF secondTest
  <2>2. UNCHANGED <<xBar, yBar, zBar, phaseBar, pendingBar>>
    BY <2>1 DEF xBar, yBar, zBar, phaseBar, pendingBar, window, queues
  <2>3. QED BY <2>2 DEF Equation!vars, xBar, yBar, zBar, phaseBar, pendingBar
<1>5. CASE enterMode
  <2>1. /\ phase = "test2" /\ phase' = "mode" /\ pc = "samples" /\ pc' = pc
        /\ UNCHANGED sampleCount
        /\ xQueue' = filledQueue(FIR_COEF_COUNT, 0, 1)
        /\ yQueue' = filledQueue(IIR_B_COEFFICIENT_COUNT, 0, 1)
        /\ zQueue' = [f \in FilterNumber |-> filledQueue(IIR_A_COEFFICIENT_COUNT, 0, 1)]
    BY <1>5 DEF enterMode, detectorVars, filter_init, queuesFilledWith
  <2>2. ASSUME NEW n \in Nat \ {0}
        PROVE WindowOf(filledQueue(n, 0, 1), n) = [age \in 0 .. n - 1 |-> 0]
    <3>1. ASSUME NEW age \in 0 .. n - 1
          PROVE queue_readElementAt(filledQueue(n, 0, 1), n - 1 - age) = 0
      <4>1. n - 1 - age \in 0 .. n - 1
        OBVIOUS
      <4>2. QED BY <4>1, FilledQueueFull
    <3>2. QED BY <3>1, Zenon DEF WindowOf
  <2>3. /\ xBar' = [age \in 0 .. FIR_COEF_COUNT - 1 |-> 0]
        /\ yBar' = [age \in 0 .. IIR_B_COEFFICIENT_COUNT - 1 |-> 0]
        /\ zBar' = [f \in FilterNumber |-> [age \in 0 .. IIR_A_COEFFICIENT_COUNT - 1 |-> 0]]
    <3>1. WindowOf(xQueue', FIR_COEF_COUNT) = [age \in 0 .. FIR_COEF_COUNT - 1 |-> 0]
      BY <2>1, <2>2, Parameters
    <3>2. WindowOf(yQueue', IIR_B_COEFFICIENT_COUNT)
            = [age \in 0 .. IIR_B_COEFFICIENT_COUNT - 1 |-> 0]
      BY <2>1, <2>2, Parameters
    <3>3. \A f \in FilterNumber :
            WindowOf(zQueue'[f], IIR_A_COEFFICIENT_COUNT)
              = [age \in 0 .. IIR_A_COEFFICIENT_COUNT - 1 |-> 0]
      BY <2>1, <2>2, Parameters
    <3>4. QED BY <2>1, <3>1, <3>2, <3>3, BarsInModeNext, Zenon
  <2>4. /\ xBar = [age \in 0 .. FIR_COEF_COUNT - 1 |-> 0]
        /\ yBar = [age \in 0 .. IIR_B_COEFFICIENT_COUNT - 1 |-> 0]
        /\ zBar = [f \in FilterNumber |-> [age \in 0 .. IIR_A_COEFFICIENT_COUNT - 1 |-> 0]]
    BY <2>1 DEF xBar, yBar, zBar, window
  <2>5. UNCHANGED <<phaseBar, pendingBar>>
    BY <2>1 DEF phaseBar, pendingBar
  <2>6. UNCHANGED <<xBar, yBar, zBar>>
    BY <2>3, <2>4, Zenon
  <2>7. QED BY <2>5, <2>6 DEF Equation!vars, xBar, yBar, zBar, phaseBar, pendingBar
<1>6. CASE filter_addNewInput
  <2>1. PICK v \in Input : xQueue' = queue_overwritePush(xQueue, v)
    BY <1>6 DEF filter_addNewInput
  <2>2. /\ phase = "mode" /\ phase' = "mode" /\ pc = "samples"
        /\ UNCHANGED <<yQueue, zQueue>>
        /\ IF sampleCount + 1 = FILTER_FIR_DECIMATION_FACTOR
           THEN sampleCount' = 0 /\ pc' = "fir"
           ELSE sampleCount' = sampleCount + 1 /\ pc' = pc
    BY <1>6 DEF filter_addNewInput, inMode
  <2>3. v \in Int
    BY FilterChainAssumption
  <2>4. xBar' = Equation!later(xBar, v)
    BY <1>0, <2>1, <2>2, <2>3, BarsInMode, BarsInModeNext, WindowPush, Parameters
       DEF QueueInv
  <2>5. xBar'[0] = v
    <3>1. 0 \in DOMAIN xBar
      BY <2>2, Parameters DEF xBar, window
    <3>2. QED BY <2>4, <3>1 DEF Equation!later
  <2>6. yBar' = yBar /\ zBar' = zBar
    BY <2>2 DEF yBar, zBar, window
  <2>7. pendingBar = {} /\ pendingBar' = {}
    BY <2>2 DEF pendingBar
  <2>8. phaseBar < FILTER_FIR_DECIMATION_FACTOR /\ phaseBar' = phaseBar + 1
    <3>1. sampleCount \in Int /\ sampleCount < FILTER_FIR_DECIMATION_FACTOR
      BY <1>0, Parameters DEF StageInv
    <3>2. phaseBar = sampleCount
      BY <2>2 DEF phaseBar
    <3>3. phaseBar' = sampleCount + 1
      <4>1. CASE sampleCount + 1 = FILTER_FIR_DECIMATION_FACTOR
        <5>1. pc' = "fir"
          BY <2>2, <4>1
        <5>2. QED BY <4>1, <5>1 DEF phaseBar
      <4>2. CASE sampleCount + 1 # FILTER_FIR_DECIMATION_FACTOR
        <5>1. pc' = "samples" /\ sampleCount' = sampleCount + 1
          BY <2>2, <4>2
        <5>2. QED BY <5>1 DEF phaseBar
      <4>3. QED BY <4>1, <4>2
    <3>4. QED BY <3>1, <3>2, <3>3
  <2>9. Equation!NewInput
    BY <2>3, <2>4, <2>5, <2>6, <2>7, <2>8
       DEF Equation!NewInput, xBar, yBar, zBar, phaseBar, pendingBar
  <2>10. QED BY <2>9 DEF Equation!Next
<1>7. CASE filter_firFilter
  <2>1. /\ phase = "mode" /\ phase' = "mode" /\ pc = "fir" /\ pc' = "channels"
        /\ channel' = 0 /\ UNCHANGED <<xQueue, zQueue, sampleCount>>
        /\ yQueue' = queue_overwritePush(yQueue, firOutput(xQueue))
    BY <1>7 DEF filter_firFilter, inMode
  <2>2. firOutput(xQueue) = Equation!sum(firBcoeff, xBar)
    BY <1>0, <2>1, BarsInMode, WeighIsSum, Parameters DEF QueueInv, firOutput
  <2>3. yBar' = Equation!later(yBar, firOutput(xQueue))
    BY <1>0, <2>1, OutputType, BarsInMode, BarsInModeNext, WindowPush, Parameters
       DEF QueueInv
  <2>4. xBar' = xBar /\ zBar' = zBar
    BY <2>1 DEF xBar, zBar, window
  <2>5. pendingBar = {} /\ pendingBar' = Equation!Filters
    BY <1>1, <2>1 DEF pendingBar, FilterNumber, Last
  <2>6. phaseBar = FILTER_FIR_DECIMATION_FACTOR /\ phaseBar' = 0
    BY <1>0, <2>1 DEF phaseBar, StageInv
  <2>7. yBar' = Equation!later(yBar, Equation!sum(firBcoeff, xBar))
    BY <2>2, <2>3
  <2>8. Equation!Fir
    BY <2>4, <2>5, <2>6, <2>7
       DEF Equation!Fir, xBar, yBar, zBar, phaseBar, pendingBar
  <2>9. QED BY <2>8 DEF Equation!Next
<1>8. CASE runChannel
  <2> DEFINE v == iirOutput(yQueue, zQueue[channel], channel)
             z == queue_overwritePush(zQueue[channel], v)
             count == IIR_A_COEFFICIENT_COUNT
  <2>1. /\ phase = "mode" /\ phase' = "mode" /\ pc = "channels"
        /\ channel \in FilterNumber
        /\ channel' = channel + 1 /\ UNCHANGED <<xQueue, yQueue, sampleCount>>
        /\ zQueue' = [zQueue EXCEPT ![channel] = z]
        /\ IF channel < Last THEN pc' = pc ELSE pc' \in {"samples", "computeHit"}
    BY <1>0, <1>8 DEF runChannel, inMode, StageInv
  <2>2. v = Equation!sum(iirBcoeff[channel], yBar)
              - Equation!sum(iirAcoeff[channel], zBar[channel])
    <3>1. weigh(yQueue, iirBcoeff[channel], IIR_B_COEFFICIENT_COUNT)
            = Equation!sum(iirBcoeff[channel], yBar)
      BY <1>0, <2>1, BarsInMode, WeighIsSum, Parameters DEF QueueInv
    <3>2. zBar[channel] = WindowOf(zQueue[channel], IIR_A_COEFFICIENT_COUNT)
      BY <2>1, BarsInMode
    <3>3. weigh(zQueue[channel], iirAcoeff[channel], IIR_A_COEFFICIENT_COUNT)
            = Equation!sum(iirAcoeff[channel], zBar[channel])
      BY <1>0, <2>1, <3>2, WeighIsSum, Parameters DEF QueueInv
    <3>4. QED BY <3>1, <3>3, Zenon DEF iirOutput
  <2>3. v \in Int
    BY <1>0, <2>1, OutputType
  <2> HIDE DEF v
  <2>4. WindowOf(z, count) = Equation!later(WindowOf(zQueue[channel], count), v)
    BY <1>0, <2>1, <2>3, WindowPush, Parameters DEF QueueInv
  <2>5. zBar' = [zBar EXCEPT ![channel] = Equation!later(zBar[channel], v)]
    <3>1. /\ zBar = [f \in FilterNumber |-> WindowOf(zQueue[f], count)]
          /\ zBar' = [f \in FilterNumber |-> WindowOf(zQueue'[f], count)]
      BY <2>1, BarsInMode, BarsInModeNext
    <3> HIDE DEF z, count
    <3>2. \A f \in FilterNumber : zQueue'[f] = IF f = channel THEN z ELSE zQueue[f]
      BY <1>0, <2>1 DEF QueueInv
    <3>3. zBar[channel] = WindowOf(zQueue[channel], count)
      BY <2>1, <3>1
    <3>4. QED BY <2>1, <2>4, <3>1, <3>2, <3>3
  <2>6. xBar' = xBar /\ yBar' = yBar
    BY <2>1 DEF xBar, yBar, window
  <2>7. phaseBar' = phaseBar
    BY <2>1 DEF phaseBar
  <2>8. channel \in pendingBar /\ pendingBar' = pendingBar \ {channel}
    BY <2>1, Sizes DEF pendingBar, FilterNumber, Last
  <2>9. Equation!Iir(channel)
    BY <2>2, <2>5, <2>6, <2>7, <2>8
       DEF Equation!Iir, xBar, yBar, zBar, phaseBar, pendingBar
  <2>10. QED BY <1>1, <2>1, <2>9 DEF Equation!Next
<1>9. CASE exit
  BY <1>2, <1>9 DEF exit, inMode, queues
<1>10. CASE UNCHANGED vars
  BY <1>10 DEF vars, detectorVars, queues, Equation!vars, window
<1>11. CASE callDetector \/ detectorReturns
  BY <1>2, <1>11 DEF callDetector, detectorReturns, inMode, queues
<1>12. QED BY <1>3, <1>4, <1>5, <1>6, <1>7, <1>8, <1>9, <1>10, <1>11 DEF Next

\* filter.c:134-163, detector.c:98-106: ring buffers read from the out index on
\* compute the difference equations of filter.h:18-23, for filters and queues
\* of any length, however the calls of detector() divide the samples: every window holds the latest values, newest at age 0.
THEOREM ChainImplementsDifferenceEquation == Spec => ImplementsDifferenceEquation
BY EquationInit, EquationNext, ChainInvariant, PTL
   DEF Spec, ImplementsDifferenceEquation, Equation!Spec
=============================================================================

-------------------------- MODULE QueueFifo_proofs --------------------------
(***************************************************************************)
(* Theorems about the queue of queue.c for every size and set of values.   *)
(* The lemmas are about any queue_t r that queue_init(Size) and the three  *)
(* operations can make (Sound), so that queue_overwritePush, a pop and a   *)
(* push, follows from the lemmas about the two.                            *)
(***************************************************************************)
EXTENDS QueueFifo, SequenceTheorems, TLAPS

Element == Value \cup {EmptySlot}

QueueType ==
  [indexIn : Slot, indexOut : Slot, elementCount : 0 .. Size,
   size : {Size + 1}, data : [Slot -> Element]]

LengthOf(r) == IF r.indexOut <= r.indexIn THEN r.indexIn - r.indexOut
                                          ELSE r.indexIn + r.size - r.indexOut

Sound(r) == r \in QueueType /\ r.elementCount = LengthOf(r)

ContentsOf(r) == [k \in 1 .. r.elementCount |-> queue_readElementAt(r, k - 1)]

\* The fields of a sound queue, one fact each.
LEMMA Fields ==
  ASSUME NEW r, Sound(r)
  PROVE /\ r.indexIn \in 0 .. Size /\ r.indexOut \in 0 .. Size
        /\ r.elementCount \in 0 .. Size /\ r.size = Size + 1
        /\ r.data \in [0 .. Size -> Element]
        /\ r.elementCount = IF r.indexOut <= r.indexIn
                            THEN r.indexIn - r.indexOut
                            ELSE r.indexIn + Size + 1 - r.indexOut
<1>1. r \in QueueType /\ r.elementCount = LengthOf(r)
  BY DEF Sound
<1>2. r.indexIn \in 0 .. Size /\ r.indexOut \in 0 .. Size
  BY <1>1 DEF QueueType, Slot
<1>3. r.elementCount \in 0 .. Size /\ r.size = Size + 1
  BY <1>1 DEF QueueType, Slot
<1>4. r.data \in [0 .. Size -> Element]
  BY <1>1 DEF QueueType, Slot
<1>5. r.elementCount = IF r.indexOut <= r.indexIn
                       THEN r.indexIn - r.indexOut
                       ELSE r.indexIn + Size + 1 - r.indexOut
  BY <1>1, <1>2, <1>3, QueueFifoAssumption DEF LengthOf
<1>6. QED BY <1>2, <1>3, <1>4, <1>5

\* Advancing an index stays in the storage.
LEMMA Advance ==
  ASSUME NEW p \in 0 .. Size
  PROVE /\ queue_advancePtr(p, Size + 1) = IF p = Size THEN 0 ELSE p + 1
        /\ queue_advancePtr(p, Size + 1) \in 0 .. Size
BY QueueFifoAssumption DEF queue_advancePtr

\* The two tests say what the counter says.
LEMMA Tests ==
  ASSUME NEW r, Sound(r)
  PROVE /\ queueFull(r) <=> r.elementCount = Size
        /\ queue_empty(r) <=> r.elementCount = 0
<1>1. /\ r.indexIn \in 0 .. Size /\ r.indexOut \in 0 .. Size
      /\ r.size = Size + 1
      /\ r.elementCount = IF r.indexOut <= r.indexIn
                          THEN r.indexIn - r.indexOut
                          ELSE r.indexIn + Size + 1 - r.indexOut
  BY Fields
<1>2. queueFull(r) <=> r.elementCount = Size
  BY <1>1, QueueFifoAssumption DEF queueFull
<1>3. queue_empty(r) <=> r.elementCount = 0
  BY <1>1, QueueFifoAssumption DEF queue_empty
<1>4. QED BY <1>2, <1>3

\* The slot of the k-th element without %.
LEMMA SlotOfElement ==
  ASSUME NEW out \in 0 .. Size, NEW k \in 1 .. Size + 1
  PROVE /\ (k - 1 + out) % (Size + 1) = IF k - 1 + out <= Size
                                        THEN k - 1 + out
                                        ELSE k - 1 + out - (Size + 1)
        /\ (k - 1 + out) % (Size + 1) \in 0 .. Size
BY QueueFifoAssumption

LEMMA ReadElement ==
  ASSUME NEW r, Sound(r), NEW k \in 1 .. Size + 1
  PROVE queue_readElementAt(r, k - 1) =
          r.data[IF k - 1 + r.indexOut <= Size THEN k - 1 + r.indexOut
                                               ELSE k - 1 + r.indexOut - (Size + 1)]
BY Fields, SlotOfElement DEF queue_readElementAt

\* What a reader sees is a sequence of elementCount elements.
LEMMA ContentsType ==
  ASSUME NEW r, Sound(r)
  PROVE /\ ContentsOf(r) \in Seq(Element)
        /\ Len(ContentsOf(r)) = r.elementCount
        /\ \A k \in 1 .. r.elementCount :
             ContentsOf(r)[k] = queue_readElementAt(r, k - 1)
<1>1. r.elementCount \in Nat /\ r.elementCount \in 0 .. Size
  BY Fields, QueueFifoAssumption
<1>2. ASSUME NEW k \in 1 .. r.elementCount
      PROVE queue_readElementAt(r, k - 1) \in Element
  <2>1. k \in 1 .. Size + 1
    BY <1>1, QueueFifoAssumption
  <2>2. (k - 1 + r.indexOut) % (Size + 1) \in 0 .. Size
    BY <2>1, Fields, SlotOfElement
  <2>3. QED BY <2>2, Fields DEF queue_readElementAt
<1>3. ContentsOf(r) \in [1 .. r.elementCount -> Element]
  BY <1>2 DEF ContentsOf
<1>4. ContentsOf(r) \in Seq(Element) /\ Len(ContentsOf(r)) = r.elementCount
  BY <1>1, <1>3
<1>5. QED BY <1>4 DEF ContentsOf
-----------------------------------------------------------------------------
\* What the fields are after a push to a queue with room.
LEMMA PushFields ==
  ASSUME NEW r, Sound(r), NEW value \in Value, ~queueFull(r),
         NEW s, s = queue_push(r, value)
  PROVE /\ Sound(s)
        /\ s.indexOut = r.indexOut
        /\ s.elementCount = r.elementCount + 1
        /\ s.data = [r.data EXCEPT ![r.indexIn] = value]
<1>1. s = [r EXCEPT !.data[r.indexIn] = value,
                    !.indexIn = queue_advancePtr(r.indexIn, r.size),
                    !.elementCount = @ + 1]
  BY DEF queue_push
<1>2. r \in QueueType
  BY DEF Sound
<1>3. /\ s.indexOut = r.indexOut /\ s.size = r.size
      /\ s.elementCount = r.elementCount + 1
      /\ s.indexIn = queue_advancePtr(r.indexIn, r.size)
      /\ s.data = [r.data EXCEPT ![r.indexIn] = value]
  BY <1>1, <1>2 DEF QueueType
<1>4. r.elementCount < Size
  BY Tests, Fields, QueueFifoAssumption
<1>5. s.data \in [0 .. Size -> Element]
  BY <1>3, Fields DEF Element
<1>6. s.indexIn \in 0 .. Size /\ s.elementCount \in 0 .. Size
  <2>1. /\ r.indexIn \in 0 .. Size /\ r.size = Size + 1
        /\ r.elementCount \in 0 .. Size
    BY Fields
  <2>2. queue_advancePtr(r.indexIn, Size + 1) \in 0 .. Size
    BY <2>1, Advance
  <2>3. s.elementCount \in 0 .. Size
    BY <1>3, <1>4, <2>1, QueueFifoAssumption
  <2>4. QED BY <1>3, <2>1, <2>2, <2>3
<1>7. s \in QueueType
  <2>1. s = [indexIn |-> s.indexIn, indexOut |-> s.indexOut,
             elementCount |-> s.elementCount, size |-> s.size, data |-> s.data]
    BY <1>1, <1>2 DEF QueueType
  <2>2. QED BY <1>3, <1>5, <1>6, <2>1, Fields DEF QueueType, Slot
<1>8. s.elementCount = LengthOf(s)
  <2>1. /\ r.indexIn \in 0 .. Size /\ r.indexOut \in 0 .. Size
        /\ r.size = Size + 1
        /\ r.elementCount = IF r.indexOut <= r.indexIn
                            THEN r.indexIn - r.indexOut
                            ELSE r.indexIn + Size + 1 - r.indexOut
    BY Fields
  <2>2. s.indexIn = IF r.indexIn = Size THEN 0 ELSE r.indexIn + 1
    BY <1>3, <2>1, Advance
  <2>3. QED BY <1>3, <1>4, <2>1, <2>2, QueueFifoAssumption DEF LengthOf
<1>9. QED BY <1>3, <1>7, <1>8 DEF Sound

\* A push to a queue with room appends what the reader sees.
LEMMA PushAppends ==
  ASSUME NEW r, Sound(r), NEW value \in Value, ~queueFull(r),
         NEW s, s = queue_push(r, value)
  PROVE ContentsOf(s) = Append(ContentsOf(r), value)
<1> DEFINE n == r.elementCount
<1>1. /\ Sound(s) /\ s.indexOut = r.indexOut /\ s.elementCount = n + 1
      /\ s.data = [r.data EXCEPT ![r.indexIn] = value]
  BY PushFields
<1>2. n \in Nat /\ n < Size
  BY Tests, Fields, QueueFifoAssumption
<1>3. /\ ContentsOf(r) \in Seq(Element) /\ Len(ContentsOf(r)) = n
      /\ \A k \in 1 .. n : ContentsOf(r)[k] = queue_readElementAt(r, k - 1)
      /\ ContentsOf(s) \in Seq(Element) /\ Len(ContentsOf(s)) = n + 1
      /\ \A k \in 1 .. n + 1 : ContentsOf(s)[k] = queue_readElementAt(s, k - 1)
  BY <1>1, ContentsType
<1>4. value \in Element
  BY DEF Element
<1>5. /\ Append(ContentsOf(r), value) \in Seq(Element)
      /\ Len(Append(ContentsOf(r), value)) = n + 1
      /\ \A k \in 1 .. n : Append(ContentsOf(r), value)[k] = ContentsOf(r)[k]
      /\ Append(ContentsOf(r), value)[n + 1] = value
  BY <1>3, <1>4, AppendProperties
<1>6. ASSUME NEW k \in 1 .. n + 1
      PROVE ContentsOf(s)[k] = Append(ContentsOf(r), value)[k]
  <2> DEFINE slot == IF k - 1 + r.indexOut <= Size THEN k - 1 + r.indexOut
                     ELSE k - 1 + r.indexOut - (Size + 1)
  <2>1. k \in 1 .. Size + 1
    BY <1>2, QueueFifoAssumption
  <2>2. queue_readElementAt(r, k - 1) = r.data[slot]
    BY <2>1, ReadElement
  <2>3. queue_readElementAt(s, k - 1) = s.data[slot]
    <3>1. queue_readElementAt(s, k - 1) =
            s.data[IF k - 1 + s.indexOut <= Size THEN k - 1 + s.indexOut
                   ELSE k - 1 + s.indexOut - (Size + 1)]
      BY <1>1, <2>1, ReadElement
    <3>2. QED BY <1>1, <3>1
  <2>4. slot \in 0 .. Size /\ (slot = r.indexIn <=> k = n + 1)
    <3>1. /\ r.indexIn \in 0 .. Size /\ r.indexOut \in 0 .. Size
          /\ n = IF r.indexOut <= r.indexIn
                 THEN r.indexIn - r.indexOut
                 ELSE r.indexIn + Size + 1 - r.indexOut
      BY Fields
    <3>2. QED BY <1>2, <2>1, <3>1, QueueFifoAssumption
  <2>5. s.data[slot] = IF k = n + 1 THEN value ELSE r.data[slot]
    BY <1>1, <2>4, Fields
  <2> HIDE DEF slot
  <2>6. CASE k = n + 1
    BY <1>3, <1>5, <2>3, <2>5, <2>6
  <2>7. CASE k # n + 1
    <3>1. k \in 1 .. n
      BY <1>2, <2>7
    <3>2. QED BY <1>3, <1>5, <2>2, <2>3, <2>5, <2>7, <3>1
  <2>8. QED BY <2>6, <2>7
<1> HIDE DEF n
<1>7. QED BY <1>3, <1>5, <1>6, SeqEqual, Zenon
-----------------------------------------------------------------------------
\* What the fields are after a pop from a queue with elements.
LEMMA PopFields ==
  ASSUME NEW r, Sound(r), ~queue_empty(r), NEW s, s = queue_pop(r)
  PROVE /\ Sound(s)
        /\ s.indexOut = queue_advancePtr(r.indexOut, Size + 1)
        /\ s.elementCount = r.elementCount - 1
        /\ s.data = r.data
<1>1. s = [r EXCEPT !.indexOut = queue_advancePtr(r.indexOut, r.size),
                    !.elementCount = @ - 1]
  BY DEF queue_pop
<1>2. r \in QueueType
  BY DEF Sound
<1>3. /\ s.indexIn = r.indexIn /\ s.size = r.size /\ s.data = r.data
      /\ s.elementCount = r.elementCount - 1
      /\ s.indexOut = queue_advancePtr(r.indexOut, r.size)
  BY <1>1, <1>2 DEF QueueType
<1>4. r.elementCount > 0
  BY Tests, Fields, QueueFifoAssumption
<1>5. s.indexOut \in 0 .. Size /\ s.elementCount \in 0 .. Size
  <2>1. s.indexOut \in 0 .. Size
    BY <1>3, Fields, Advance
  <2>2. r.elementCount \in 0 .. Size
    BY Fields
  <2>3. QED BY <1>3, <1>4, <2>1, <2>2, QueueFifoAssumption
<1>6. s \in QueueType
  <2>1. s = [indexIn |-> s.indexIn, indexOut |-> s.indexOut,
             elementCount |-> s.elementCount, size |-> s.size, data |-> s.data]
    BY <1>1, <1>2 DEF QueueType
  <2>2. QED BY <1>3, <1>5, <2>1, Fields DEF QueueType, Slot
<1>7. s.elementCount = LengthOf(s)
  <2>1. /\ r.indexIn \in 0 .. Size /\ r.indexOut \in 0 .. Size
        /\ r.size = Size + 1
        /\ r.elementCount = IF r.indexOut <= r.indexIn
                            THEN r.indexIn - r.indexOut
                            ELSE r.indexIn + Size + 1 - r.indexOut
    BY Fields
  <2>2. s.indexOut = IF r.indexOut = Size THEN 0 ELSE r.indexOut + 1
    BY <1>3, <2>1, Advance
  <2>3. QED BY <1>3, <1>4, <2>1, <2>2, QueueFifoAssumption DEF LengthOf
<1>8. s.indexOut = queue_advancePtr(r.indexOut, Size + 1)
  BY <1>3, Fields
<1>9. QED BY <1>3, <1>6, <1>7, <1>8 DEF Sound

\* A pop from a queue with elements returns and removes the oldest.
LEMMA PopTakesHead ==
  ASSUME NEW r, Sound(r), ~queue_empty(r), NEW s, s = queue_pop(r)
  PROVE /\ ContentsOf(r) # <<>>
        /\ queue_popValue(r) = Head(ContentsOf(r))
        /\ ContentsOf(s) = Tail(ContentsOf(r))
<1> DEFINE n == r.elementCount
<1>1. /\ Sound(s) /\ s.elementCount = n - 1 /\ s.data = r.data
      /\ s.indexOut = queue_advancePtr(r.indexOut, Size + 1)
  BY PopFields
<1>2. n \in Nat /\ n >= 1 /\ n <= Size
  BY Tests, Fields, QueueFifoAssumption
<1>3. /\ ContentsOf(r) \in Seq(Element) /\ Len(ContentsOf(r)) = n
      /\ \A k \in 1 .. n : ContentsOf(r)[k] = queue_readElementAt(r, k - 1)
      /\ ContentsOf(s) \in Seq(Element) /\ Len(ContentsOf(s)) = n - 1
      /\ \A k \in 1 .. n - 1 : ContentsOf(s)[k] = queue_readElementAt(s, k - 1)
  BY <1>1, ContentsType
<1>4. ContentsOf(r) # <<>>
  BY <1>2, <1>3
<1>5. queue_popValue(r) = Head(ContentsOf(r))
  <2>1. r.indexOut \in 0 .. Size
    BY Fields
  <2>2. 1 \in 1 .. Size + 1 /\ 1 \in 1 .. n
    BY <1>2, QueueFifoAssumption
  <2>3. queue_readElementAt(r, 1 - 1) =
          r.data[IF 1 - 1 + r.indexOut <= Size THEN 1 - 1 + r.indexOut
                 ELSE 1 - 1 + r.indexOut - (Size + 1)]
    BY <2>2, ReadElement
  <2>4. queue_readElementAt(r, 1 - 1) = r.data[r.indexOut]
    BY <2>1, <2>3, QueueFifoAssumption
  <2>5. ContentsOf(r)[1] = r.data[r.indexOut]
    BY <1>3, <2>2, <2>4
  <2>6. QED BY <1>3, <1>4, <2>5 DEF queue_popValue
<1>6. /\ Tail(ContentsOf(r)) \in Seq(Element)
      /\ Len(Tail(ContentsOf(r))) = n - 1
      /\ \A k \in 1 .. n - 1 : Tail(ContentsOf(r))[k] = ContentsOf(r)[k + 1]
  BY <1>2, <1>3, <1>4, HeadTailProperties
<1>7. ASSUME NEW k \in 1 .. n - 1
      PROVE ContentsOf(s)[k] = Tail(ContentsOf(r))[k]
  <2>1. /\ k \in 1 .. Size + 1 /\ k + 1 \in 1 .. Size + 1 /\ k + 1 \in 1 .. n
        /\ k + 1 - 1 = k
    BY <1>2, QueueFifoAssumption
  <2>2. queue_readElementAt(s, k - 1) =
          s.data[IF k - 1 + s.indexOut <= Size THEN k - 1 + s.indexOut
                 ELSE k - 1 + s.indexOut - (Size + 1)]
    BY <1>1, <2>1, ReadElement
  <2>3. queue_readElementAt(r, (k + 1) - 1) =
          r.data[IF (k + 1) - 1 + r.indexOut <= Size THEN (k + 1) - 1 + r.indexOut
                 ELSE (k + 1) - 1 + r.indexOut - (Size + 1)]
    BY <2>1, ReadElement
  <2>4. r.indexOut \in 0 .. Size
    BY Fields
  <2>5. s.indexOut = IF r.indexOut = Size THEN 0 ELSE r.indexOut + 1
    BY <1>1, <2>4, Advance
  <2>6. (IF k - 1 + s.indexOut <= Size THEN k - 1 + s.indexOut
         ELSE k - 1 + s.indexOut - (Size + 1))
        = (IF (k + 1) - 1 + r.indexOut <= Size THEN (k + 1) - 1 + r.indexOut
           ELSE (k + 1) - 1 + r.indexOut - (Size + 1))
    BY <1>2, <2>1, <2>4, <2>5, QueueFifoAssumption
  <2>7. queue_readElementAt(s, k - 1) = queue_readElementAt(r, (k + 1) - 1)
    BY <1>1, <2>2, <2>3, <2>6
  <2>8. QED BY <1>3, <1>6, <2>1, <2>7
<1> HIDE DEF n
<1>8. ContentsOf(s) = Tail(ContentsOf(r))
  BY <1>3, <1>6, <1>7, SeqEqual, Zenon
<1>9. QED BY <1>4, <1>5, <1>8
-----------------------------------------------------------------------------
\* A push, refused or not.
LEMMA Push ==
  ASSUME NEW r, Sound(r), NEW value \in Value, NEW s, s = queue_push(r, value)
  PROVE /\ Sound(s)
        /\ ContentsOf(s) = IF r.elementCount = Size THEN ContentsOf(r)
                           ELSE Append(ContentsOf(r), value)
<1>1. CASE queueFull(r)
  <2>1. s = r
    BY <1>1 DEF queue_push
  <2>2. QED BY <1>1, <2>1, Tests
<1>2. CASE ~queueFull(r)
  BY <1>2, Tests, PushFields, PushAppends
<1>3. QED BY <1>1, <1>2

\* An overwriting push always stores its value.
LEMMA OverwritePush ==
  ASSUME NEW r, Sound(r), NEW value \in Value,
         NEW s, s = queue_overwritePush(r, value)
  PROVE /\ Sound(s)
        /\ ContentsOf(s) = IF r.elementCount = Size
                           THEN Append(Tail(ContentsOf(r)), value)
                           ELSE Append(ContentsOf(r), value)
<1>1. CASE queueFull(r)
  <2> DEFINE p == queue_pop(r)
  <2>1. s = queue_push(p, value)
    BY <1>1 DEF queue_overwritePush
  <2>2. r.elementCount = Size /\ ~queue_empty(r)
    BY <1>1, Tests, QueueFifoAssumption
  <2>3. /\ Sound(p) /\ p.elementCount = r.elementCount - 1
        /\ ContentsOf(p) = Tail(ContentsOf(r))
    BY <2>2, PopFields, PopTakesHead
  <2>4. p.elementCount # Size
    BY <2>2, <2>3, QueueFifoAssumption
  <2> HIDE DEF p
  <2>5. Sound(s) /\ ContentsOf(s) = Append(ContentsOf(p), value)
    BY <2>1, <2>3, <2>4, Push
  <2>6. QED BY <2>2, <2>3, <2>5
<1>2. CASE ~queueFull(r)
  <2>1. s = queue_push(r, value)
    BY <1>2 DEF queue_overwritePush
  <2>2. r.elementCount # Size
    BY <1>2, Tests
  <2>3. QED BY <2>1, <2>2, Push
<1>3. QED BY <1>1, <1>2

\* What a pop returns is an element or what queue_init left in the slot.
LEMMA PopValue ==
  ASSUME NEW r, Sound(r)
  PROVE queue_popValue(r) \in Element
BY Fields DEF queue_popValue

\* A pop from an empty queue leaves it alone.
LEMMA PopNothing ==
  ASSUME NEW r, Sound(r), queue_empty(r)
  PROVE queue_pop(r) = r /\ ContentsOf(r) = <<>>
<1>1. r.elementCount = 0
  BY Tests
<1>2. ContentsOf(r) \in Seq(Element) /\ Len(ContentsOf(r)) = 0
  BY <1>1, ContentsType
<1>3. QED BY <1>2 DEF queue_pop
-----------------------------------------------------------------------------
\* The inductive invariant: the counter kept beside the two indices is their
\* distance.
IInv == Sound(q) /\ popped \in Element

LEMMA InitInv == Init => IInv /\ Contents = <<>>
<1> SUFFICES ASSUME Init PROVE IInv /\ Contents = <<>>
  OBVIOUS
<1>1. q = [indexIn |-> 0, indexOut |-> 0, elementCount |-> 0,
           size |-> Size + 1, data |-> [slot \in 0 .. Size |-> EmptySlot]]
  BY DEF Init, queue_init
<1>2. q \in QueueType
  BY <1>1, QueueFifoAssumption DEF QueueType, Slot, Element
<1>3. q.elementCount = LengthOf(q) /\ q.elementCount = 0
  BY <1>1 DEF LengthOf
<1>4. Sound(q)
  BY <1>2, <1>3 DEF Sound
<1>5. ContentsOf(q) \in Seq(Element) /\ Len(ContentsOf(q)) = 0
  BY <1>3, <1>4, ContentsType
<1>6. Contents = <<>>
  <2>1. ContentsOf(q) = <<>>
    BY <1>5
  <2>2. QED BY <2>1 DEF Contents, ContentsOf, queue_elementCount
<1>7. QED BY <1>4, <1>6 DEF IInv, Init, Element

LEMMA Step ==
  ASSUME IInv, [Next]_vars
  PROVE IInv'
<1>1. ASSUME NEW value \in Value, push(value)
      PROVE IInv'
  BY <1>1, Push DEF push, IInv
<1>2. ASSUME NEW value \in Value, overwritePush(value)
      PROVE IInv'
  BY <1>2, OverwritePush DEF overwritePush, IInv
<1>3. CASE pop
  <2>1. popped' \in Element
    BY <1>3, PopValue DEF pop, IInv
  <2>2. Sound(q')
    BY <1>3, PopFields, PopNothing DEF pop, IInv
  <2>3. QED BY <2>1, <2>2 DEF IInv
<1>4. CASE UNCHANGED vars
  BY <1>4 DEF vars, IInv
<1>5. QED BY <1>1, <1>2, <1>3, <1>4 DEF Next

LEMMA Invariance == Spec => []IInv
BY InitInv, Step, PTL DEF Spec

\* queue.c: indices and counter never leave their ranges, whatever the calls;
\* in particular the unsigned elementCount never goes below 0.
THEOREM TypeCorrect == Spec => []TypeOK
<1>1. IInv => TypeOK
  BY DEF IInv, Sound, TypeOK, QueueType, Element
<1>2. QED BY <1>1, Invariance, PTL

\* queue.c:41-51, 98-100: the counter, the indices and the two tests agree.
THEOREM Agreement == Spec => []CountsAgree
<1>1. IInv => CountsAgree
  <2> SUFFICES ASSUME IInv PROVE CountsAgree
    OBVIOUS
  <2>1. Sound(q) /\ q.elementCount = LengthOf(q)
    BY DEF IInv, Sound
  <2>2. Length = q.elementCount
    BY <2>1 DEF Length, LengthOf
  <2>3. QED BY <2>1, <2>2, Tests DEF CountsAgree, queue_elementCount
<1>2. QED BY <1>1, Invariance, PTL

\* queue.h:36-51: read through its access functions the queue is a FIFO of
\* exactly Size elements, for every size and under every sequence of calls.
THEOREM QueueRefines == Spec => ImplementsQueue
<1>0. /\ Contents = ContentsOf(q)
      /\ Contents' = ContentsOf(q')
  BY DEF Contents, ContentsOf, queue_elementCount
<1>1. Init => Bounded!Init
  BY InitInv DEF Init, Bounded!Init
<1>2. IInv /\ [Next]_vars => [Bounded!Next]_Bounded!vars
  <2> SUFFICES ASSUME IInv, [Next]_vars PROVE [Bounded!Next]_Bounded!vars
    OBVIOUS
  <2>0. Sound(q) /\ Len(Contents) = q.elementCount
    BY <1>0, ContentsType DEF IInv
  <2>1. ASSUME NEW value \in Value, push(value)
        PROVE Bounded!Push(value)
    BY <1>0, <2>0, <2>1, Push DEF push, Bounded!Push, Bounded!Full
  <2>2. ASSUME NEW value \in Value, overwritePush(value)
        PROVE Bounded!OverwritePush(value)
    BY <1>0, <2>0, <2>2, OverwritePush
       DEF overwritePush, Bounded!OverwritePush, Bounded!Full
  <2>3. CASE pop /\ ~queue_empty(q)
    <3>1. Bounded!Pop
      BY <1>0, <2>0, <2>3, PopTakesHead DEF pop, Bounded!Pop
    <3>2. QED BY <3>1 DEF Bounded!Next
  <2>4. CASE pop /\ queue_empty(q)
    <3>1. popped' \in Element
      BY <2>0, <2>4, PopValue DEF pop
    <3>2. q' = q /\ Contents = <<>>
      BY <1>0, <2>0, <2>4, PopNothing DEF pop
    <3>3. Bounded!PopNothing
      BY <1>0, <3>1, <3>2 DEF Bounded!PopNothing, Element
    <3>4. QED BY <3>3 DEF Bounded!Next
  <2>5. CASE UNCHANGED vars
    <3>1. UNCHANGED <<Contents, popped>>
      BY <1>0, <2>5 DEF vars
    <3>2. QED BY <3>1 DEF Bounded!vars
  <2>6. QED
    BY <2>1, <2>2, <2>3, <2>4, <2>5 DEF Next, Bounded!Next
<1>3. QED
  BY <1>1, <1>2, Invariance, PTL DEF Spec, ImplementsQueue, Bounded!Spec
=============================================================================

-------------------------- MODULE AdcBuffer_proofs --------------------------
(***************************************************************************)
(* Theorems about AdcBuffer for every ADC_BUFFER_SIZE >= 2 and every range *)
(* of samples. CountCoversValues is inductive together with BufferTypeOK;  *)
(* the refinement of BoundedFifo needs only BufferTypeOK. The lemmas on a  *)
(* removal do not mention the counter, so that AdcDrain_proofs can use     *)
(* them for the step that moves the out index.                             *)
(***************************************************************************)
EXTENDS AdcBuffer, SequenceTheorems, TLAPS

\* The modular increment written without %: every later step uses this form.
LEMMA IncrementValue ==
  ASSUME NEW index \in Slot
  PROVE /\ increment(index) = IF index = ADC_BUFFER_SIZE - 1 THEN 0 ELSE index + 1
        /\ increment(index) \in Slot
BY AdcBufferAssumption DEF Slot, increment

\* The number of values never reaches the number of slots.
LEMMA LengthType ==
  ASSUME indexIn \in Slot, indexOut \in Slot
  PROVE /\ Length \in 0 .. ADC_BUFFER_SIZE - 1
        /\ Length = 0 <=> isEmpty
BY AdcBufferAssumption DEF Slot, Length, isEmpty

\* What one added value does to the number of values.
LEMMA LengthAfterAdd ==
  ASSUME BufferTypeOK, NEW adcData \in Sample, addDataToAdcBuffer(adcData)
  PROVE Length' = IF Length = ADC_BUFFER_SIZE - 1 THEN Length ELSE Length + 1
<1>1. /\ increment(indexIn) = IF indexIn = ADC_BUFFER_SIZE - 1 THEN 0 ELSE indexIn + 1
      /\ increment(indexOut) = IF indexOut = ADC_BUFFER_SIZE - 1 THEN 0 ELSE indexOut + 1
  BY IncrementValue DEF BufferTypeOK
<1>2. /\ indexIn' = increment(indexIn)
      /\ indexOut' = IF increment(indexIn) = indexOut
                     THEN increment(indexOut) ELSE indexOut
  BY DEF addDataToAdcBuffer
<1>3. indexIn \in Slot /\ indexOut \in Slot
  BY DEF BufferTypeOK
<1>4. QED BY <1>1, <1>2, <1>3, AdcBufferAssumption DEF Slot, Length

\* What a removal does apart from the counter.
removal ==
  /\ IF isEmpty
     THEN returnValue' = 0 /\ UNCHANGED indexOut
     ELSE returnValue' = data[indexOut] /\ indexOut' = increment(indexOut)
  /\ UNCHANGED <<indexIn, data>>

LEMMA RemoveIsRemoval == isr_removeDataFromAdcBuffer => removal
BY DEF isr_removeDataFromAdcBuffer, removal

\* What a removal does to the number of values.
LEMMA LengthAfterRemove ==
  ASSUME BufferTypeOK, removal
  PROVE Length' = IF isEmpty THEN Length ELSE Length - 1
<1>1. increment(indexOut) = IF indexOut = ADC_BUFFER_SIZE - 1 THEN 0 ELSE indexOut + 1
  BY IncrementValue DEF BufferTypeOK
<1>2. /\ indexIn' = indexIn
      /\ indexOut' = IF isEmpty THEN indexOut ELSE increment(indexOut)
  BY DEF removal
<1>3. indexIn \in Slot /\ indexOut \in Slot
  BY DEF BufferTypeOK
<1>4. QED BY <1>1, <1>2, <1>3, AdcBufferAssumption DEF Slot, Length, isEmpty

\* Both operations keep every variable in its range, the counter included,
\* provided the counter covers the values: otherwise a removal could take it
\* below zero.
LEMMA BufferTypeStep ==
  ASSUME BufferTypeOK, CountCoversValues, [BufferNext]_bufferVars
  PROVE BufferTypeOK'
<1>1. ASSUME NEW adcData \in Sample, addDataToAdcBuffer(adcData)
      PROVE BufferTypeOK'
  BY <1>1, IncrementValue, AdcBufferAssumption
     DEF BufferTypeOK, addDataToAdcBuffer
<1>2. CASE isr_removeDataFromAdcBuffer
  <2>1. CASE isEmpty
    BY <1>2, <2>1, AdcBufferAssumption
       DEF BufferTypeOK, isr_removeDataFromAdcBuffer, Sample
  <2>2. CASE ~isEmpty
    <3>1. elementCount' \in 0 .. ADC_BUFFER_SIZE
      BY <1>2, <2>2, LengthType, AdcBufferAssumption
         DEF BufferTypeOK, CountCoversValues, isr_removeDataFromAdcBuffer
    <3>2. QED
      BY <1>2, <2>2, <3>1, IncrementValue
         DEF BufferTypeOK, isr_removeDataFromAdcBuffer
  <2>3. QED BY <2>1, <2>2
<1>3. CASE UNCHANGED bufferVars
  BY <1>3 DEF bufferVars, BufferTypeOK
<1>4. QED BY <1>1, <1>2, <1>3 DEF BufferNext

\* elementCount is the number of values or one more.
LEMMA CountStep ==
  ASSUME BufferTypeOK, CountCoversValues, [BufferNext]_bufferVars
  PROVE CountCoversValues'
<1>0. Length \in 0 .. ADC_BUFFER_SIZE - 1
  BY LengthType DEF BufferTypeOK
<1>1. ASSUME NEW adcData \in Sample, addDataToAdcBuffer(adcData)
      PROVE CountCoversValues'
  <2>1. Length' = IF Length = ADC_BUFFER_SIZE - 1 THEN Length ELSE Length + 1
    BY <1>1, LengthAfterAdd
  <2>2. elementCount' = IF elementCount < ADC_BUFFER_SIZE
                        THEN elementCount + 1 ELSE elementCount
    BY <1>1 DEF addDataToAdcBuffer
  <2>3. QED BY <1>0, <2>1, <2>2, AdcBufferAssumption DEF CountCoversValues
<1>2. CASE isr_removeDataFromAdcBuffer
  BY <1>0, <1>2, RemoveIsRemoval, LengthAfterRemove, LengthType, AdcBufferAssumption
     DEF BufferTypeOK, CountCoversValues, isr_removeDataFromAdcBuffer
<1>3. CASE UNCHANGED bufferVars
  BY <1>3 DEF bufferVars, CountCoversValues, Length
<1>4. QED BY <1>1, <1>2, <1>3 DEF BufferNext

LEMMA BufferInitInv == BufferInit => BufferTypeOK /\ CountCoversValues
BY AdcBufferAssumption
   DEF BufferInit, adcBufferInit, BufferTypeOK, CountCoversValues, Length, Slot, Sample

\* isr.c: the indices, the data and elementCount stay in their ranges in every
\* execution; in particular the unsigned elementCount never wraps below zero.
THEOREM BufferTypeCorrect == BufferSpec => [](BufferTypeOK /\ CountCoversValues)
<1>1. BufferTypeOK /\ CountCoversValues /\ [BufferNext]_bufferVars
      => (BufferTypeOK /\ CountCoversValues)'
  BY BufferTypeStep, CountStep
<1>2. QED BY <1>1, BufferInitInv, PTL DEF BufferSpec
-----------------------------------------------------------------------------
(* The refinement: Contents is the fifo of BoundedFifo.                     *)

\* slotOf without %.
LEMMA SlotValue ==
  ASSUME NEW out \in Slot, NEW k \in 1 .. ADC_BUFFER_SIZE
  PROVE /\ slotOf(out, k) = IF out + k - 1 < ADC_BUFFER_SIZE
                            THEN out + k - 1
                            ELSE out + k - 1 - ADC_BUFFER_SIZE
        /\ slotOf(out, k) \in Slot
BY AdcBufferAssumption DEF Slot, slotOf

\* Moving the out index up by one moves every slot number up by one.
LEMMA ShiftedSlot ==
  ASSUME NEW out \in Slot, NEW k \in 1 .. ADC_BUFFER_SIZE - 1
  PROVE slotOf(increment(out), k) = slotOf(out, k + 1)
<1>1. /\ k \in 1 .. ADC_BUFFER_SIZE /\ k + 1 \in 1 .. ADC_BUFFER_SIZE
      /\ increment(out) \in Slot
      /\ increment(out) = IF out = ADC_BUFFER_SIZE - 1 THEN 0 ELSE out + 1
  BY IncrementValue, AdcBufferAssumption
<1>2. /\ slotOf(out, k + 1) = IF out + k < ADC_BUFFER_SIZE
                              THEN out + k ELSE out + k - ADC_BUFFER_SIZE
      /\ slotOf(increment(out), k) =
           IF increment(out) + k - 1 < ADC_BUFFER_SIZE
           THEN increment(out) + k - 1
           ELSE increment(out) + k - 1 - ADC_BUFFER_SIZE
  BY <1>1, SlotValue DEF Slot
<1>3. QED BY <1>1, <1>2, AdcBufferAssumption DEF Slot

\* The slots of the values kept end just before indexIn, and none of them is
\* the slot the next value is written to.
LEMMA SlotsKept ==
  ASSUME BufferTypeOK
  PROVE /\ slotOf(indexOut, 1) = indexOut
        /\ slotOf(indexOut, Length + 1) = indexIn
        /\ \A k \in 1 .. Length : /\ slotOf(indexOut, k) \in Slot
                                  /\ slotOf(indexOut, k) # indexIn
<1>1. Length \in 0 .. ADC_BUFFER_SIZE - 1
  BY LengthType DEF BufferTypeOK
<1>2. indexIn \in Slot /\ indexOut \in Slot
  BY DEF BufferTypeOK
<1>3. 1 \in 1 .. ADC_BUFFER_SIZE /\ Length + 1 \in 1 .. ADC_BUFFER_SIZE
  BY <1>1, AdcBufferAssumption
<1>4. slotOf(indexOut, 1) = indexOut
  BY <1>2, <1>3, SlotValue, AdcBufferAssumption DEF Slot
<1>5. slotOf(indexOut, Length + 1) =
        IF indexOut + Length < ADC_BUFFER_SIZE
        THEN indexOut + Length ELSE indexOut + Length - ADC_BUFFER_SIZE
  BY <1>1, <1>2, <1>3, SlotValue, AdcBufferAssumption DEF Slot
<1>6. slotOf(indexOut, Length + 1) = indexIn
  BY <1>2, <1>5, AdcBufferAssumption DEF Slot, Length
<1>7. ASSUME NEW k \in 1 .. Length
      PROVE slotOf(indexOut, k) \in Slot /\ slotOf(indexOut, k) # indexIn
  <2>1. k \in 1 .. ADC_BUFFER_SIZE
    BY <1>1, AdcBufferAssumption
  <2>2. /\ slotOf(indexOut, k) \in Slot
        /\ slotOf(indexOut, k) = IF indexOut + k - 1 < ADC_BUFFER_SIZE
                                 THEN indexOut + k - 1
                                 ELSE indexOut + k - 1 - ADC_BUFFER_SIZE
    BY <1>2, <2>1, SlotValue
  <2>3. QED BY <1>1, <1>2, <2>1, <2>2, AdcBufferAssumption DEF Slot, Length
<1>8. QED BY <1>4, <1>6, <1>7

ContentsInv ==
  /\ Contents \in Seq(Sample)
  /\ Len(Contents) = Length
  /\ Length \in 0 .. ADC_BUFFER_SIZE - 1
  /\ \A k \in 1 .. Length : Contents[k] = data[slotOf(indexOut, k)]

\* Contents is a sequence of Length samples.
LEMMA ContentsType == BufferTypeOK => ContentsInv
<1> SUFFICES ASSUME BufferTypeOK PROVE ContentsInv
  OBVIOUS
<1>1. Length \in 0 .. ADC_BUFFER_SIZE - 1
  BY LengthType DEF BufferTypeOK
<1>2. \A k \in 1 .. Length : data[slotOf(indexOut, k)] \in Sample
  BY SlotsKept DEF BufferTypeOK
<1>3. Contents \in [1 .. Length -> Sample]
  BY <1>2 DEF Contents
<1>4. Contents \in Seq(Sample) /\ Len(Contents) = Length
  BY <1>1, <1>3, AdcBufferAssumption
<1>5. QED BY <1>1, <1>4 DEF Contents, ContentsInv

\* The same in the next state.
LEMMA ContentsTypeNext ==
  ASSUME BufferTypeOK'
  PROVE /\ Contents' \in Seq(Sample)
        /\ Len(Contents') = Length'
        /\ Length' \in 0 .. ADC_BUFFER_SIZE - 1
        /\ \A k \in 1 .. Length' : Contents'[k] = data'[slotOf(indexOut', k)]
<1>1. ContentsInv'
  BY ContentsType, PTL
<1>2. QED BY <1>1 DEF ContentsInv

\* Adding below the capacity appends.
LEMMA AddAppends ==
  ASSUME BufferTypeOK, BufferTypeOK', NEW adcData \in Sample, addDataToAdcBuffer(adcData),
         Length < ADC_BUFFER_SIZE - 1
  PROVE Contents' = Append(Contents, adcData)
<1>1. /\ Contents \in Seq(Sample) /\ Len(Contents) = Length /\ Length \in Nat
      /\ \A k \in 1 .. Length : Contents[k] = data[slotOf(indexOut, k)]
  BY ContentsType, AdcBufferAssumption DEF ContentsInv
<1>2. Length' = Length + 1
  BY <1>1, LengthAfterAdd, AdcBufferAssumption
<1>3. indexOut' = indexOut
  <2>1. increment(indexIn) # indexOut
    <3>1. increment(indexIn) = IF indexIn = ADC_BUFFER_SIZE - 1 THEN 0 ELSE indexIn + 1
      BY IncrementValue DEF BufferTypeOK
    <3>2. indexIn \in Slot /\ indexOut \in Slot
      BY DEF BufferTypeOK
    <3>3. QED BY <3>1, <3>2, AdcBufferAssumption DEF Length, Slot
  <2>2. QED BY <2>1 DEF addDataToAdcBuffer
<1>4. /\ Contents' \in Seq(Sample) /\ Len(Contents') = Length + 1
      /\ \A k \in 1 .. Length + 1 : Contents'[k] = data'[slotOf(indexOut, k)]
  BY <1>2, <1>3, ContentsTypeNext
<1>5. ASSUME NEW k \in 1 .. Length
      PROVE Contents'[k] = Append(Contents, adcData)[k]
  <2>1. data'[slotOf(indexOut, k)] = data[slotOf(indexOut, k)]
    BY SlotsKept DEF addDataToAdcBuffer, BufferTypeOK
  <2>2. k \in 1 .. Length + 1
    BY <1>1
  <2>3. QED BY <1>1, <1>4, <2>1, <2>2, AppendProperties
<1>6. Contents'[Length + 1] = Append(Contents, adcData)[Length + 1]
  <2>1. data'[slotOf(indexOut, Length + 1)] = adcData
    BY SlotsKept DEF addDataToAdcBuffer, BufferTypeOK
  <2>2. Length + 1 \in 1 .. Length + 1
    BY <1>1
  <2>3. QED BY <1>1, <1>4, <2>1, <2>2, AppendProperties
<1>7. Append(Contents, adcData) \in Seq(Sample)
      /\ Len(Append(Contents, adcData)) = Length + 1
  BY <1>1, AppendProperties
<1>8. \A k \in 1 .. Length + 1 : Contents'[k] = Append(Contents, adcData)[k]
  BY <1>1, <1>5, <1>6
<1>9. QED
  BY <1>4, <1>7, <1>8, SeqEqual, Zenon

\* Adding at the capacity drops the oldest value.
LEMMA AddDropsOldest ==
  ASSUME BufferTypeOK, BufferTypeOK', NEW adcData \in Sample, addDataToAdcBuffer(adcData),
         Length = ADC_BUFFER_SIZE - 1
  PROVE Contents' = Append(Tail(Contents), adcData)
<1>1. /\ Contents \in Seq(Sample) /\ Len(Contents) = Length /\ Length \in Nat
      /\ Length >= 1 /\ Contents # <<>>
      /\ \A k \in 1 .. Length : Contents[k] = data[slotOf(indexOut, k)]
  BY ContentsType, AdcBufferAssumption DEF ContentsInv
<1>2. Length' = Length
  BY <1>1, LengthAfterAdd, AdcBufferAssumption
<1>3. indexOut' = increment(indexOut) /\ indexOut \in Slot
  <2>1. increment(indexIn) = indexOut
    <3>1. increment(indexIn) = IF indexIn = ADC_BUFFER_SIZE - 1 THEN 0 ELSE indexIn + 1
      BY IncrementValue DEF BufferTypeOK
    <3>2. indexIn \in Slot /\ indexOut \in Slot
      BY DEF BufferTypeOK
    <3>3. QED BY <3>1, <3>2, AdcBufferAssumption DEF Length, Slot
  <2>2. QED BY <2>1 DEF addDataToAdcBuffer, BufferTypeOK
<1>4. /\ Contents' \in Seq(Sample) /\ Len(Contents') = Length
      /\ \A k \in 1 .. Length :
           Contents'[k] = data'[slotOf(increment(indexOut), k)]
  BY <1>2, <1>3, ContentsTypeNext
<1>5. ASSUME NEW k \in 1 .. Length
      PROVE Contents'[k] = data'[slotOf(indexOut, k + 1)]
  BY <1>3, <1>4, ShiftedSlot
<1>6. /\ Tail(Contents) \in Seq(Sample)
      /\ Len(Tail(Contents)) = Length - 1
      /\ \A k \in 1 .. Length - 1 : Tail(Contents)[k] = Contents[k + 1]
  BY <1>1, HeadTailProperties
<1>7. /\ Append(Tail(Contents), adcData) \in Seq(Sample)
      /\ Len(Append(Tail(Contents), adcData)) = Length
      /\ \A k \in 1 .. Length - 1 :
           Append(Tail(Contents), adcData)[k] = Tail(Contents)[k]
      /\ Append(Tail(Contents), adcData)[Length] = adcData
  BY <1>1, <1>6, AppendProperties
<1>8. ASSUME NEW k \in 1 .. Length
      PROVE Contents'[k] = Append(Tail(Contents), adcData)[k]
  <2>1. CASE k = Length
    <3>1. data'[slotOf(indexOut, k + 1)] = adcData
      BY <2>1, SlotsKept DEF addDataToAdcBuffer, BufferTypeOK
    <3>2. QED BY <1>5, <1>7, <2>1, <3>1
  <2>2. CASE k # Length
    <3>1. k \in 1 .. Length - 1 /\ k + 1 \in 1 .. Length
      BY <1>1, <2>2
    <3>2. data'[slotOf(indexOut, k + 1)] = data[slotOf(indexOut, k + 1)]
      BY <3>1, SlotsKept DEF addDataToAdcBuffer, BufferTypeOK
    <3>3. QED BY <1>1, <1>5, <1>6, <1>7, <3>1, <3>2
  <2>3. QED BY <2>1, <2>2
<1>9. QED
  BY <1>4, <1>7, <1>8, SeqEqual, Zenon

\* Removing takes the head.
LEMMA RemoveTakesHead ==
  ASSUME BufferTypeOK, BufferTypeOK', removal, ~isEmpty
  PROVE /\ Contents # <<>>
        /\ returnValue' = Head(Contents)
        /\ Contents' = Tail(Contents)
<1>1. Length # 0
  BY LengthType DEF BufferTypeOK
<1>2. /\ Contents \in Seq(Sample) /\ Len(Contents) = Length /\ Length \in Nat
      /\ Length \in 1 .. ADC_BUFFER_SIZE - 1 /\ Contents # <<>>
      /\ \A k \in 1 .. Length : Contents[k] = data[slotOf(indexOut, k)]
  BY <1>1, ContentsType, AdcBufferAssumption DEF ContentsInv
<1>3. Length' = Length - 1
  BY LengthAfterRemove
<1>4. /\ indexOut' = increment(indexOut) /\ indexOut \in Slot
      /\ data' = data /\ returnValue' = data[indexOut]
  BY DEF removal, BufferTypeOK
<1>5. returnValue' = Head(Contents)
  <2>1. Contents[1] = data[indexOut]
    BY <1>2, SlotsKept
  <2>2. QED BY <1>2, <1>4, <2>1
<1>6. /\ Contents' \in Seq(Sample) /\ Len(Contents') = Length - 1
      /\ \A k \in 1 .. Length - 1 :
           Contents'[k] = data[slotOf(increment(indexOut), k)]
  BY <1>3, <1>4, ContentsTypeNext
<1>7. /\ Tail(Contents) \in Seq(Sample)
      /\ Len(Tail(Contents)) = Length - 1
      /\ \A k \in 1 .. Length - 1 : Tail(Contents)[k] = Contents[k + 1]
  BY <1>2, HeadTailProperties
<1>8. ASSUME NEW k \in 1 .. Length - 1
      PROVE Contents'[k] = Tail(Contents)[k]
  <2>1. k \in 1 .. ADC_BUFFER_SIZE - 1 /\ k + 1 \in 1 .. Length
    BY <1>2, AdcBufferAssumption
  <2>2. slotOf(increment(indexOut), k) = slotOf(indexOut, k + 1)
    BY <1>4, <2>1, ShiftedSlot
  <2>3. QED BY <1>2, <1>6, <1>7, <2>1, <2>2
<1>9. Contents' = Tail(Contents)
  BY <1>6, <1>7, <1>8, SeqEqual, Zenon
<1>10. QED BY <1>2, <1>5, <1>9

LEMMA FifoInit == BufferInit => Fifo!Init
<1> SUFFICES ASSUME BufferInit PROVE Fifo!Init
  OBVIOUS
<1>1. Contents \in Seq(Sample) /\ Len(Contents) = 0
  BY BufferInitInv, ContentsType DEF ContentsInv, BufferInit, adcBufferInit, Length
<1>2. Contents = <<>>
  BY <1>1
<1>3. QED BY <1>2 DEF Fifo!Init, BufferInit

LEMMA FifoPut ==
  ASSUME BufferTypeOK, BufferTypeOK', NEW adcData \in Sample,
         addDataToAdcBuffer(adcData)
  PROVE Fifo!Put(adcData)
<1>1. Length \in 0 .. ADC_BUFFER_SIZE - 1 /\ Len(Contents) = Length
  BY ContentsType DEF ContentsInv
<1>2. returnValue' = returnValue
  BY DEF addDataToAdcBuffer
<1>3. CASE Length < ADC_BUFFER_SIZE - 1
  BY <1>1, <1>2, <1>3, AddAppends DEF Fifo!Put
<1>4. CASE Length = ADC_BUFFER_SIZE - 1
  BY <1>1, <1>2, <1>4, AddDropsOldest, AdcBufferAssumption DEF Fifo!Put
<1>5. QED BY <1>1, <1>3, <1>4, AdcBufferAssumption

LEMMA FifoTake ==
  ASSUME BufferTypeOK, BufferTypeOK', removal
  PROVE Fifo!Take \/ Fifo!TakeNothing
<1>1. CASE ~isEmpty
  BY <1>1, RemoveTakesHead DEF Fifo!Take
<1>2. CASE isEmpty
  <2>1. Contents = <<>>
    BY <1>2, LengthType, ContentsType DEF ContentsInv, BufferTypeOK
  <2>2. UNCHANGED <<data, indexIn, indexOut>> /\ returnValue' = 0
    BY <1>2 DEF removal
  <2>3. Contents' = Contents
    BY <2>2 DEF Contents, Length
  <2>4. QED BY <2>1, <2>2, <2>3 DEF Fifo!TakeNothing
<1>3. QED BY <1>1, <1>2

LEMMA FifoStutter ==
  ASSUME UNCHANGED <<indexIn, indexOut, data, returnValue>>
  PROVE UNCHANGED Fifo!vars
BY DEF Fifo!vars, Contents, Length

\* isr.c:44-66 implements a drop-oldest FIFO of ADC_BUFFER_SIZE - 1 values:
\* the indices alone decide what is kept, whatever elementCount says.
THEOREM BufferImplementsFifo == BufferSpec => ImplementsFifo
<1>1. BufferTypeOK /\ BufferTypeOK' /\ [BufferNext]_bufferVars
      => [Fifo!Next]_Fifo!vars
  <2> SUFFICES ASSUME BufferTypeOK, BufferTypeOK', [BufferNext]_bufferVars
               PROVE [Fifo!Next]_Fifo!vars
    OBVIOUS
  <2>1. ASSUME NEW adcData \in Sample, addDataToAdcBuffer(adcData)
        PROVE Fifo!Next
    BY <2>1, FifoPut DEF Fifo!Next
  <2>2. CASE isr_removeDataFromAdcBuffer
    BY <2>2, RemoveIsRemoval, FifoTake DEF Fifo!Next
  <2>3. CASE UNCHANGED bufferVars
    BY <2>3, FifoStutter DEF bufferVars
  <2>4. QED BY <2>1, <2>2, <2>3 DEF BufferNext
<1>2. QED
  BY <1>1, FifoInit, BufferTypeCorrect, PTL DEF BufferSpec, ImplementsFifo, Fifo!Spec
=============================================================================

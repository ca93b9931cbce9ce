----------------------------- MODULE AdcBuffer -----------------------------
(***************************************************************************)
(* The circular buffer of isr.c between the timer interrupt, which adds    *)
(* one ADC sample per tick, and detector(), which removes them.  The two   *)
(* operations are atomic here: addDataToAdcBuffer runs inside the ISR and  *)
(* isr_removeDataFromAdcBuffer runs with the ARM interrupts masked.        *)
(* AdcDrain takes the second one apart and shows that the masking is what  *)
(* makes this module a correct picture of it.                              *)
(***************************************************************************)
EXTENDS Naturals, Sequences

CONSTANTS ADC_BUFFER_SIZE,  \* slots of adcBuffer.data; 100000 in the code
          SampleBound       \* the largest value a sample can have

ASSUME AdcBufferAssumption ==
  /\ ADC_BUFFER_SIZE \in Nat
  /\ ADC_BUFFER_SIZE >= 2
  /\ SampleBound \in Nat \ {0}

VARIABLES indexIn,       \* new values go here
          indexOut,      \* the oldest value is here
          data,
          elementCount,  \* the counter kept beside the two indices
          returnValue    \* result of the last isr_removeDataFromAdcBuffer()

bufferVars == <<indexIn, indexOut, data, elementCount, returnValue>>

Sample == 0 .. SampleBound
Slot == 0 .. ADC_BUFFER_SIZE - 1

increment(index) == (index + 1) % ADC_BUFFER_SIZE

adcBufferInit ==
  /\ indexIn = 0
  /\ indexOut = 0
  /\ elementCount = 0

\* adcBuffer is static, so data starts as zeros whatever isr_init does.
BufferInit ==
  adcBufferInit /\ data = [s \in Slot |-> 0] /\ returnValue = 0

isEmpty == indexIn = indexOut

\* Values between the two indices, counted the way the indices move.
Length == IF indexOut <= indexIn THEN indexIn - indexOut
                                 ELSE indexIn + ADC_BUFFER_SIZE - indexOut
-----------------------------------------------------------------------------
\* Plausible slips in the operations below; each breaks one property.

\* <= where the code has <: the counter runs one past the size.
addOffByOne(adcData) ==
  /\ elementCount' = IF elementCount <= ADC_BUFFER_SIZE
                     THEN elementCount + 1 ELSE elementCount
  /\ data' = [data EXCEPT ![indexIn] = adcData]
  /\ indexIn' = increment(indexIn)
  /\ indexOut' = IF increment(indexIn) = indexOut
                 THEN increment(indexOut) ELSE indexOut
  /\ UNCHANGED returnValue

\* The out pointer is not moved up when the buffer is full.
addWithoutMakingRoom(adcData) ==
  /\ elementCount' = IF elementCount < ADC_BUFFER_SIZE
                     THEN elementCount + 1 ELSE elementCount
  /\ data' = [data EXCEPT ![indexIn] = adcData]
  /\ indexIn' = increment(indexIn)
  /\ UNCHANGED <<indexOut, returnValue>>
-----------------------------------------------------------------------------
addDataToAdcBuffer(adcData) ==
  /\ elementCount' = IF elementCount < ADC_BUFFER_SIZE
                     THEN elementCount + 1 ELSE elementCount
  /\ data' = [data EXCEPT ![indexIn] = adcData]
  /\ indexIn' = increment(indexIn)
  /\ indexOut' = IF increment(indexIn) = indexOut
                 THEN increment(indexOut) ELSE indexOut
  /\ UNCHANGED returnValue

isr_removeDataFromAdcBuffer ==
  /\ IF isEmpty
     THEN returnValue' = 0 /\ UNCHANGED <<indexOut, elementCount>>
     ELSE /\ returnValue' = data[indexOut]
          /\ indexOut' = increment(indexOut)
          /\ elementCount' = elementCount - 1
  /\ UNCHANGED <<indexIn, data>>

BufferNext == \/ \E adcData \in Sample : addDataToAdcBuffer(adcData)
              \/ isr_removeDataFromAdcBuffer

BufferSpec == BufferInit /\ [][BufferNext]_bufferVars
-----------------------------------------------------------------------------
BufferTypeOK ==
  /\ indexIn \in Slot
  /\ indexOut \in Slot
  /\ data \in [Slot -> Sample]
  /\ elementCount \in 0 .. ADC_BUFFER_SIZE
  /\ returnValue \in Sample

\* detector() reads elementCount and then removes that many values.  The
\* counter is never below the number of values, so none is left behind, and
\* above it by at most one.
CountCoversValues == elementCount \in {Length, Length + 1}

\* The slot of the k-th value, counted from the one at out.
slotOf(out, k) == (out + k - 1) % ADC_BUFFER_SIZE

\* The values kept, oldest first.
Contents == [k \in 1 .. Length |-> data[slotOf(indexOut, k)]]

Fifo == INSTANCE BoundedFifo WITH Capacity <- ADC_BUFFER_SIZE - 1,
                                  fifo <- Contents, taken <- returnValue

\* The buffer is a drop-oldest FIFO of one value less than it has slots.
ImplementsFifo == Fifo!Spec
=============================================================================

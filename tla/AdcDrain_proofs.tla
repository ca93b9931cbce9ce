--------------------------- MODULE AdcDrain_proofs ---------------------------
(***************************************************************************)
(* Theorems about the timer interrupt filling the ADC buffer while the     *)
(* main loop drains it, for every buffer size, decimation factor and       *)
(* number of samples.  The inductive invariant Inv says what the counter,  *)
(* the snapshot taken by detector() and the interrupt mask have to do with *)
(* the values in the buffer at each of the main program's steps.           *)
(***************************************************************************)
EXTENDS AdcDrain, AdcBuffer_proofs

L == Length

\* The main program holds the mask from interrupts_disableArmInts() to
\* interrupts_enableArmInts(), and after the mode is left.
MaskInv ==
  armIntsEnabled <=> mainPc \notin {"take", "load", "store", "enable", "done"}

\* The counter is the number of values or one more; a removal in progress has
\* moved the out index and not yet lowered the counter.
CountInv ==
  /\ mainPc \in {"load", "store"} => elementCount \in {L + 1, L + 2}
  /\ mainPc \notin {"load", "store"} => elementCount \in {L, L + 1}
  /\ mainPc = "store" => loaded = elementCount

\* The snapshot is covered by the counter; an iteration that has removed its
\* value has not yet lowered the snapshot.
LeftInv ==
  /\ mainPc \in {"take", "load", "store", "enable", "process"} => left >= 1
  /\ mainPc \in {"enable", "process"} => left - 1 <= elementCount
  /\ mainPc \notin {"enable", "process"} => left <= elementCount

\* With the flag down nothing came since the snapshot, which therefore covers
\* the values in the buffer.
FlagInv ==
  isrFlagGlobal = 0 =>
    /\ mainPc \in {"poll", "loop", "take"} => L <= left
    /\ mainPc \in {"load", "store", "enable", "process"} => L <= left - 1

Inv == TypeOK /\ MaskInv /\ CountInv /\ LeftInv /\ FlagInv
-----------------------------------------------------------------------------
LEMMA LType ==
  ASSUME TypeOK
  PROVE /\ L \in 0 .. ADC_BUFFER_SIZE - 1
        /\ L = 0 <=> isEmpty
BY LengthType DEF TypeOK, BufferTypeOK, L

\* The types of the variables the arithmetic below is about.
LEMMA Ranges ==
  ASSUME TypeOK
  PROVE /\ indexIn \in Slot /\ indexOut \in Slot
        /\ data \in [Slot -> 0 .. SampleBound]
        /\ elementCount \in 0 .. ADC_BUFFER_SIZE
        /\ returnValue \in 0 .. SampleBound
        /\ left \in 0 .. ADC_BUFFER_SIZE
        /\ loaded \in 0 .. ADC_BUFFER_SIZE
        /\ L \in 0 .. ADC_BUFFER_SIZE - 1
BY LType DEF TypeOK, BufferTypeOK, Sample

\* The ADC only delivers samples.
LEMMA NextSample ==
  ASSUME NEW n \in 0 .. SampleBound
  PROVE after(n) \in 1 .. SampleBound
BY AdcBufferAssumption DEF after

\* The ISR: one more value, or one old value lost.
LEMMA LAfterAdd ==
  ASSUME TypeOK, NEW x \in 0 .. SampleBound, addDataToAdcBuffer(x)
  PROVE L' = IF L = ADC_BUFFER_SIZE - 1 THEN L ELSE L + 1
BY LengthAfterAdd DEF TypeOK, L, Sample

\* The removal: one value less.
LEMMA LengthAfterTake ==
  ASSUME TypeOK, indexIn' = indexIn, indexOut' = increment(indexOut),
         ~isEmpty
  PROVE L' = L - 1
<1>1. increment(indexOut) = IF indexOut = ADC_BUFFER_SIZE - 1 THEN 0 ELSE indexOut + 1
  BY IncrementValue, Ranges
<1>2. indexIn \in Slot /\ indexOut \in Slot
  BY Ranges
<1>3. QED BY <1>1, <1>2, AdcBufferAssumption DEF Slot, L, Length, isEmpty
-----------------------------------------------------------------------------
LEMMA InitInv == Init => Inv
<1> SUFFICES ASSUME Init PROVE Inv
  OBVIOUS
<1> USE AdcBufferAssumption, AdcDrainAssumption
<1>1. L = 0
  BY DEF Init, BufferInit, adcBufferInit, L, Length
<1>2. TypeOK
  BY DEF Init, BufferInit, adcBufferInit, TypeOK, BufferTypeOK, Slot, Sample
<1>3. MaskInv
  BY DEF Init, MaskInv
<1>4. CountInv /\ LeftInv /\ FlagInv
  BY <1>1 DEF Init, BufferInit, adcBufferInit, CountInv, LeftInv, FlagInv
<1>5. QED BY <1>2, <1>3, <1>4 DEF Inv

\* The interrupt comes only while no removal is in progress.
LEMMA IsrStep == Inv /\ timerIsr => Inv'
<1> SUFFICES ASSUME Inv, timerIsr PROVE Inv'
  OBVIOUS
<1>1. mainPc \in {"poll", "reset", "query", "loop", "process"}
  BY Zenon DEF Inv, MaskInv, timerIsr, TypeOK
<1>2. /\ UNCHANGED <<armIntsEnabled, mainPc, left, loaded, sampleCount>>
      /\ isrFlagGlobal' = 1 /\ lastSample' = after(lastSample)
      /\ addDataToAdcBuffer(lastSample')
  BY DEF timerIsr
<1>3. lastSample' \in 0 .. SampleBound
  BY <1>2, NextSample DEF Inv, TypeOK
<1>4. L' = IF L = ADC_BUFFER_SIZE - 1 THEN L ELSE L + 1
  BY <1>2, <1>3, LAfterAdd DEF Inv
<1>5. elementCount' = IF elementCount < ADC_BUFFER_SIZE
                      THEN elementCount + 1 ELSE elementCount
  BY <1>2 DEF addDataToAdcBuffer
<1>6. TypeOK'
  <2>1. indexIn' \in Slot /\ indexOut' \in Slot
    BY <1>2, IncrementValue, Ranges DEF Inv, addDataToAdcBuffer
  <2>2. data' \in [Slot -> 0 .. SampleBound] /\ returnValue' \in 0 .. SampleBound
    BY <1>2, <1>3, Ranges DEF Inv, addDataToAdcBuffer
  <2>3. elementCount' \in 0 .. ADC_BUFFER_SIZE
    BY <1>5, Ranges, AdcBufferAssumption DEF Inv
  <2>4. BufferTypeOK'
    BY <2>1, <2>2, <2>3 DEF BufferTypeOK, Sample
  <2>5. QED BY <1>2, <1>3, <2>4 DEF Inv, TypeOK
<1>7. MaskInv'
  BY <1>2 DEF Inv, MaskInv
<1>8. elementCount \in {L, L + 1}
  BY <1>1 DEF Inv, CountInv
<1>9. CountInv'
  BY <1>1, <1>2, <1>4, <1>5, <1>8, Ranges, AdcBufferAssumption DEF Inv, CountInv
<1>10. LeftInv'
  BY <1>1, <1>2, <1>5, Ranges, AdcBufferAssumption DEF Inv, LeftInv
<1>11. FlagInv'
  BY <1>2 DEF FlagInv
<1>12. QED BY <1>6, <1>7, <1>9, <1>10, <1>11 DEF Inv

\* Steps that do not touch the buffer.
LEMMA QuietStep ==
  ASSUME Inv, poll \/ exit \/ reset \/ query \/ loop \/ enable
  PROVE Inv'
<1>1. UNCHANGED <<bufferVars, lastSample, loaded, sampleCount>>
  BY DEF poll, exit, reset, query, loop, enable
<1>2. L' = L /\ elementCount' = elementCount /\ loaded' = loaded
  BY <1>1 DEF bufferVars, L, Length
<1>3. left' \in 0 .. ADC_BUFFER_SIZE /\ isrFlagGlobal' \in {0, 1}
  BY Ranges DEF Inv, TypeOK, poll, exit, reset, query, loop, enable
<1>4. /\ mainPc' \in {"poll", "reset", "query", "loop", "take", "process", "done"}
      /\ armIntsEnabled' \in BOOLEAN
  BY Zenon DEF Inv, TypeOK, poll, exit, reset, query, loop, enable, at
<1>5. TypeOK'
  <2>1. BufferTypeOK'
    BY <1>1 DEF Inv, TypeOK, BufferTypeOK, bufferVars
  <2>2. QED BY <1>1, <1>3, <1>4, <2>1 DEF Inv, TypeOK
<1>6. MaskInv'
  BY DEF Inv, MaskInv, poll, exit, reset, query, loop, enable, at
<1>7. CountInv'
  BY <1>2, <1>4, Ranges DEF Inv, CountInv, poll, exit, reset, query, loop, enable, at
<1>8. LeftInv'
  BY <1>2, Ranges DEF Inv, LeftInv, poll, exit, reset, query, loop, enable, at
<1>9. FlagInv'
  BY <1>2, Ranges DEF Inv, CountInv, FlagInv, poll, exit, reset, query, loop, enable, at
<1>10. QED BY <1>5, <1>6, <1>7, <1>8, <1>9 DEF Inv

LEMMA TakeStep == Inv /\ take => Inv'
<1> SUFFICES ASSUME Inv, take PROVE Inv'
  OBVIOUS
<1>1. /\ mainPc = "take"
      /\ UNCHANGED <<indexIn, data, elementCount, lastSample, isrFlagGlobal,
                     armIntsEnabled, left, loaded, sampleCount>>
  BY DEF take
<1>2. /\ left >= 1 /\ left <= elementCount /\ elementCount \in {L, L + 1}
      /\ isrFlagGlobal = 0 => L <= left
  BY <1>1 DEF Inv, CountInv, LeftInv, FlagInv
<1>3. CASE isEmpty
  <2>1. mainPc' = "enable" /\ returnValue' = 0 /\ indexOut' = indexOut
    BY <1>3 DEF take
  <2>2. L' = L /\ L = 0
    BY <1>1, <1>3, <2>1, LType DEF Inv, L, Length
  <2>3. TypeOK'
    BY <1>1, <2>1, AdcBufferAssumption DEF Inv, TypeOK, BufferTypeOK, Sample
  <2>4. MaskInv'
    BY <1>1, <2>1 DEF Inv, MaskInv
  <2>5. CountInv' /\ LeftInv' /\ FlagInv'
    BY <1>1, <1>2, <2>1, <2>2, Ranges DEF Inv, CountInv, LeftInv, FlagInv
  <2>6. QED BY <2>3, <2>4, <2>5 DEF Inv
<1>4. CASE ~isEmpty
  <2>1. /\ mainPc' = "load" /\ returnValue' = data[indexOut]
        /\ indexOut' = increment(indexOut)
    BY <1>4 DEF take
  <2>2. L' = L - 1
    BY <1>1, <1>4, <2>1, LengthAfterTake DEF Inv
  <2>3. TypeOK'
    <3>1. indexOut' \in Slot /\ returnValue' \in 0 .. SampleBound
      BY <2>1, Ranges, IncrementValue DEF Inv
    <3>2. QED BY <1>1, <2>1, <3>1 DEF Inv, TypeOK, BufferTypeOK, Slot
  <2>4. MaskInv'
    BY <1>1, <2>1 DEF Inv, MaskInv
  <2>5. CountInv' /\ LeftInv' /\ FlagInv'
    BY <1>1, <1>2, <2>1, <2>2, Ranges DEF Inv, CountInv, LeftInv, FlagInv
  <2>6. QED BY <2>3, <2>4, <2>5 DEF Inv
<1>5. QED BY <1>3, <1>4

LEMMA LoadStep == Inv /\ load => Inv'
<1> SUFFICES ASSUME Inv, load PROVE Inv'
  OBVIOUS
<1>1. /\ mainPc = "load" /\ mainPc' = "store" /\ loaded' = elementCount
      /\ UNCHANGED <<bufferVars, lastSample, isrFlagGlobal, armIntsEnabled, left,
                     sampleCount>>
  BY DEF load, at
<1>2. L' = L /\ elementCount' = elementCount
  BY <1>1 DEF bufferVars, L, Length
<1>3. TypeOK'
  BY <1>1, Ranges DEF Inv, TypeOK, BufferTypeOK, bufferVars
<1>4. MaskInv'
  BY <1>1 DEF Inv, MaskInv
<1>5. CountInv' /\ LeftInv' /\ FlagInv'
  BY <1>1, <1>2, Ranges DEF Inv, CountInv, LeftInv, FlagInv
<1>6. QED BY <1>3, <1>4, <1>5 DEF Inv

LEMMA StoreStep == Inv /\ store => Inv'
<1> SUFFICES ASSUME Inv, store PROVE Inv'
  OBVIOUS
<1>1. /\ mainPc = "store" /\ mainPc' = "enable" /\ elementCount' = loaded - 1
      /\ UNCHANGED <<indexIn, indexOut, data, returnValue, lastSample,
                     isrFlagGlobal, armIntsEnabled, left, loaded, sampleCount>>
  BY DEF store, at
<1>2. L' = L
  BY <1>1 DEF L, Length
<1>3. loaded = elementCount /\ elementCount \in {L + 1, L + 2}
  BY <1>1 DEF Inv, CountInv
<1>4. elementCount' \in 0 .. ADC_BUFFER_SIZE /\ elementCount' \in {L, L + 1}
  BY <1>1, <1>3, Ranges, AdcBufferAssumption DEF Inv
<1>5. TypeOK'
  BY <1>1, <1>4 DEF Inv, TypeOK, BufferTypeOK
<1>6. MaskInv'
  BY <1>1 DEF Inv, MaskInv
<1>7. CountInv' /\ LeftInv' /\ FlagInv'
  BY <1>1, <1>2, <1>3, <1>4, Ranges DEF Inv, CountInv, LeftInv, FlagInv
<1>8. QED BY <1>5, <1>6, <1>7 DEF Inv

LEMMA ProcessStep == Inv /\ process => Inv'
<1> SUFFICES ASSUME Inv, process PROVE Inv'
  OBVIOUS
<1>1. /\ mainPc = "process" /\ mainPc' \in {"poll", "loop"} /\ left' = left - 1
      /\ UNCHANGED <<bufferVars, lastSample, isrFlagGlobal, armIntsEnabled, loaded>>
  BY DEF process
<1>2. L' = L /\ elementCount' = elementCount
  BY <1>1 DEF bufferVars, L, Length
<1>3. left >= 1
  BY <1>1 DEF Inv, LeftInv
<1>4. sampleCount' \in 0 .. FILTER_FIR_DECIMATION_FACTOR - 1
  BY AdcDrainAssumption DEF Inv, TypeOK, process
<1>5. TypeOK'
  <2>1. left' \in 0 .. ADC_BUFFER_SIZE
    BY <1>1, <1>3, Ranges, AdcBufferAssumption DEF Inv
  <2>2. BufferTypeOK'
    BY <1>1 DEF Inv, TypeOK, BufferTypeOK, bufferVars
  <2>3. QED BY <1>1, <1>4, <2>1, <2>2 DEF Inv, TypeOK
<1>6. MaskInv'
  BY <1>1 DEF Inv, MaskInv
<1>7. CountInv' /\ LeftInv' /\ FlagInv'
  BY <1>1, <1>2, <1>3, Ranges DEF Inv, CountInv, LeftInv, FlagInv
<1>8. QED BY <1>5, <1>6, <1>7 DEF Inv

LEMMA StutterStep == Inv /\ UNCHANGED vars => Inv'
BY DEF vars, bufferVars, Inv, TypeOK, BufferTypeOK, MaskInv, CountInv, LeftInv, FlagInv,
       L, Length

LEMMA NextInv == Inv /\ [Next]_vars => Inv'
BY IsrStep, QuietStep, TakeStep, LoadStep, StoreStep, ProcessStep, StutterStep
   DEF Next, mainStep
-----------------------------------------------------------------------------
\* Every execution satisfies Inv: the masked read-modify-write of elementCount
\* never goes below zero, whatever the interrupt does. (isr.c:44-66,
\* detector.c:84-98)
THEOREM TypeCorrect == Spec => []TypeOK
<1>1. Inv => TypeOK
  BY DEF Inv
<1>2. QED BY <1>1, InitInv, NextInv, PTL DEF Spec

\* detector.c:84-91: the snapshot is covered by values until the buffer has
\* overflowed.
THEOREM SnapshotCovered == Spec => []NoPhantomSample
<1>1. Inv => NoPhantomSample
  BY LType, Ranges DEF Inv, CountInv, LeftInv, NoPhantomSample, L
<1>2. QED BY <1>1, InitInv, NextInv, PTL DEF Spec

\* detector.c:86: after an overflow only the last removal of a drain can find
\* the buffer empty.
THEOREM OnePhantomPerDrain == Spec => []PhantomIsLast
<1>1. Inv => PhantomIsLast
  BY LType, Ranges DEF Inv, CountInv, LeftInv, PhantomIsLast
<1>2. QED BY <1>1, InitInv, NextInv, PTL DEF Spec

\* main.c:197-202: the flag is cleared before the drain, so no value is left in
\* the buffer while the main loop waits for the next interrupt.
THEOREM NoLostWakeup == Spec => []NothingLeftWaiting
<1>1. Inv => NothingLeftWaiting
  BY LType, Ranges DEF Inv, FlagInv, NothingLeftWaiting
<1>2. QED BY <1>1, InitInv, NextInv, PTL DEF Spec
-----------------------------------------------------------------------------
\* One step of the drain is one operation of AdcBuffer or none.
LEMMA AtomicStep == Inv /\ [Next]_vars => [Atomic!BufferNext]_Atomic!bufferVars
<1> SUFFICES ASSUME Inv, [Next]_vars PROVE [Atomic!BufferNext]_Atomic!bufferVars
  OBVIOUS
<1> DEFINE count == IF mainPc \in {"load", "store"}
                    THEN elementCount - 1 ELSE elementCount
<1>1. CASE timerIsr
  <2>1. /\ mainPc \notin {"load", "store"} /\ mainPc' = mainPc
        /\ addDataToAdcBuffer(lastSample')
    BY <1>1 DEF Inv, MaskInv, timerIsr
  <2>2. lastSample' \in 0 .. SampleBound
    BY <1>1, NextSample DEF Inv, TypeOK, timerIsr
  <2>3. Atomic!addDataToAdcBuffer(lastSample')
    BY <2>1 DEF addDataToAdcBuffer, Atomic!addDataToAdcBuffer,
                increment, Atomic!increment
  <2>4. QED BY <2>2, <2>3 DEF Atomic!BufferNext, Atomic!Sample
<1>2. CASE take
  <2>1. mainPc = "take" /\ count = elementCount
    BY <1>2 DEF take
  <2>2. mainPc' = "load" \/ mainPc' = "enable"
    BY <1>2 DEF take
  <2>3. Atomic!isr_removeDataFromAdcBuffer
    BY <1>2, <2>1, <2>2
       DEF take, Atomic!isr_removeDataFromAdcBuffer, isEmpty, Atomic!isEmpty,
           increment, Atomic!increment
  <2>4. QED BY <2>3 DEF Atomic!BufferNext
<1>3. CASE store
  <2>1. count' = count /\ UNCHANGED <<indexIn, indexOut, data, returnValue>>
    BY <1>3 DEF store, at, Inv, CountInv
  <2>2. QED BY <2>1 DEF Atomic!bufferVars
<1>4. CASE load \/ poll \/ exit \/ reset \/ query \/ loop \/ enable \/ process
           \/ UNCHANGED vars
  <2>1. UNCHANGED bufferVars
    BY <1>4 DEF load, poll, exit, reset, query, loop, enable, process, vars
  <2>2. mainPc \in {"load", "store"} <=> mainPc' \in {"load", "store"}
    BY <1>4 DEF load, poll, exit, reset, query, loop, enable, process, vars, at
  <2>3. QED BY <2>1, <2>2 DEF bufferVars, Atomic!bufferVars
<1>5. QED BY <1>1, <1>2, <1>3, <1>4 DEF Next, mainStep

\* detector.c:87-93: interrupts_disableArmInts() and interrupts_enableArmInts()
\* make the removal, counter update included, one operation of AdcBuffer.
THEOREM MaskMakesAtomic == Spec => RemovalIsAtomic
<1>1. Init => Atomic!BufferInit
  BY DEF Init, BufferInit, adcBufferInit, Atomic!BufferInit, Atomic!adcBufferInit,
         Slot, Atomic!Slot
<1>2. QED
  BY <1>1, InitInv, NextInv, AtomicStep, PTL
     DEF Spec, RemovalIsAtomic, Atomic!BufferSpec
\* isr.c:45, 62: whatever the ISR does between main's accesses, the counter is
\* the number of values or one more, so that its decrement never wraps.
THEOREM CounterCovers == Spec => []CounterCoversValues
<1>1. Inv => CounterCoversValues
  BY Ranges DEF Inv, CountInv, L, Length, CounterCoversValues,
                Atomic!CountCoversValues, Atomic!Length
<1>2. QED BY <1>1, InitInv, NextInv, PTL DEF Spec

\* isr.c:44-66, detector.c:86-98: the buffer the drain and the ISR share is a
\* drop-oldest FIFO; main's accesses to the counter do not show in it.
THEOREM DrainImplementsFifo == Spec => ImplementsFifo
<1>1. Inv /\ Inv' /\ [Next]_vars => [Fifo!Next]_Fifo!vars
  <2> SUFFICES ASSUME Inv, Inv', [Next]_vars PROVE [Fifo!Next]_Fifo!vars
    OBVIOUS
  <2>1. BufferTypeOK /\ BufferTypeOK'
    BY DEF Inv, TypeOK
  <2>2. CASE timerIsr
    <3>1. lastSample' \in Sample /\ addDataToAdcBuffer(lastSample')
      BY <2>2, NextSample DEF Inv, TypeOK, timerIsr, Sample
    <3>2. Fifo!Put(lastSample')
      BY <2>1, <3>1, FifoPut
    <3>3. QED BY <3>1, <3>2 DEF Fifo!Next
  <2>3. CASE take
    <3>1. removal
      BY <2>3 DEF take, removal
    <3>2. QED BY <2>1, <3>1, FifoTake DEF Fifo!Next
  <2>4. CASE poll \/ exit \/ reset \/ query \/ loop \/ load \/ store \/ enable
             \/ process \/ UNCHANGED vars
    <3>1. UNCHANGED <<indexIn, indexOut, data, returnValue>>
      BY <2>4 DEF poll, exit, reset, query, loop, load, store, enable, process,
                  vars, bufferVars
    <3>2. QED BY <3>1, FifoStutter
  <2>5. QED BY <2>2, <2>3, <2>4 DEF Next, mainStep
<1>2. Init => Fifo!Init
  BY FifoInit DEF Init
<1>3. QED
  BY <1>1, <1>2, InitInv, NextInv, PTL DEF Spec, ImplementsFifo, Fifo!Spec
-----------------------------------------------------------------------------
(* The order of the samples.  As long as nothing was overwritten, the value *)
(* removed last, the values in the buffer from the oldest on, and the last  *)
(* sample of the ADC are consecutive.                                       *)

\* The counter is the number of values: the buffer has not overflowed.
Exact == elementCount = IF mainPc \in {"load", "store"} THEN L + 1 ELSE L

\* The place of slot s behind the out index.
Age(s) == IF indexOut <= s THEN s - indexOut ELSE s + ADC_BUFFER_SIZE - indexOut

OrderInv ==
  Exact =>
    /\ L = 0 => lastSample = returnValue
    /\ L > 0 => data[indexOut] = after(returnValue)
    /\ \A s \in Slot : Age(s) + 1 < L => data[increment(s)] = after(data[s])
    /\ \A s \in Slot : Age(s) + 1 = L => data[s] = lastSample

LEMMA AgeOfNext ==
  ASSUME TypeOK, NEW s \in Slot
  PROVE /\ Age(s) \in 0 .. ADC_BUFFER_SIZE - 1
        /\ Age(s) = 0 <=> s = indexOut
        /\ Age(s) = L /\ L < ADC_BUFFER_SIZE <=> s = indexIn
        /\ Age(s) + 1 < ADC_BUFFER_SIZE => Age(increment(s)) = Age(s) + 1
<1>1. /\ indexIn \in Slot /\ indexOut \in Slot
  BY Ranges
<1>2. increment(s) = IF s = ADC_BUFFER_SIZE - 1 THEN 0 ELSE s + 1
  BY IncrementValue
<1>3. QED BY <1>1, <1>2, AdcBufferAssumption DEF Slot, Age, L, Length

LEMMA OrderInit == Init => OrderInv
<1> SUFFICES ASSUME Init PROVE OrderInv
  OBVIOUS
<1>1. L = 0 /\ lastSample = returnValue
  BY DEF Init, BufferInit, adcBufferInit, L, Length
<1>2. \A s \in Slot : Age(s) \in Nat
  BY InitInv, AgeOfNext DEF Inv
<1>3. QED BY <1>1, <1>2 DEF OrderInv

\* The ISR puts the next sample behind the newest value.
LEMMA OrderIsr ==
  ASSUME Inv, OrderInv, timerIsr
  PROVE OrderInv'
<1> SUFFICES ASSUME Exact' PROVE OrderInv'
  BY DEF OrderInv
<1>1. mainPc \notin {"load", "store"} /\ mainPc' = mainPc
  BY DEF Inv, MaskInv, timerIsr
<1>2. /\ elementCount' = IF elementCount < ADC_BUFFER_SIZE
                         THEN elementCount + 1 ELSE elementCount
      /\ data' = [data EXCEPT ![indexIn] = lastSample']
      /\ lastSample' = after(lastSample) /\ returnValue' = returnValue
      /\ indexIn' = increment(indexIn)
      /\ indexOut' = IF increment(indexIn) = indexOut
                     THEN increment(indexOut) ELSE indexOut
  BY DEF timerIsr, addDataToAdcBuffer
<1>3. L' = IF L = ADC_BUFFER_SIZE - 1 THEN L ELSE L + 1
  BY NextSample, LAfterAdd DEF Inv, TypeOK, timerIsr
<1>4. elementCount \in {L, L + 1} /\ elementCount' = L'
  BY <1>1 DEF Inv, CountInv, Exact
<1>5. elementCount = L /\ L < ADC_BUFFER_SIZE - 1
  BY <1>2, <1>3, <1>4, Ranges, AdcBufferAssumption DEF Inv
<1>6. Exact /\ L' = L + 1
  BY <1>1, <1>3, <1>5, Ranges, AdcBufferAssumption DEF Inv, Exact
<1>7. indexOut' = indexOut
  <2>1. /\ indexIn \in Slot /\ indexOut \in Slot
        /\ increment(indexIn) =
             IF indexIn = ADC_BUFFER_SIZE - 1 THEN 0 ELSE indexIn + 1
    BY Ranges, IncrementValue DEF Inv
  <2>2. increment(indexIn) # indexOut
    BY <1>5, <2>1, AdcBufferAssumption DEF Slot, L, Length
  <2>3. QED BY <1>2, <2>2
<1>8. \A s \in Slot : Age(s)' = Age(s)
  BY <1>7 DEF Age
<1>9. /\ data \in [Slot -> 0 .. SampleBound] /\ indexIn \in Slot /\ indexOut \in Slot
      /\ L \in Nat
  BY Ranges DEF Inv
<1>10. data'[indexIn] = after(lastSample) /\ \A s \in Slot : s # indexIn => data'[s] = data[s]
  BY <1>2, <1>9
<1>11. L > 0 => data'[indexOut] = after(returnValue)
  <2> SUFFICES ASSUME L > 0 PROVE data'[indexOut] = after(returnValue)
    OBVIOUS
  <2>1. indexOut # indexIn
    BY LType DEF Inv, isEmpty
  <2>2. data[indexOut] = after(returnValue)
    BY <1>6 DEF OrderInv
  <2>3. QED BY <1>9, <1>10, <2>1, <2>2
<1>12. L = 0 => data'[indexOut] = after(returnValue)
  <2>1. L = 0 => indexOut = indexIn /\ lastSample = returnValue
    BY <1>6, LType DEF Inv, OrderInv, isEmpty
  <2>2. QED BY <1>10, <2>1
<1>13. ASSUME NEW s \in Slot, Age(s) + 1 < L'
       PROVE data'[increment(s)] = after(data'[s])
  <2>1. /\ Age(s) \in Nat /\ s # indexIn /\ increment(s) \in Slot
        /\ Age(increment(s)) = Age(s) + 1
    BY <1>5, <1>6, <1>9, <1>13, AgeOfNext, IncrementValue, AdcBufferAssumption DEF Inv
  <2>2. data'[s] = data[s]
    BY <1>10, <2>1
  <2>3. CASE Age(s) + 1 < L
    <3>1. increment(s) # indexIn
      BY <1>5, <1>9, <2>1, <2>3, AgeOfNext DEF Inv
    <3>2. data[increment(s)] = after(data[s])
      BY <1>6, <2>3 DEF OrderInv
    <3>3. QED BY <1>10, <2>1, <2>2, <3>1, <3>2
  <2>4. CASE Age(s) + 1 = L
    <3>1. increment(s) = indexIn
      BY <1>5, <1>9, <2>1, <2>4, AgeOfNext DEF Inv
    <3>2. data[s] = lastSample
      BY <1>6, <2>4 DEF OrderInv
    <3>3. QED BY <1>10, <2>2, <3>1, <3>2
  <2>5. QED BY <1>6, <1>9, <1>13, <2>1, <2>3, <2>4
<1>14. ASSUME NEW s \in Slot, Age(s) + 1 = L' PROVE data'[s] = lastSample'
  <2>1. s = indexIn
    BY <1>5, <1>6, <1>9, <1>14, AgeOfNext DEF Inv
  <2>2. QED BY <1>2, <1>10, <2>1
<1>15. QED
  BY <1>2, <1>6, <1>7, <1>8, <1>9, <1>11, <1>12, <1>13, <1>14, IncrementValue
  DEF OrderInv, increment

\* A removal gives the oldest value, and the one behind it becomes the oldest.
LEMMA OrderTake ==
  ASSUME Inv, OrderInv, take
  PROVE /\ OrderInv'
        /\ elementCount = L => returnValue' = after(returnValue)
<1>1. /\ mainPc = "take"
      /\ UNCHANGED <<indexIn, data, elementCount, lastSample>>
  BY DEF take
<1>2. /\ data \in [Slot -> 0 .. SampleBound] /\ indexIn \in Slot /\ indexOut \in Slot
      /\ L \in 0 .. ADC_BUFFER_SIZE - 1 /\ elementCount \in Nat
  BY Ranges DEF Inv
<1>3. elementCount >= 1
  BY <1>1, Ranges DEF Inv, LeftInv
<1>4. CASE isEmpty
  <2>1. L = 0 /\ L' = L /\ mainPc' = "enable"
    BY <1>1, <1>4, LType DEF Inv, take, L, Length
  <2>2. elementCount # L /\ ~Exact'
    BY <1>1, <1>2, <1>3, <2>1 DEF Exact
  <2>3. QED BY <2>2 DEF OrderInv
<1>5. CASE ~isEmpty
  <2>1. /\ mainPc' = "load" /\ returnValue' = data[indexOut]
        /\ indexOut' = increment(indexOut)
    BY <1>5 DEF take
  <2>2. L' = L - 1 /\ L > 0
    BY <1>1, <1>2, <1>5, <2>1, LengthAfterTake, LType DEF Inv
  <2>3. Exact' <=> elementCount = L
    BY <1>1, <1>2, <2>1, <2>2 DEF Exact
  <2>4. QED
    <3> SUFFICES ASSUME elementCount = L PROVE OrderInv' /\ returnValue' = after(returnValue)
      BY <2>3 DEF OrderInv
    <3>1. Exact
      BY <1>1 DEF Exact
    <3>2. returnValue' = after(returnValue)
      BY <2>1, <2>2, <3>1 DEF OrderInv
    <3>3. Age(indexOut) = 0
      BY <1>2, AgeOfNext DEF Inv
    <3>4. L' = 0 => lastSample' = returnValue'
      BY <1>1, <1>2, <2>1, <2>2, <3>1, <3>3 DEF OrderInv
    <3>5. L' > 0 => data'[indexOut'] = after(returnValue')
      BY <1>1, <1>2, <2>1, <2>2, <3>1, <3>3 DEF OrderInv
    <3>6. ASSUME NEW s \in Slot
          PROVE Age(s)' = IF s = indexOut THEN ADC_BUFFER_SIZE - 1 ELSE Age(s) - 1
      <4>1. indexOut' = IF indexOut = ADC_BUFFER_SIZE - 1 THEN 0 ELSE indexOut + 1
        BY <1>2, <2>1, IncrementValue
      <4>2. QED BY <1>2, <4>1, AdcBufferAssumption DEF Age, Slot
    <3>7. ASSUME NEW s \in Slot, Age(s)' + 1 < L'
          PROVE data'[increment(s)] = after(data'[s])
      <4>1. Age(s) + 1 < L
        BY <1>2, <2>2, <3>6, <3>7, AgeOfNext, AdcBufferAssumption DEF Inv
      <4>2. QED BY <1>1, <3>1, <4>1 DEF OrderInv
    <3>8. ASSUME NEW s \in Slot, Age(s)' + 1 = L' PROVE data'[s] = lastSample'
      <4>1. Age(s) + 1 = L
        BY <1>2, <2>2, <3>6, <3>8, AgeOfNext, AdcBufferAssumption DEF Inv
      <4>2. QED BY <1>1, <3>1, <4>1 DEF OrderInv
    <3>9. QED BY <3>2, <3>4, <3>5, <3>7, <3>8 DEF OrderInv, increment
<1>6. QED BY <1>4, <1>5

\* The other steps leave the buffer alone; the counter is lowered in store.
LEMMA OrderQuiet ==
  ASSUME Inv, OrderInv,
         poll \/ exit \/ reset \/ query \/ loop \/ load \/ store \/ enable \/ process
           \/ UNCHANGED vars
  PROVE OrderInv'
<1>1. UNCHANGED <<indexIn, indexOut, data, lastSample, returnValue>>
  BY DEF poll, exit, reset, query, loop, load, store, enable, process, vars, bufferVars
<1>2. L' = L /\ \A s \in Slot : Age(s)' = Age(s)
  BY <1>1 DEF L, Length, Age
<1>3. CASE store
  <2>1. /\ mainPc = "store" /\ mainPc' = "enable" /\ elementCount' = elementCount - 1
        /\ elementCount \in Nat /\ L \in Nat
    BY <1>3, Ranges DEF Inv, CountInv, store, at
  <2>2. Exact' <=> Exact
    BY <1>2, <2>1 DEF Exact
  <2>3. QED BY <1>1, <1>2, <2>2 DEF OrderInv, increment
<1>4. CASE poll \/ exit \/ reset \/ query \/ loop \/ load \/ enable \/ process
             \/ UNCHANGED vars
  <2>1. elementCount' = elementCount
    BY <1>4 DEF poll, exit, reset, query, loop, load, enable, process, vars, bufferVars
  <2>2. mainPc \in {"load", "store"} <=> mainPc' \in {"load", "store"}
    BY <1>4 DEF poll, exit, reset, query, loop, load, enable, process, vars, at
  <2>3. Exact' <=> Exact
    BY <1>2, <2>1, <2>2 DEF Exact
  <2>4. QED BY <1>1, <1>2, <2>3 DEF OrderInv, increment
<1>5. QED BY <1>3, <1>4

\* isr.c:44-66, detector.c:86-98: until the first overflow the drain is handed
\* the samples in the order of the ADC, none twice and none left out.
THEOREM InOrder == Spec => SamplesInOrder
<1>1. Inv /\ OrderInv /\ [Next]_vars => OrderInv'
  BY OrderIsr, OrderTake, OrderQuiet DEF Next, mainStep
<1>2. Inv /\ OrderInv /\ [Next]_vars =>
        [take /\ elementCount = Length => returnValue' = after(returnValue)]_vars
  BY OrderTake DEF L
<1>3. QED BY <1>1, <1>2, InitInv, NextInv, OrderInit, PTL DEF Spec, SamplesInOrder
=============================================================================

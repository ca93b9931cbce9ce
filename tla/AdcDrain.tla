------------------------------ MODULE AdcDrain ------------------------------
(***************************************************************************)
(* The timer interrupt filling the ADC buffer against the main loop        *)
(* draining it.  The processor has one core: the ISR is one step, because  *)
(* the main program cannot run before it returns, and it may come before   *)
(* any step of the main program while the ARM interrupts are enabled.  The *)
(* main loop is taken apart at its accesses to shared memory:              *)
(*                                                                         *)
(*   poll     while (!btn3) if (interrupts_isrFlagGlobal)    main.c:196    *)
(*   reset      interrupts_isrFlagGlobal = 0;                main.c:201    *)
(*   query      elementCount = isr_adcBufferElementCount();  detector.c:84 *)
(*   loop       for (i = 0; i < elementCount; i++)           detector.c:86 *)
(*   take, load, store  isr_removeDataFromAdcBuffer()        isr.c:55      *)
(*   enable         interrupts_enableArmInts();              detector.c:93 *)
(*   process        filters; hit => return                   detector.c:98 *)
(*                                                                         *)
(* Samples are numbered 1 .. SampleBound in the order the ADC delivers     *)
(* them, starting over at 1: the number is all that tells them apart.      *)
(***************************************************************************)
EXTENDS AdcBuffer

CONSTANT FILTER_FIR_DECIMATION_FACTOR  \* 10 in the code

ASSUME AdcDrainAssumption == FILTER_FIR_DECIMATION_FACTOR \in Nat \ {0}

VARIABLES lastSample,        \* number of the last sample the ADC delivered
          isrFlagGlobal,     \* interrupts_isrFlagGlobal
          armIntsEnabled,    \* the ARM sees interrupts
          mainPc,
          left,              \* elementCount - i of detector()'s for loop
          loaded,            \* elementCount as read by elementCount--
          sampleCount        \* detector.c:30

vars == <<bufferVars, lastSample, isrFlagGlobal, armIntsEnabled, mainPc, left,
          loaded, sampleCount>>

after(n) == (n % SampleBound) + 1

Init ==
  /\ BufferInit
  /\ lastSample = 0
  /\ isrFlagGlobal = 0
  /\ armIntsEnabled = TRUE
  /\ mainPc = "poll"
  /\ left = 0
  /\ loaded = 0
  /\ sampleCount = 0
-----------------------------------------------------------------------------
\* timerIsr: isr_function() adds the sample, then the flag is raised.
timerIsr ==
  /\ armIntsEnabled
  /\ lastSample' = after(lastSample)
  /\ addDataToAdcBuffer(lastSample')
  /\ isrFlagGlobal' = 1
  /\ UNCHANGED <<armIntsEnabled, mainPc, left, loaded, sampleCount>>

at(from, to) == mainPc = from /\ mainPc' = to

poll ==
  /\ isrFlagGlobal = 1
  /\ at("poll", "reset")
  /\ UNCHANGED <<bufferVars, lastSample, isrFlagGlobal, armIntsEnabled, left,
                 loaded, sampleCount>>

\* btn3 ends the loop and the interrupts are switched off for good.
exit ==
  /\ at("poll", "done")
  /\ armIntsEnabled' = FALSE
  /\ UNCHANGED <<bufferVars, lastSample, isrFlagGlobal, left, loaded, sampleCount>>

reset ==
  /\ at("reset", "query")
  /\ isrFlagGlobal' = 0
  /\ UNCHANGED <<bufferVars, lastSample, armIntsEnabled, left, loaded, sampleCount>>

\* A slip: a drain is always as long as the buffer.
queryWholeBuffer ==
  /\ at("query", "loop")
  /\ left' = ADC_BUFFER_SIZE - 1
  /\ UNCHANGED <<bufferVars, lastSample, isrFlagGlobal, armIntsEnabled, loaded,
                 sampleCount>>

query ==
  /\ at("query", "loop")
  /\ left' = elementCount
  /\ UNCHANGED <<bufferVars, lastSample, isrFlagGlobal, armIntsEnabled, loaded,
                 sampleCount>>

\* Slips: one iteration too many; a loop that runs while the buffer has values;
\* interrupts left enabled for the removal.
loopOnceMore ==
  /\ mainPc = "loop"
  /\ IF left = 0 /\ isrFlagGlobal = 0
     THEN mainPc' = "poll" /\ UNCHANGED armIntsEnabled
     ELSE mainPc' = "take" /\ armIntsEnabled' = FALSE
  /\ UNCHANGED <<bufferVars, lastSample, isrFlagGlobal, left, loaded, sampleCount>>

loopWhileValues ==
  /\ mainPc = "loop"
  /\ left' = elementCount
  /\ IF left' = 0
     THEN mainPc' = "poll" /\ UNCHANGED armIntsEnabled
     ELSE mainPc' = "take" /\ armIntsEnabled' = FALSE
  /\ UNCHANGED <<bufferVars, lastSample, isrFlagGlobal, loaded, sampleCount>>

loopUnmasked ==
  /\ mainPc = "loop"
  /\ mainPc' = IF left = 0 THEN "poll" ELSE "take"
  /\ UNCHANGED <<bufferVars, lastSample, isrFlagGlobal, armIntsEnabled, left, loaded,
                 sampleCount>>

\* The flag is cleared when detector() is done instead of before it starts.
loopThenReset ==
  /\ mainPc = "loop"
  /\ IF left = 0
     THEN mainPc' = "poll" /\ isrFlagGlobal' = 0 /\ UNCHANGED armIntsEnabled
     ELSE mainPc' = "take" /\ armIntsEnabled' = FALSE /\ UNCHANGED isrFlagGlobal
  /\ UNCHANGED <<bufferVars, lastSample, left, loaded, sampleCount>>

\* Either the loop is over or interrupts_disableArmInts() opens an iteration.
loop ==
  /\ mainPc = "loop"
  /\ IF left = 0
     THEN mainPc' = "poll" /\ UNCHANGED armIntsEnabled
     ELSE mainPc' = "take" /\ armIntsEnabled' = FALSE
  /\ UNCHANGED <<bufferVars, lastSample, isrFlagGlobal, left, loaded, sampleCount>>

\* A slip: the out index moves before the value is read.
takeAfterAdvance ==
  /\ mainPc = "take"
  /\ IF isEmpty
     THEN mainPc' = "enable" /\ returnValue' = 0 /\ UNCHANGED indexOut
     ELSE /\ mainPc' = "load"
          /\ indexOut' = increment(indexOut)
          /\ returnValue' = data[indexOut']
  /\ UNCHANGED <<indexIn, data, elementCount, lastSample, isrFlagGlobal,
                 armIntsEnabled, left, loaded, sampleCount>>

\* isr_removeDataFromAdcBuffer up to elementCount--, which is not one access.
take ==
  /\ mainPc = "take"
  /\ IF isEmpty
     THEN mainPc' = "enable" /\ returnValue' = 0 /\ UNCHANGED indexOut
     ELSE /\ mainPc' = "load"
          /\ returnValue' = data[indexOut]
          /\ indexOut' = increment(indexOut)
  /\ UNCHANGED <<indexIn, data, elementCount, lastSample, isrFlagGlobal,
                 armIntsEnabled, left, loaded, sampleCount>>

load ==
  /\ at("load", "store")
  /\ loaded' = elementCount
  /\ UNCHANGED <<bufferVars, lastSample, isrFlagGlobal, armIntsEnabled, left,
                 sampleCount>>

store ==
  /\ at("store", "enable")
  /\ elementCount' = loaded - 1
  /\ UNCHANGED <<indexIn, indexOut, data, returnValue, lastSample,
                 isrFlagGlobal, armIntsEnabled, left, loaded, sampleCount>>

\* A slip: the interrupts stay off.
enableOmitted ==
  /\ at("enable", "process")
  /\ UNCHANGED <<bufferVars, lastSample, isrFlagGlobal, armIntsEnabled, left, loaded,
                 sampleCount>>

enable ==
  /\ at("enable", "process")
  /\ armIntsEnabled' = TRUE
  /\ UNCHANGED <<bufferVars, lastSample, isrFlagGlobal, left, loaded, sampleCount>>

\* The filters run once in every FILTER_FIR_DECIMATION_FACTOR values; a hit
\* then makes detector() return with the rest of its values in the buffer.
process ==
  /\ mainPc = "process"
  /\ left' = left - 1
  /\ IF sampleCount + 1 = FILTER_FIR_DECIMATION_FACTOR
     THEN /\ sampleCount' = 0
          /\ \E hit \in BOOLEAN : mainPc' = IF hit THEN "poll" ELSE "loop"
     ELSE sampleCount' = sampleCount + 1 /\ mainPc' = "loop"
  /\ UNCHANGED <<bufferVars, lastSample, isrFlagGlobal, armIntsEnabled, loaded>>

mainStep == poll \/ reset \/ query \/ loop \/ take \/ load \/ store \/ enable
            \/ process

Next == timerIsr \/ mainStep \/ exit

\* The timer never stops while the interrupts are enabled, and an ISR is
\* shorter than its period, so the main program gets on between two of them.
Spec == Init /\ [][Next]_vars

FairSpec == Spec /\ WF_vars(timerIsr) /\ WF_vars(mainStep)
-----------------------------------------------------------------------------
TypeOK ==
  /\ BufferTypeOK
  /\ lastSample \in 0 .. SampleBound
  /\ isrFlagGlobal \in {0, 1}
  /\ armIntsEnabled \in BOOLEAN
  /\ mainPc \in {"poll", "reset", "query", "loop", "take", "load", "store",
                 "enable", "process", "done"}
  /\ left \in 0 .. ADC_BUFFER_SIZE
  /\ loaded \in 0 .. ADC_BUFFER_SIZE
  /\ sampleCount \in 0 .. FILTER_FIR_DECIMATION_FACTOR - 1

\* Until the buffer has overflowed once, detector() removes only values that
\* are there: its snapshot of elementCount stays covered whatever the ISR adds
\* and however the counter is updated.  (detector.c:84-91)
NoPhantomSample ==
  mainPc = "take" /\ elementCount = Length => ~isEmpty

\* The buffer as the ISR sees it: the counter is taken as already lowered once
\* the out index has moved.
Atomic == INSTANCE AdcBuffer
            WITH elementCount <- IF mainPc \in {"load", "store"}
                                 THEN elementCount - 1 ELSE elementCount

\* The counter is the number of values or one more, a removal in progress counted
\* as done: the unsigned decrement never wraps, and no drain runs for 2^32 turns
\* or leaves values behind for good, however often the buffer overflows between
\* the accesses. (isr.c:45, 62)
CounterCoversValues == Atomic!CountCoversValues

\* Even after an overflow a drain invents at most one sample, its last.
PhantomIsLast == mainPc = "take" /\ isEmpty => left = 1

\* No wakeup is lost: when the main loop waits with the flag down and its last
\* drain was not cut short by a hit, the buffer is empty. (main.c:197-202)
\* Of a drain cut short ValuesAreTakenUp speaks.
NothingLeftWaiting ==
  mainPc = "poll" /\ isrFlagGlobal = 0 /\ left = 0 => isEmpty

\* As long as nothing was overwritten, detector() gets every sample once and in
\* the order the ADC delivered them. (isr.c:44-66, detector.c:86-98)
SamplesInOrder ==
  [][take /\ elementCount = Length => returnValue' = after(returnValue)]_vars

\* The masked removal is atomic for the ISR: these steps implement AdcBuffer.
\* (detector.c:87-93)
RemovalIsAtomic == Atomic!BufferSpec

\* detector() returns although the ISR keeps adding samples: the for loop is
\* over its snapshot. (detector.c:84-86)
DrainTerminates == mainPc = "query" ~> mainPc = "poll"

\* What waits in the buffer is removed later, unless the mode is left: the
\* values that came since the last drain as well as those a hit left behind by
\* making detector() return in the middle of one. (main.c:196-202,
\* detector.c:126)
ValuesAreTakenUp ==
  mainPc = "poll" /\ ~isEmpty ~> (mainPc = "take" /\ ~isEmpty) \/ mainPc = "done"

\* "Number of values contained in adcBuffer_t" (isr.c:22), "the number of values
\* in the ADC buffer" (isr.h:16): what isr_adcBufferElementCount() is about to
\* return.  It is not so: elementCount is counted up to the number of slots, one
\* more than the values the buffer keeps. (isr.c:45)
CountIsNumberOfValues == mainPc = "query" => elementCount = Length
=============================================================================

---------------------------- MODULE FilterChain ----------------------------
(***************************************************************************)
(* From a sample to a hit: detector()'s loop over the decimating FIR       *)
(* filter, the bank of IIR filters, the power of each channel and the      *)
(* threshold (detector.c:96-118, filter.c).  All of it runs in the main    *)
(* program and nothing of it is shared with the interrupt, so each call is *)
(* one step.  Before it, main() runs a test of the filters and then        *)
(* detector_runTest(), and what they leave behind matters here.            *)
(***************************************************************************)
EXTENDS Detector, Filter

CONSTANTS FILTER_FIR_DECIMATION_FACTOR,  \* 10 in the code
          FilterTest,   \* the tests of filter.h that may have run first: main()
                        \* as it is calls "filter_runTest", the other one is
                        \* "filter_runTestDJs"
          ForcedPower,  \* values of detector_runTest()'s first data set
          TestPower,    \* its second data set
          Input,        \* scaled samples
          Garbage,      \* what a power may become without storage to read
          MaxSamples    \* bound on the samples taken

ASSUME FilterChainAssumption ==
  /\ FILTER_FIR_DECIMATION_FACTOR \in Nat \ {0}
  /\ POWER_OUTPUT_QUEUE_SIZE \in Nat \ {0}
  /\ FIR_COEF_COUNT \in Nat \ {0}
  /\ IIR_A_COEFFICIENT_COUNT \in Nat \ {0} /\ IIR_B_COEFFICIENT_COUNT \in Nat \ {0}
  /\ firBcoeff \in [0 .. FIR_COEF_COUNT - 1 -> Int]
  /\ iirAcoeff \in [FilterNumber -> [0 .. IIR_A_COEFFICIENT_COUNT - 1 -> Int]]
  /\ iirBcoeff \in [FilterNumber -> [0 .. IIR_B_COEFFICIENT_COUNT - 1 -> Int]]
  /\ ForcedPower \subseteq Int /\ TestPower \in [FilterNumber -> Int]
  /\ Input \subseteq Int /\ Garbage \subseteq Int

\* detector.c:187: "The following data should not detect a hit."
ASSUME SecondDataSetIsQuiet == ~StandsOut(TestPower)

VARIABLES phase,        \* "test1", "test2" of detector_runTest(), then "mode"
          xQueue, yQueue, zQueue, powerOutput,
          inDetector,   \* main() is in a call of detector()
          sampleCount,  \* detector.c:30, kept from one call to the next
          channel,      \* i of the loop over the channels
          taken         \* samples taken so far

queues == <<xQueue, yQueue, zQueue, powerOutput>>
vars == <<detectorVars, phase, queues, inDetector, sampleCount, channel, taken>>

queuesFilledWith(value, x, y, z) ==
  /\ x = filledQueue(FIR_COEF_COUNT, value, 1)
  /\ y = filledQueue(IIR_B_COEFFICIENT_COUNT, value, 1)
  /\ z = [f \in FilterNumber |-> filledQueue(IIR_A_COEFFICIENT_COUNT, value, 1)]

filter_init == queuesFilledWith(0, xQueue', yQueue', zQueue')

\* The filter test leaves values in the x, y and z queues.  filter_runTestDJs()
\* fills each power queue twice with its filter's number; nothing else that is
\* called gives the power queues storage.
Init ==
  /\ DetectorInit
  /\ currentPowerValue \in [FilterNumber -> ForcedPower]
  /\ pc = "computeHit" /\ phase = "test1"
  /\ queuesFilledWith(1, xQueue, yQueue, zQueue)
  /\ \E test \in FilterTest :
       powerOutput = [f \in FilterNumber |->
                        IF test = "filter_runTestDJs"
                        THEN filledQueue(POWER_OUTPUT_QUEUE_SIZE, f, 2) ELSE NoQueue]
  /\ inDetector = FALSE /\ sampleCount = 0 /\ channel = 0 /\ taken = 0
-----------------------------------------------------------------------------
chainUnchanged == UNCHANGED <<phase, queues, sampleCount, channel, taken>>

\* A slip: the hit of the first data set is not cleared.
computeHitKeepingHit ==
  /\ \/ (copyPower \/ sortNext \/ testThreshold) /\ UNCHANGED inDetector
     \/ /\ report /\ inDetector' = FALSE
        /\ phase # "mode" => UNCHANGED detector_hitDetectedFlag
  /\ chainUnchanged

\* detector_computeHit(), and what is done with its flag: detector_runTest()
\* clears it after its first data set and leaves it after its second; detector()
\* returns on a hit, however many samples of the drain are left (detector.c:126).
computeHit ==
  /\ \/ (copyPower \/ sortNext \/ testThreshold) /\ UNCHANGED inDetector
     \/ /\ report /\ inDetector' = FALSE
        /\ phase = "test1" => detector_hitDetectedFlag' = FALSE
        /\ phase = "test2" => UNCHANGED detector_hitDetectedFlag
  /\ chainUnchanged

secondTest ==
  /\ phase = "test1" /\ phase' = "test2"
  /\ pc = "samples" /\ pc' = "computeHit"
  /\ currentPowerValue' = TestPower
  /\ UNCHANGED <<sortedPower, nextToSort, detector_hitDetectedFlag, queues,
                 inDetector, sampleCount, channel, taken>>

\* detector_init() of either mode: new x, y and z queues, power queues and
\* power values as they are.
enterMode ==
  /\ phase = "test2" /\ phase' = "mode"
  /\ pc = "samples"
  /\ filter_init
  /\ UNCHANGED <<detectorVars, powerOutput, inDetector, sampleCount, channel, taken>>

inMode(from) ==
  /\ phase = "mode" /\ pc = from
  /\ UNCHANGED <<phase, sortedPower, nextToSort, detector_hitDetectedFlag>>

\* A call of detector() and its end after its last sample; either way sampleCount
\* stays what it is.
callDetector ==
  /\ inMode("samples") /\ ~inDetector /\ inDetector' = TRUE
  /\ UNCHANGED <<pc, currentPowerValue, queues, sampleCount, channel, taken>>

detectorReturns ==
  /\ inMode("samples") /\ inDetector /\ inDetector' = FALSE
  /\ UNCHANGED <<pc, currentPowerValue, queues, sampleCount, channel, taken>>

filter_addNewInput ==
  /\ inMode("samples") /\ inDetector /\ taken < MaxSamples
  /\ \E x \in Input : xQueue' = queue_overwritePush(xQueue, x)
  /\ IF sampleCount + 1 = FILTER_FIR_DECIMATION_FACTOR
     THEN sampleCount' = 0 /\ pc' = "fir"
     ELSE sampleCount' = sampleCount + 1 /\ UNCHANGED pc
  /\ taken' = taken + 1
  /\ UNCHANGED <<currentPowerValue, yQueue, zQueue, powerOutput, inDetector, channel>>

filter_firFilter ==
  /\ inMode("fir") /\ pc' = "channels"
  /\ yQueue' = queue_overwritePush(yQueue, firOutput(xQueue))
  /\ channel' = 0
  /\ UNCHANGED <<currentPowerValue, xQueue, zQueue, powerOutput, inDetector,
                 sampleCount, taken>>

\* One turn of the loop over the channels: filter_iirFilter(channel) and
\* filter_computePower(channel, false, false).  What a power computation reads
\* from a queue without storage is anybody's guess.  After the last channel the
\* lockout timer decides whether detector_computeHit() is called.
runChannel ==
  /\ inMode("channels")
  /\ LET z == iirOutput(yQueue, zQueue[channel], channel)
         pushed == powerPush(powerOutput[channel], z)
     IN /\ zQueue' = [zQueue EXCEPT ![channel] = queue_overwritePush(@, z)]
        /\ powerOutput' = [powerOutput EXCEPT ![channel] = pushed]
        /\ \E guess \in Garbage :
             currentPowerValue' =
               [currentPowerValue EXCEPT ![channel] =
                  IF hasStorage(pushed) THEN nextPower(pushed, @) ELSE guess]
  /\ channel' = channel + 1
  /\ IF channel < Last THEN UNCHANGED pc ELSE pc' \in {"samples", "computeHit"}
  /\ UNCHANGED <<xQueue, yQueue, inDetector, sampleCount, taken>>

exit ==
  /\ inMode("samples") /\ ~inDetector /\ pc' = "done"
  /\ UNCHANGED <<currentPowerValue, queues, inDetector, sampleCount, channel, taken>>

Next == computeHit \/ secondTest \/ enterMode \/ callDetector \/ detectorReturns
        \/ filter_addNewInput \/ filter_firFilter \/ runChannel \/ exit

Spec == Init /\ [][Next]_vars
-----------------------------------------------------------------------------
QueueOf(size) ==
  [indexIn : 0 .. size, indexOut : 0 .. size, elementCount : {size},
   size : {size + 1}, data : [0 .. size -> Int]]

\* The x, y and z queues stay full: a window is read only when every one of its
\* places holds a value of the signal.
TypeOK ==
  /\ DetectorTypeOK
  /\ pc \in {"samples", "fir", "channels", "computeHit", "sort", "report", "done"}
  /\ phase \in {"test1", "test2", "mode"}
  /\ xQueue \in QueueOf(FIR_COEF_COUNT)
  /\ yQueue \in QueueOf(IIR_B_COEFFICIENT_COUNT)
  /\ zQueue \in [FilterNumber -> QueueOf(IIR_A_COEFFICIENT_COUNT)]
  /\ \A f \in FilterNumber :
       powerOutput[f] \in QueueOf(POWER_OUTPUT_QUEUE_SIZE) \cup {NoQueue}
  /\ inDetector \in BOOLEAN
  /\ sampleCount \in 0 .. FILTER_FIR_DECIMATION_FACTOR - 1
  /\ channel \in 0 .. FILTER_IIR_FILTER_COUNT

\* The values of a full queue by age, newest first; nothing counts before the
\* mode is entered.
window(q, count) ==
  [age \in 0 .. count - 1 |-> IF phase = "mode"
                              THEN queue_readElementAt(q, count - 1 - age) ELSE 0]

Equation == INSTANCE DifferenceEquation
  WITH b <- firBcoeff, a <- iirAcoeff, bIir <- iirBcoeff,
       Decimation <- FILTER_FIR_DECIMATION_FACTOR,
       x <- window(xQueue, FIR_COEF_COUNT),
       y <- window(yQueue, IIR_B_COEFFICIENT_COUNT),
       z <- [f \in FilterNumber |-> window(zQueue[f], IIR_A_COEFFICIENT_COUNT)],
       phase <- IF pc = "fir" THEN FILTER_FIR_DECIMATION_FACTOR ELSE sampleCount,
       pending <- IF pc = "channels" THEN channel .. Last ELSE {}

\* The queues, read oldest first against coefficients read last first, compute
\* the difference equations of the two filter stages, wherever the seams of the
\* rings lie, on every D-th sample, however the samples are divided between
\* calls of detector() and whichever of them a hit cuts short.
\* (filter.c:134-163, detector.c:98-126)
ImplementsDifferenceEquation == Equation!Spec

\* The hit that detector_runTest() provokes at power-up is not there when the game
\* starts.  No initialisation of a mode clears the flag: it rests on the order of
\* the two data sets, the clear between them, and a sort and a threshold that find
\* nothing in the second one. (detector.c:165-197, 38-41)
GameStartsWithoutHit == [][enterMode => ~detector_hitDetectedFlag]_vars

\* filter.h:28-30 promises of filter_init(): "Will initialize queues and any
\* other stuff you need to init before using your filters."
PowerQueuesHaveStorage ==
  pc = "channels" => \A f \in FilterNumber : hasStorage(powerOutput[f])
=============================================================================

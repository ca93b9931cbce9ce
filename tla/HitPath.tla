------------------------------ MODULE HitPath ------------------------------
(***************************************************************************)
(* From a detected hit to the lockout, the hit LED and the hit display:    *)
(* detector() and the main loop around it (detector.c:81-136,              *)
(* main.c:195-225 and 99-145) against the two timers that isr_function()   *)
(* ticks.  What the filters compute is left open: at each power            *)
(* computation the strongest channel may or may not exceed the threshold,  *)
(* and how many computations a call of detector() makes is open too.       *)
(* mode is the main program that was started (main.c:237-240).             *)
(*                                                                         *)
(* One core: an ISR is one step.  An ISR takes less than its period of     *)
(* 10 us, so the main program gets on between two ISRs: it takes a step,   *)
(* or it is busy with one of its long ones.                                *)
(***************************************************************************)
EXTENDS Naturals, FiniteSets

CONSTANTS LOCKOUT_TIME, LED_TIME,
          Channel  \* the FILTER_IIR_FILTER_COUNT frequency channels

ASSUME HitPathAssumption ==
  LOCKOUT_TIME \in Nat \ {0} /\ LED_TIME \in Nat \ {0}

VARIABLES mode,  \* "shooterMode" or "continuousPowerMode"
          lockoutState, lockoutEnable, lockoutCount,  \* LockoutTimer
          ledState, ledEnable, ledCount, hitLed,      \* HitLedTimer
          isrFlagGlobal,
          mainRan,          \* main got on since the last ISR
          mainPc,
          overThreshold,    \* sortedPower[9] > threshold at the last sort
          hitDetectedFlag,  \* detector_hitDetectedFlag
          hitArray,         \* detector_hitArray
          lockedByHit,      \* history: the last lockout was started by a hit
          sinceLockout      \* history: ticks since then, up to LOCKOUT_TIME + 1

lockout == <<lockoutState, lockoutEnable, lockoutCount>>
led == <<ledState, ledEnable, ledCount, hitLed>>
history == <<lockedByHit, sinceLockout>>
vars == <<mode, lockout, led, isrFlagGlobal, mainRan, mainPc, overThreshold,
          hitDetectedFlag, hitArray, history>>

Lockout == INSTANCE LockoutTimer
HitLed == INSTANCE HitLedTimer

Init ==
  /\ mode \in {"shooterMode", "continuousPowerMode"}
  /\ Lockout!Init
  /\ HitLed!Init
  /\ isrFlagGlobal = 0
  /\ mainRan = TRUE
  /\ mainPc = IF mode = "shooterMode" THEN "startup" ELSE "poll"
  /\ overThreshold = FALSE
  /\ hitDetectedFlag = FALSE
  /\ hitArray = [c \in Channel |-> 0]
  /\ lockedByHit = FALSE
  /\ sinceLockout = LOCKOUT_TIME + 1
-----------------------------------------------------------------------------
\* timerIsr with the two ticks that matter here; the order of the two does not.
timerIsr ==
  /\ mainRan /\ mainRan' = FALSE
  /\ mainPc # "done"
  /\ HitLed!hitLedTimer_tick
  /\ Lockout!lockoutTimer_tick
  /\ isrFlagGlobal' = 1
  /\ sinceLockout' = IF sinceLockout > LOCKOUT_TIME THEN sinceLockout
                     ELSE sinceLockout + 1
  /\ UNCHANGED <<mode, mainPc, overThreshold, hitDetectedFlag, hitArray, lockedByHit>>

goto(from, to) ==
  mainPc = from /\ mainPc' = to /\ mainRan' = TRUE /\ UNCHANGED mode

\* main.c:195 "Ignore erroneous hits at startup", with the interrupts on.
startup ==
  /\ goto("startup", "poll")
  /\ Lockout!lockoutTimer_start
  /\ lockedByHit' = FALSE /\ sinceLockout' = 0
  /\ UNCHANGED <<led, isrFlagGlobal, overThreshold, hitDetectedFlag, hitArray>>

pollAgain ==
  /\ isrFlagGlobal = 0
  /\ goto("poll", "poll")
  /\ UNCHANGED <<lockout, led, isrFlagGlobal, overThreshold, hitDetectedFlag,
                 hitArray, history>>

\* The flag is up: clear it and call detector().
poll ==
  /\ isrFlagGlobal = 1
  /\ goto("poll", "samples")
  /\ isrFlagGlobal' = 0
  /\ UNCHANGED <<lockout, led, overThreshold, hitDetectedFlag, hitArray, history>>

exit ==
  /\ goto("poll", "done")
  /\ UNCHANGED <<lockout, led, isrFlagGlobal, overThreshold, hitDetectedFlag,
                 hitArray, history>>

\* Filtering, sorting and drawing outlast any number of ISRs.
busy ==
  /\ \E at \in {"samples", "computeHit", "report"} : goto(at, at)
  /\ UNCHANGED <<lockout, led, isrFlagGlobal, overThreshold, hitDetectedFlag,
                 hitArray, history>>

\* detector() takes samples until its snapshot is used up or the decimation
\* count asks for a power computation.
samples ==
  /\ \E to \in {"testLockout", "report"} : goto("samples", to)
  /\ UNCHANGED <<lockout, led, isrFlagGlobal, overThreshold, hitDetectedFlag,
                 hitArray, history>>

\* A slip: the lockout is not looked at.
testNothing ==
  /\ goto("testLockout", "computeHit")
  /\ UNCHANGED <<lockout, led, isrFlagGlobal, overThreshold, hitDetectedFlag,
                 hitArray, history>>

testLockout ==
  /\ goto("testLockout", IF Lockout!lockoutTimer_running THEN "samples"
                                                         ELSE "computeHit")
  /\ UNCHANGED <<lockout, led, isrFlagGlobal, overThreshold, hitDetectedFlag,
                 hitArray, history>>

\* detector_computeHit() and the test of the flag that follows it.  The flag is
\* set by a hit and never cleared here.
computeHit ==
  /\ overThreshold' \in BOOLEAN
  /\ hitDetectedFlag' = (hitDetectedFlag \/ overThreshold')
  /\ goto("computeHit", IF hitDetectedFlag' THEN "startLockout" ELSE "samples")
  /\ UNCHANGED <<lockout, led, isrFlagGlobal, hitArray, history>>

startLockout ==
  /\ goto("startLockout", "startLed")
  /\ Lockout!lockoutTimer_start
  /\ lockedByHit' = TRUE /\ sinceLockout' = 0
  /\ UNCHANGED <<led, isrFlagGlobal, overThreshold, hitDetectedFlag, hitArray>>

startLed ==
  /\ goto("startLed", "countHit")
  /\ HitLed!hitLedTimer_start
  /\ UNCHANGED <<lockout, isrFlagGlobal, overThreshold, hitDetectedFlag,
                 hitArray, history>>

\* The search for the strongest channel returns from detector() as soon as it
\* finds it, so the increment of hitArray and the rest of the loop are skipped.
countHit ==
  /\ goto("countHit", "report")
  /\ UNCHANGED <<lockout, led, isrFlagGlobal, overThreshold, hitDetectedFlag,
                 hitArray, history>>

\* A slip: the hit is reported and not cleared.
reportKeepingHit ==
  /\ goto("report", "poll")
  /\ UNCHANGED <<lockout, led, isrFlagGlobal, overThreshold, hitDetectedFlag,
                 hitArray, history>>

\* The main loop after detector(): shooterMode() shows the hit counts and
\* clears the hit, continuousPowerMode() does not look at it.
report ==
  /\ goto("report", "poll")
  /\ hitDetectedFlag' = (hitDetectedFlag /\ mode # "shooterMode")
  /\ UNCHANGED <<lockout, led, isrFlagGlobal, overThreshold, hitArray, history>>

mainStep == startup \/ pollAgain \/ poll \/ samples \/ testLockout \/ computeHit
            \/ startLockout \/ startLed \/ countHit \/ report

Next == timerIsr \/ mainStep \/ busy \/ exit

Spec == Init /\ [][Next]_vars

\* The timer interrupts the ARM forever, the main program gets its work done
\* between the interrupts, and detector() is over when its snapshot is.
FairSpec ==
  /\ Spec
  /\ WF_vars(timerIsr) /\ WF_vars(mainStep)
  /\ SF_vars(samples /\ mainPc' = "report")
-----------------------------------------------------------------------------
TypeOK ==
  /\ mode \in {"shooterMode", "continuousPowerMode"}
  /\ Lockout!TypeOK
  /\ HitLed!TypeOK
  /\ isrFlagGlobal \in {0, 1}
  /\ mainRan \in BOOLEAN
  /\ mainPc \in {"startup", "poll", "samples", "testLockout", "computeHit",
                 "startLockout", "startLed", "countHit", "report", "done"}
  /\ overThreshold \in BOOLEAN
  /\ hitDetectedFlag \in BOOLEAN
  /\ hitArray \in [Channel -> Nat]
  /\ lockedByHit \in BOOLEAN
  /\ sinceLockout \in 0 .. LOCKOUT_TIME + 1

\* Two hits, or the start of the game and a hit, are more than LOCKOUT_TIME
\* ticks apart, wherever the ISRs fall in between. (detector.c:110-117)
HitsAreSpaced == mainPc = "startLockout" => sinceLockout > LOCKOUT_TIME

\* In a game a hit is announced only on a power computation that exceeds the
\* threshold: the flag of an earlier hit is gone before the next one is looked
\* for. (detector.c:115, main.c:204)
HitsAreFresh ==
  mode = "shooterMode" /\ mainPc \in {"startLockout", "startLed", "countHit"}
    => overThreshold

\* Each timer is a countdown that starts when it is called and is never cut
\* short, prolonged or left on, wherever main's calls fall between the ticks.
\* (lockoutTimer.c, hitLedTimer.c)
LockoutImplementsTimer == Lockout!ImplementsTimer
LedImplementsTimer == HitLed!ImplementsTimer

\* detector.c:114 "If you detect a hit:" says when the lockout is started.
LockoutMeansHit == mainPc = "startLockout" => overThreshold

\* A hit that was seen makes the LED lit from the tick after hitLedTimer_start
\* for as long as the lockout lasts: no hit is left without its light.
\* hitLedTimer.c:36 "Calling this starts the timer."
EveryHitLightsLed ==
  lockedByHit /\ lockoutEnable /\ mainPc # "startLed" => ledEnable

\* detector.c:120 "Increment detector_hitArray at the index of the frequency of
\* the IIR-filter output where you detected the hit."
DetectedHitIsCounted ==
  mainPc = "report" /\ hitDetectedFlag => \E c \in Channel : hitArray[c] > 0

\* The LED goes off again unless the mode is left, which stops the ticks.
LedGoesOff == hitLed = 1 ~> hitLed = 0 \/ mainPc = "done"

\* In a game a hit is reported and cleared before the next one can be. (main.c:203-204)
HitIsReported == mode = "shooterMode" /\ hitDetectedFlag ~> ~hitDetectedFlag
=============================================================================

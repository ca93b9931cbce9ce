--------------------------- MODULE HitPath_proofs ---------------------------
(***************************************************************************)
(* Theorems about HitPath for every LOCKOUT_TIME, LED_TIME and set of      *)
(* channels.  The invariant IInv says, beyond the types, what each timer   *)
(* keeps true of itself, that the ticks since the last start and the ticks *)
(* the lockout has left add up to its full length, where the main program  *)
(* is when the lockout cannot be running, and where it is when no hit can  *)
(* be pending.                                                             *)
(***************************************************************************)
EXTENDS HitPath, TLAPS

\* sinceLockout mirrors the lockout's own countdown.
SinceInv == sinceLockout + Lockout!remaining = LOCKOUT_TIME + 1

\* Only main starts the lockout, so it stays off from main's look at it to the
\* start that follows.
OffInv ==
  mainPc \in {"startup", "computeHit", "startLockout"} => ~lockoutEnable

\* In a game the flag is down whenever a hit is looked for.
ClearInv ==
  mode = "shooterMode"
  /\ mainPc \in {"startup", "poll", "samples", "testLockout", "computeHit"}
    => ~hitDetectedFlag

IInv == /\ TypeOK
        /\ Lockout!RunsEnabled
        /\ HitLed!LedInv
        /\ SinceInv
        /\ OffInv
        /\ ClearInv
        /\ HitsAreFresh

\* All that a step does to the lockout timer is one of its own operations.
LEMMA LockoutAction ==
  ASSUME [Next]_vars
  PROVE Lockout!lockoutTimer_start \/ Lockout!lockoutTimer_tick \/ UNCHANGED lockout
BY DEF Next, vars, lockout, timerIsr, mainStep, startup, pollAgain, poll, exit,
       busy, samples, testLockout, computeHit, startLockout, startLed, countHit,
       report

\* The same for the hit LED timer.
LEMMA LedAction ==
  ASSUME [Next]_vars
  PROVE HitLed!hitLedTimer_start \/ HitLed!hitLedTimer_tick \/ UNCHANGED led
BY DEF Next, vars, led, timerIsr, mainStep, startup, pollAgain, poll, exit,
       busy, samples, testLockout, computeHit, startLockout, startLed, countHit,
       report

LEMMA LockoutInv ==
  ASSUME Lockout!TypeOK, Lockout!RunsEnabled, [Next]_vars
  PROVE Lockout!TypeOK' /\ Lockout!RunsEnabled'
<1>1. CASE Lockout!lockoutTimer_start
  BY <1>1 DEF Lockout!lockoutTimer_start, Lockout!TypeOK, Lockout!RunsEnabled
<1>2. CASE Lockout!lockoutTimer_tick
  <2>1. CASE Lockout!tickIdle
    BY <2>1 DEF Lockout!tickIdle, Lockout!vars, Lockout!TypeOK, Lockout!RunsEnabled
  <2>2. CASE Lockout!tickStart
    BY <2>2, HitPathAssumption
       DEF Lockout!tickStart, Lockout!TypeOK, Lockout!RunsEnabled
  <2>3. CASE Lockout!tickRun
    BY <2>3, HitPathAssumption
       DEF Lockout!tickRun, Lockout!TypeOK, Lockout!RunsEnabled
  <2>4. CASE Lockout!tickEnd
    <3>1. lockoutState' = "init_st" /\ lockoutEnable' = FALSE
      BY <2>4 DEF Lockout!tickEnd
    <3>2. lockoutCount' \in 0 .. LOCKOUT_TIME
      BY <2>4, HitPathAssumption DEF Lockout!tickEnd
    <3>3. QED
      BY <3>1, <3>2, Zenon DEF Lockout!TypeOK, Lockout!RunsEnabled
  <2>5. QED BY <1>2, <2>1, <2>2, <2>3, <2>4 DEF Lockout!lockoutTimer_tick
<1>3. CASE UNCHANGED lockout
  BY <1>3 DEF lockout, Lockout!TypeOK, Lockout!RunsEnabled
<1>4. QED BY <1>1, <1>2, <1>3, LockoutAction

LEMMA LedInvStep ==
  ASSUME HitLed!TypeOK, HitLed!LedInv, [Next]_vars
  PROVE HitLed!TypeOK' /\ HitLed!LedInv'
<1>1. CASE HitLed!hitLedTimer_start
  BY <1>1 DEF HitLed!hitLedTimer_start, HitLed!TypeOK, HitLed!LedInv
<1>2. CASE HitLed!hitLedTimer_tick
  <2>1. CASE HitLed!tickIdle
    BY <2>1 DEF HitLed!tickIdle, HitLed!vars, HitLed!TypeOK, HitLed!LedInv
  <2>2. CASE HitLed!tickStart
    BY <2>2, HitPathAssumption
       DEF HitLed!tickStart, HitLed!hitLedTimer_setLed, HitLed!TypeOK, HitLed!LedInv
  <2>3. CASE HitLed!tickRun
    BY <2>3, HitPathAssumption
       DEF HitLed!tickRun, HitLed!TypeOK, HitLed!LedInv
  <2>4. CASE HitLed!tickEnd
    <3>1. ledState' = "init_st" /\ ledEnable' = FALSE /\ hitLed' = 0
      BY <2>4 DEF HitLed!tickEnd, HitLed!hitLedTimer_setLed
    <3>2. ledCount' \in 0 .. LED_TIME
      BY <2>4, HitPathAssumption DEF HitLed!tickEnd
    <3>3. 0 # 1
      OBVIOUS
    <3>4. QED
      BY <3>1, <3>2, <3>3, Zenon DEF HitLed!TypeOK, HitLed!LedInv
  <2>5. QED BY <1>2, <2>1, <2>2, <2>3, <2>4 DEF HitLed!hitLedTimer_tick
<1>3. CASE UNCHANGED led
  BY <1>3 DEF led, HitLed!TypeOK, HitLed!LedInv
<1>4. QED BY <1>1, <1>2, <1>3, LedAction
-----------------------------------------------------------------------------
(* Each timer implements OneShotTimer, step by step.                        *)

LEMMA LockoutStartRefines ==
  ASSUME Lockout!TypeOK, Lockout!RunsEnabled, Lockout!lockoutTimer_start
  PROVE Lockout!Timer!Start
<1>1. Lockout!remaining \in Nat /\ (Lockout!remaining = 0 <=> ~lockoutEnable)
  BY HitPathAssumption DEF Lockout!TypeOK, Lockout!RunsEnabled, Lockout!remaining
<1>2. CASE lockoutEnable
  BY <1>1, <1>2 DEF Lockout!lockoutTimer_start, Lockout!remaining, Lockout!Timer!Start
<1>3. CASE ~lockoutEnable
  BY <1>1, <1>3 DEF Lockout!lockoutTimer_start, Lockout!TypeOK, Lockout!RunsEnabled,
                    Lockout!remaining, Lockout!Timer!Start
<1>4. QED BY <1>2, <1>3

\* What a tick does to the countdown of the lockout, and what is left at its end.
LEMMA LockoutTickRemaining ==
  ASSUME Lockout!TypeOK, Lockout!RunsEnabled, Lockout!lockoutTimer_tick
  PROVE /\ Lockout!remaining \in 0 .. LOCKOUT_TIME + 1
        /\ Lockout!remaining' = IF Lockout!remaining = 0 THEN 0
                                ELSE Lockout!remaining - 1
        /\ lockoutState' = "run_st" <=> Lockout!remaining' # 0
<1>0. Lockout!remaining \in 0 .. LOCKOUT_TIME + 1
  BY HitPathAssumption DEF Lockout!TypeOK, Lockout!RunsEnabled, Lockout!remaining
<1>1. CASE Lockout!tickIdle
  BY <1>0, <1>1 DEF Lockout!tickIdle, Lockout!vars, Lockout!remaining
<1>2. CASE Lockout!tickStart
  BY <1>0, <1>2, HitPathAssumption DEF Lockout!tickStart, Lockout!remaining
<1>3. CASE Lockout!tickRun
  BY <1>0, <1>3, HitPathAssumption
     DEF Lockout!tickRun, Lockout!TypeOK, Lockout!RunsEnabled, Lockout!remaining
<1>4. CASE Lockout!tickEnd
  BY <1>0, <1>4, HitPathAssumption
     DEF Lockout!tickEnd, Lockout!TypeOK, Lockout!RunsEnabled, Lockout!remaining
<1>5. QED BY <1>1, <1>2, <1>3, <1>4 DEF Lockout!lockoutTimer_tick

LEMMA LedStartRefines ==
  ASSUME HitLed!TypeOK, HitLed!LedInv, HitLed!hitLedTimer_start
  PROVE HitLed!Timer!Start
<1>1. HitLed!remaining \in Nat /\ (HitLed!remaining = 0 <=> ~ledEnable)
  BY HitPathAssumption DEF HitLed!TypeOK, HitLed!LedInv, HitLed!remaining
<1>2. CASE ledEnable
  BY <1>1, <1>2 DEF HitLed!hitLedTimer_start, HitLed!remaining, HitLed!Timer!Start
<1>3. CASE ~ledEnable
  BY <1>1, <1>3 DEF HitLed!hitLedTimer_start, HitLed!TypeOK, HitLed!LedInv,
                    HitLed!remaining, HitLed!Timer!Start
<1>4. QED BY <1>2, <1>3

LEMMA LedTickRemaining ==
  ASSUME HitLed!TypeOK, HitLed!LedInv, HitLed!hitLedTimer_tick
  PROVE /\ HitLed!remaining' = IF HitLed!remaining = 0 THEN 0
                               ELSE HitLed!remaining - 1
        /\ hitLed' = 1 <=> HitLed!remaining' # 0
<1>0. HitLed!remaining \in 0 .. LED_TIME + 1
  BY HitPathAssumption DEF HitLed!TypeOK, HitLed!LedInv, HitLed!remaining
<1>1. CASE HitLed!tickIdle
  BY <1>0, <1>1
     DEF HitLed!tickIdle, HitLed!vars, HitLed!TypeOK, HitLed!LedInv, HitLed!remaining
<1>2. CASE HitLed!tickStart
  BY <1>0, <1>2, HitPathAssumption
     DEF HitLed!tickStart, HitLed!hitLedTimer_setLed, HitLed!remaining
<1>3. CASE HitLed!tickRun
  BY <1>0, <1>3, HitPathAssumption
     DEF HitLed!tickRun, HitLed!TypeOK, HitLed!LedInv, HitLed!remaining
<1>4. CASE HitLed!tickEnd
  BY <1>0, <1>4, HitPathAssumption
     DEF HitLed!tickEnd, HitLed!hitLedTimer_setLed, HitLed!TypeOK, HitLed!LedInv,
         HitLed!remaining
<1>5. QED BY <1>1, <1>2, <1>3, <1>4 DEF HitLed!hitLedTimer_tick
-----------------------------------------------------------------------------
LEMMA LockoutStep ==
  ASSUME Lockout!TypeOK, Lockout!RunsEnabled, [Next]_vars
  PROVE [Lockout!Timer!Next]_<<Lockout!remaining, lockoutState = "run_st">>
<1>1. CASE Lockout!lockoutTimer_start
  BY <1>1, LockoutStartRefines DEF Lockout!Timer!Next
<1>2. CASE Lockout!lockoutTimer_tick
  BY <1>2, LockoutTickRemaining DEF Lockout!Timer!Next, Lockout!Timer!Tick
<1>3. CASE UNCHANGED lockout
  BY <1>3 DEF lockout, Lockout!remaining
<1>4. QED BY <1>1, <1>2, <1>3, LockoutAction

LEMMA LedStep ==
  ASSUME HitLed!TypeOK, HitLed!LedInv, [Next]_vars
  PROVE [HitLed!Timer!Next]_<<HitLed!remaining, hitLed = 1>>
<1>1. CASE HitLed!hitLedTimer_start
  BY <1>1, LedStartRefines DEF HitLed!Timer!Next
<1>2. CASE HitLed!hitLedTimer_tick
  BY <1>2, LedTickRemaining DEF HitLed!Timer!Next, HitLed!Timer!Tick
<1>3. CASE UNCHANGED led
  BY <1>3 DEF led, HitLed!remaining
<1>4. QED BY <1>1, <1>2, <1>3, LedAction

\* Main's steps set the clock back exactly when they start the lockout.
LEMMA SinceStep ==
  ASSUME Lockout!TypeOK, Lockout!RunsEnabled, SinceInv, OffInv,
         sinceLockout \in 0 .. LOCKOUT_TIME + 1, [Next]_vars
  PROVE SinceInv'
<1>0. Lockout!remaining \in 0 .. LOCKOUT_TIME + 1
  BY HitPathAssumption DEF Lockout!TypeOK, Lockout!RunsEnabled, Lockout!remaining
<1>1. CASE timerIsr
  <2>1. Lockout!remaining' = IF Lockout!remaining = 0 THEN 0
                             ELSE Lockout!remaining - 1
    BY <1>1, LockoutTickRemaining DEF timerIsr
  <2>2. sinceLockout' = IF sinceLockout > LOCKOUT_TIME THEN sinceLockout
                        ELSE sinceLockout + 1
    BY <1>1 DEF timerIsr
  <2>3. QED BY <1>0, <2>1, <2>2, HitPathAssumption DEF SinceInv
<1>2. CASE startup \/ startLockout
  <2>1. ~lockoutEnable
    BY <1>2 DEF OffInv, startup, startLockout, goto
  <2>2. lockoutState = "init_st"
    BY <2>1 DEF Lockout!TypeOK, Lockout!RunsEnabled
  <2>3. lockoutEnable' = TRUE /\ lockoutState' = "init_st" /\ sinceLockout' = 0
    BY <1>2, <2>2 DEF startup, startLockout, Lockout!lockoutTimer_start
  <2>4. QED BY <2>3, HitPathAssumption DEF SinceInv, Lockout!remaining
<1>3. CASE pollAgain \/ poll \/ exit \/ busy \/ samples \/ testLockout \/ computeHit
           \/ startLed \/ countHit \/ report \/ UNCHANGED vars
  <2>1. UNCHANGED <<lockout, sinceLockout>>
    BY <1>3 DEF vars, history, pollAgain, poll, exit, busy, samples, testLockout,
                computeHit, startLed, countHit, report
  <2>2. QED BY <2>1 DEF SinceInv, lockout, Lockout!remaining
<1>4. QED BY <1>1, <1>2, <1>3 DEF Next, mainStep

LEMMA OffStep ==
  ASSUME Lockout!TypeOK, Lockout!RunsEnabled, OffInv, [Next]_vars
  PROVE OffInv'
<1>1. CASE timerIsr
  <2>1. mainPc' = mainPc /\ Lockout!lockoutTimer_tick
    BY <1>1 DEF timerIsr
  <2>2. ~lockoutEnable => ~lockoutEnable'
    BY <2>1 DEF Lockout!RunsEnabled, Lockout!lockoutTimer_tick, Lockout!vars,
                Lockout!tickIdle, Lockout!tickStart, Lockout!tickRun, Lockout!tickEnd
  <2>3. QED BY <2>1, <2>2 DEF OffInv
<1>2. CASE testLockout
  BY <1>2 DEF testLockout, goto, lockout, Lockout!lockoutTimer_running, OffInv
<1>3. CASE computeHit \/ busy
  BY <1>3 DEF computeHit, busy, goto, lockout, OffInv
<1>4. CASE startup \/ pollAgain \/ poll \/ exit \/ samples \/ startLockout
           \/ startLed \/ countHit \/ report
  BY <1>4 DEF startup, pollAgain, poll, exit, samples, startLockout, startLed,
              countHit, report, goto, OffInv
<1>5. CASE UNCHANGED vars
  BY <1>5 DEF vars, lockout, OffInv
<1>6. QED BY <1>1, <1>2, <1>3, <1>4, <1>5 DEF Next, mainStep

\* The flag and the threshold together.
LEMMA FreshStep ==
  ASSUME TypeOK, ClearInv, HitsAreFresh, [Next]_vars
  PROVE ClearInv' /\ HitsAreFresh'
<1>1. CASE timerIsr \/ pollAgain \/ poll \/ exit \/ busy \/ samples \/ testLockout
           \/ startup \/ startLockout \/ startLed \/ countHit
  BY <1>1 DEF timerIsr, pollAgain, poll, exit, busy, samples, testLockout,
              startup, startLockout, startLed, countHit, goto, ClearInv, HitsAreFresh
<1>2. CASE computeHit
  BY <1>2 DEF computeHit, goto, TypeOK, ClearInv, HitsAreFresh
<1>3. CASE report
  BY <1>3 DEF report, goto, TypeOK, ClearInv, HitsAreFresh
<1>4. CASE UNCHANGED vars
  BY <1>4 DEF vars, ClearInv, HitsAreFresh
<1>5. QED BY <1>1, <1>2, <1>3, <1>4 DEF Next, mainStep
-----------------------------------------------------------------------------
\* The variables of HitPath itself keep their types.
OwnTypes ==
  /\ mode \in {"shooterMode", "continuousPowerMode"}
  /\ isrFlagGlobal \in {0, 1}
  /\ mainRan \in BOOLEAN
  /\ mainPc \in {"startup", "poll", "samples", "testLockout", "computeHit",
                 "startLockout", "startLed", "countHit", "report", "done"}
  /\ overThreshold \in BOOLEAN
  /\ hitDetectedFlag \in BOOLEAN
  /\ hitArray \in [Channel -> Nat]
  /\ lockedByHit \in BOOLEAN
  /\ sinceLockout \in 0 .. LOCKOUT_TIME + 1

LEMMA SinceType ==
  ASSUME sinceLockout \in 0 .. LOCKOUT_TIME + 1, [Next]_vars
  PROVE sinceLockout' \in 0 .. LOCKOUT_TIME + 1
<1>1. CASE timerIsr
  BY <1>1, HitPathAssumption DEF timerIsr
<1>2. CASE startup \/ startLockout
  BY <1>2, HitPathAssumption DEF startup, startLockout
<1>3. CASE pollAgain \/ poll \/ exit \/ busy \/ samples \/ testLockout \/ computeHit
           \/ startLed \/ countHit \/ report \/ UNCHANGED vars
  BY <1>3 DEF vars, history, pollAgain, poll, exit, busy, samples, testLockout,
              computeHit, startLed, countHit, report
<1>4. QED BY <1>1, <1>2, <1>3 DEF Next, mainStep

LEMMA OwnTypesStep ==
  ASSUME OwnTypes, [Next]_vars
  PROVE OwnTypes'
<1>1. sinceLockout' \in 0 .. LOCKOUT_TIME + 1
  BY SinceType DEF OwnTypes
<1>2. hitArray' = hitArray
  BY DEF Next, mainStep, vars, timerIsr, startup, pollAgain, poll, exit, busy,
         samples, testLockout, computeHit, startLockout, startLed, countHit, report
<1>3. /\ mode' = mode
      /\ isrFlagGlobal' \in {0, 1}
      /\ mainRan' \in BOOLEAN
      /\ mainPc' \in {"startup", "poll", "samples", "testLockout", "computeHit",
                      "startLockout", "startLed", "countHit", "report", "done"}
      /\ overThreshold' \in BOOLEAN
      /\ hitDetectedFlag' \in BOOLEAN
      /\ lockedByHit' \in BOOLEAN
  <2>1. CASE timerIsr
    BY <2>1 DEF OwnTypes, timerIsr
  <2>2. CASE startup \/ pollAgain \/ poll \/ exit \/ busy \/ samples \/ testLockout
    BY <2>2 DEF OwnTypes, startup, pollAgain, poll, exit, busy, samples,
                testLockout, goto, history
  <2>3. CASE computeHit \/ startLockout \/ startLed \/ countHit
    BY <2>3 DEF OwnTypes, computeHit, startLockout, startLed, countHit, goto, history
  <2>4. CASE report
    BY <2>4 DEF OwnTypes, report, goto, history
  <2>5. CASE UNCHANGED vars
    BY <2>5 DEF OwnTypes, vars, history
  <2>6. QED BY <2>1, <2>2, <2>3, <2>4, <2>5 DEF Next, mainStep
<1>4. QED BY <1>1, <1>2, <1>3 DEF OwnTypes

LEMMA InitInv == Init => IInv
<1>1. ASSUME Init
      PROVE Lockout!TypeOK /\ Lockout!RunsEnabled
  <2>1. lockoutState = "init_st" /\ lockoutEnable = FALSE
    BY <1>1 DEF Init, Lockout!Init
  <2>2. lockoutCount \in 0 .. LOCKOUT_TIME
    BY <1>1, HitPathAssumption DEF Init, Lockout!Init
  <2>3. QED BY <2>1, <2>2, Zenon DEF Lockout!TypeOK, Lockout!RunsEnabled
<1>2. ASSUME Init
      PROVE HitLed!TypeOK /\ HitLed!LedInv
  <2>1. ledState = "init_st" /\ ledEnable = FALSE /\ hitLed = 0 /\ 0 # 1
    BY <1>2 DEF Init, HitLed!Init
  <2>2. ledCount \in 0 .. LED_TIME
    BY <1>2, HitPathAssumption DEF Init, HitLed!Init
  <2>3. QED BY <2>1, <2>2, Zenon DEF HitLed!TypeOK, HitLed!LedInv
<1>3. ASSUME Init
      PROVE OwnTypes
  <2>1. sinceLockout \in 0 .. LOCKOUT_TIME + 1
    BY <1>3, HitPathAssumption DEF Init
  <2>2. hitArray \in [Channel -> Nat]
    BY <1>3 DEF Init
  <2>3. /\ mode \in {"shooterMode", "continuousPowerMode"} /\ mainRan = TRUE
        /\ isrFlagGlobal = 0
        /\ mainPc = IF mode = "shooterMode" THEN "startup" ELSE "poll"
        /\ overThreshold = FALSE /\ hitDetectedFlag = FALSE /\ lockedByHit = FALSE
    BY <1>3 DEF Init
  <2>4. QED BY <2>1, <2>2, <2>3, Zenon DEF OwnTypes
<1>4. ASSUME Init
      PROVE SinceInv
  BY <1>4, HitPathAssumption DEF Init, Lockout!Init, SinceInv, Lockout!remaining
<1>5. ASSUME Init
      PROVE OffInv /\ ClearInv /\ HitsAreFresh
  <2>1. lockoutEnable = FALSE /\ hitDetectedFlag = FALSE
    BY <1>5 DEF Init, Lockout!Init
  <2>2. mainPc \notin {"startLockout", "startLed", "countHit"}
    BY <1>5 DEF Init
  <2>3. QED BY <2>1, <2>2, Zenon DEF OffInv, ClearInv, HitsAreFresh
<1>6. QED BY <1>1, <1>2, <1>3, <1>4, <1>5 DEF IInv, TypeOK, OwnTypes

LEMMA NextInv == IInv /\ [Next]_vars => IInv'
<1> SUFFICES ASSUME IInv, [Next]_vars
             PROVE IInv'
  OBVIOUS
<1>1. Lockout!TypeOK /\ HitLed!TypeOK /\ OwnTypes
  BY DEF IInv, TypeOK, OwnTypes
<1>2. Lockout!TypeOK' /\ Lockout!RunsEnabled'
  BY <1>1, LockoutInv DEF IInv
<1>3. HitLed!TypeOK' /\ HitLed!LedInv'
  BY <1>1, LedInvStep DEF IInv
<1>4. OwnTypes'
  BY <1>1, OwnTypesStep
<1>5. SinceInv' /\ OffInv'
  BY <1>1, SinceStep, OffStep DEF IInv, OwnTypes
<1>6. ClearInv' /\ HitsAreFresh'
  BY FreshStep DEF IInv
<1>7. QED BY <1>2, <1>3, <1>4, <1>5, <1>6 DEF IInv, TypeOK, OwnTypes

THEOREM Invariance == Spec => []IInv
BY InitInv, NextInv, PTL DEF Spec

\* Every variable of the hit path stays in its range in every execution.
THEOREM TypeCorrect == Spec => []TypeOK
<1>1. IInv => TypeOK
  BY DEF IInv
<1>2. QED BY <1>1, Invariance, PTL

\* detector.c:110-117: two hits are more than LOCKOUT_TIME ticks apart.
THEOREM Spaced == Spec => []HitsAreSpaced
<1>1. IInv => HitsAreSpaced
  <2> SUFFICES ASSUME IInv, mainPc = "startLockout"
               PROVE sinceLockout > LOCKOUT_TIME
    BY DEF HitsAreSpaced
  <2>1. ~lockoutEnable
    BY DEF IInv, OffInv
  <2>2. Lockout!remaining = 0
    BY <2>1 DEF Lockout!remaining
  <2>3. sinceLockout \in Nat /\ sinceLockout + 0 = LOCKOUT_TIME + 1
    BY <2>2 DEF IInv, TypeOK, SinceInv
  <2>4. QED BY <2>3, HitPathAssumption
<1>2. QED BY <1>1, Invariance, PTL

\* detector.c:115, main.c:204: every hit of a game is a fresh one.
THEOREM Fresh == Spec => []HitsAreFresh
<1>1. IInv => HitsAreFresh
  BY DEF IInv
<1>2. QED BY <1>1, Invariance, PTL

\* lockoutTimer.c: whatever main and the ISR do to it, in whatever order, the
\* lockout timer is a one-shot countdown of LOCKOUT_TIME ticks.
THEOREM LockoutRefines == Spec => LockoutImplementsTimer
<1>1. Init => Lockout!Timer!Init
  BY DEF Init, Lockout!Init, Lockout!Timer!Init, Lockout!remaining
<1>2. IInv /\ [Next]_vars
      => [Lockout!Timer!Next]_<<Lockout!remaining, lockoutState = "run_st">>
  BY LockoutStep DEF IInv, TypeOK
<1>3. QED
  BY <1>1, <1>2, Invariance, PTL
     DEF Spec, LockoutImplementsTimer, Lockout!ImplementsTimer, Lockout!Timer!Spec,
         Lockout!Timer!vars

\* hitLedTimer.c: the LED is lit for LED_TIME ticks per start, and then is off.
THEOREM LedRefines == Spec => LedImplementsTimer
<1>1. Init => HitLed!Timer!Init
  BY DEF Init, HitLed!Init, HitLed!Timer!Init, HitLed!remaining
<1>2. IInv /\ [Next]_vars
      => [HitLed!Timer!Next]_<<HitLed!remaining, hitLed = 1>>
  BY LedStep DEF IInv, TypeOK
<1>3. QED
  BY <1>1, <1>2, Invariance, PTL
     DEF Spec, LedImplementsTimer, HitLed!ImplementsTimer, HitLed!Timer!Spec,
         HitLed!Timer!vars
=============================================================================

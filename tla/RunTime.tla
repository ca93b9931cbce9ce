------------------------------- MODULE RunTime -------------------------------
(***************************************************************************)
(* main() around the parts it drives: the calls that set the program up,   *)
(* the timer interrupt, and the counters and interval timers from which    *)
(* printRunTimeStatistics() works out what it shows.  The ISR holds up the *)
(* main program from its entry to its exit; only the clock runs on.  What  *)
(* isr_function() and detector() do to the samples and the game is in      *)
(* AdcDrain, ShotPath, HitPath and FilterChain.                            *)
(***************************************************************************)
EXTENDS IntervalTimer, Sequences

CONSTANTS privateTimerTicksPerHeartbeat,
          InterruptBound   \* bound on the number of interrupts

ASSUME RunTimeAssumption ==
  /\ INTERVAL_TIMER_MAX_TIMER_INDEX = 2
  /\ privateTimerTicksPerHeartbeat \in Nat
  /\ InterruptBound \in Nat

VARIABLES mode,
          setUpDone,           \* how many calls of SetUp have returned
          pending,             \* the private timer's interrupt status
          armIntsEnabled,
          inIsr,
          heartBeatTimer, ledValue,
          isrInvocationCount,
          isrFlagGlobal,       \* interrupts_isrFlagGlobal
          countInterrupts,     \* countInterruptsViaInterruptsIsrFlag
          mainPc,
          shown                \* the timers printRunTimeStatistics() has read

isrVars == <<inIsr, heartBeatTimer, ledValue, isrInvocationCount>>
vars == <<timerVars, mode, setUpDone, pending, armIntsEnabled, isrVars,
          isrFlagGlobal, countInterrupts, mainPc, shown>>

ISR_CUMULATIVE_TIMER == 0
TOTAL_RUNTIME_TIMER == 1
MAIN_CUMULATIVE_TIMER == 2

\* What each mode calls before its loop; the display, the buttons and the like
\* are left out.
shooterMode ==
  <<"intervalTimer_initAll", "transmitter_init", "detector_init", "filter_init",
    "isr_init", "hitLedTimer_init", "trigger_init", "trigger_enable",
    "interrupts_initAll", "enableTimerGlobalInts", "startArmPrivateTimer",
    "enableSysMonGlobalInts", "reset0", "reset1", "reset2", "start1",
    "enableArmInts", "lockoutTimer_start">>

continuousPowerMode ==
  <<"intervalTimer_initAll", "transmitter_init", "detector_init", "filter_init",
    "isr_init", "interrupts_initAll", "enableTimerGlobalInts",
    "startArmPrivateTimer", "reset0", "reset1", "reset2", "start1",
    "enableArmInts">>

calls(m) == IF m = "shooter" THEN shooterMode ELSE continuousPowerMode

\* Slips: no reset of the main loop's timer; interrupts enabled too early.
setUpNoReset(m) == SelectSeq(calls(m), LAMBDA c : c # "reset2")

setUpEnableFirst(m) ==
  LET first == <<"interrupts_initAll", "enableTimerGlobalInts",
                 "startArmPrivateTimer", "enableArmInts">>
  IN first \o SelectSeq(calls(m), LAMBDA c : \A k \in 1 .. 4 : c # first[k])

SetUp(m) == calls(m)

called == {SetUp(mode)[k] : k \in 1 .. setUpDone}

Init ==
  /\ TimersInit
  /\ \E left \in {Zero, [upper |-> 1, lower |-> 0]} : counter = [t \in Timer |-> left]
  /\ \E bits \in {{}, {"ENT0"}} : tcsr0 = [t \in Timer |-> bits]
  /\ mode \in {"shooter", "continuousPower"}
  /\ setUpDone = 0
  /\ pending = FALSE /\ armIntsEnabled = FALSE /\ inIsr = FALSE
  /\ heartBeatTimer = 0 /\ ledValue = 0
  /\ isrInvocationCount = 0 /\ isrFlagGlobal = 0 /\ countInterrupts = 0
  /\ mainPc = "setUp"
  /\ shown = [t \in Timer |-> Zero]
-----------------------------------------------------------------------------
\* The hardware: the clock of the interval timers, and the private timer.
clockTick ==
  /\ mainPc # "done"
  /\ clock
  /\ UNCHANGED <<mode, setUpDone, pending, armIntsEnabled, isrVars, isrFlagGlobal,
                 countInterrupts, mainPc, shown>>

\* BOUND: InterruptBound.  An expiry before the last one is acknowledged is lost.
privateTimerExpires ==
  /\ "startArmPrivateTimer" \in called
  /\ isrInvocationCount < InterruptBound
  /\ mainPc # "done"
  /\ pending' = TRUE
  /\ UNCHANGED <<timerVars, mode, setUpDone, armIntsEnabled, isrVars, isrFlagGlobal,
                 countInterrupts, mainPc, shown>>

updateHeartBeatLed ==
  IF heartBeatTimer = 0
  THEN heartBeatTimer' = privateTimerTicksPerHeartbeat /\ ledValue' = 1 - ledValue
  ELSE heartBeatTimer' = heartBeatTimer - 1 /\ UNCHANGED ledValue

timerIsr ==
  /\ pending /\ armIntsEnabled /\ ~inIsr
  /\ {"interrupts_initAll", "enableTimerGlobalInts"} \subseteq called
  /\ inIsr' = TRUE
  /\ intervalTimer_start(ISR_CUMULATIVE_TIMER)
  /\ updateHeartBeatLed
  /\ isrInvocationCount' = isrInvocationCount + 1
  /\ isrFlagGlobal' = 1
  /\ UNCHANGED <<mode, setUpDone, pending, armIntsEnabled, countInterrupts, mainPc,
                 shown>>

timerIsrEnd ==
  /\ inIsr /\ inIsr' = FALSE
  /\ intervalTimer_stop(ISR_CUMULATIVE_TIMER)
  /\ pending' = FALSE
  /\ UNCHANGED <<mode, setUpDone, armIntsEnabled, heartBeatTimer, ledValue,
                 isrInvocationCount, isrFlagGlobal, countInterrupts, mainPc, shown>>
-----------------------------------------------------------------------------
\* The main program goes on when no ISR runs.
at(from, to) == ~inIsr /\ mainPc = from /\ mainPc' = to

\* The next call of the mode's list.
setUp ==
  LET call == SetUp(mode)[setUpDone + 1] IN
  /\ at("setUp", IF setUpDone + 1 = Len(SetUp(mode)) THEN "poll" ELSE "setUp")
  /\ setUpDone' = setUpDone + 1
  /\ CASE call = "intervalTimer_initAll" -> intervalTimer_initAll
       [] call = "reset0" -> intervalTimer_reset(ISR_CUMULATIVE_TIMER)
       [] call = "reset1" -> intervalTimer_reset(TOTAL_RUNTIME_TIMER)
       [] call = "reset2" -> intervalTimer_reset(MAIN_CUMULATIVE_TIMER)
       [] call = "start1" -> intervalTimer_start(TOTAL_RUNTIME_TIMER)
       [] OTHER -> UNCHANGED timerVars
  /\ armIntsEnabled' = (armIntsEnabled \/ call = "enableArmInts")
  /\ UNCHANGED <<mode, pending, isrVars, isrFlagGlobal, countInterrupts, shown>>

\* btn3 is up and an interrupt has been seen.
pollInterrupt ==
  /\ isrFlagGlobal = 1
  /\ at("poll", "clear")
  /\ intervalTimer_start(MAIN_CUMULATIVE_TIMER)
  /\ countInterrupts' = countInterrupts + 1
  /\ UNCHANGED <<mode, setUpDone, pending, armIntsEnabled, isrVars, isrFlagGlobal, shown>>

\* btn3 is up and there is none: shooterMode() still stops the timer.
pollNothing ==
  /\ isrFlagGlobal = 0 /\ mode = "shooter"
  /\ at("poll", "poll")
  /\ intervalTimer_stop(MAIN_CUMULATIVE_TIMER)
  /\ UNCHANGED <<mode, setUpDone, pending, armIntsEnabled, isrVars, isrFlagGlobal,
                 countInterrupts, shown>>

\* A slip: the flag stays up.
clearNothing ==
  /\ at("clear", "work")
  /\ UNCHANGED <<timerVars, mode, setUpDone, pending, armIntsEnabled, isrVars,
                 isrFlagGlobal, countInterrupts, shown>>

clear ==
  /\ at("clear", "work")
  /\ isrFlagGlobal' = 0
  /\ UNCHANGED <<timerVars, mode, setUpDone, pending, armIntsEnabled, isrVars,
                 countInterrupts, shown>>

\* detector() masks the interrupts for each removal of a sample.
work ==
  /\ at("work", "work")
  /\ armIntsEnabled' = ~armIntsEnabled
  /\ UNCHANGED <<timerVars, mode, setUpDone, pending, isrVars, isrFlagGlobal,
                 countInterrupts, shown>>

workDone ==
  /\ armIntsEnabled
  /\ at("work", "poll")
  /\ intervalTimer_stop(MAIN_CUMULATIVE_TIMER)
  /\ UNCHANGED <<mode, setUpDone, pending, armIntsEnabled, isrVars, isrFlagGlobal,
                 countInterrupts, shown>>

\* btn3 is down: interrupts_disableArmInts().
exit ==
  /\ at("poll", "print1")
  /\ armIntsEnabled' = FALSE
  /\ UNCHANGED <<timerVars, mode, setUpDone, pending, isrVars, isrFlagGlobal,
                 countInterrupts, shown>>

\* printRunTimeStatistics() reads timer t and goes on to the next.
print(t, here, next) ==
  /\ mainPc = here /\ ~inIsr
  /\ (readUpper(t) \/ readOn)
  /\ IF readPc' = "none" THEN mainPc' = next /\ shown' = [shown EXCEPT ![t] = value']
     ELSE UNCHANGED <<mainPc, shown>>
  /\ UNCHANGED <<mode, setUpDone, pending, armIntsEnabled, isrVars, isrFlagGlobal,
                 countInterrupts>>

printRunTimeStatistics ==
  \/ print(TOTAL_RUNTIME_TIMER, "print1", "print0")
  \/ print(ISR_CUMULATIVE_TIMER, "print0", "print2")
  \/ print(MAIN_CUMULATIVE_TIMER, "print2", "done")

mainStep == \/ setUp \/ pollInterrupt \/ pollNothing \/ clear \/ work \/ workDone
            \/ exit \/ printRunTimeStatistics

Next == clockTick \/ privateTimerExpires \/ timerIsr \/ timerIsrEnd \/ mainStep

Spec == Init /\ [][Next]_vars
-----------------------------------------------------------------------------
\* The types of the variables.
TypeOK ==
  /\ TimersTypeOK
  /\ setUpDone \in 0 .. Len(SetUp(mode))
  /\ heartBeatTimer \in 0 .. privateTimerTicksPerHeartbeat
  /\ ledValue \in {0, 1} /\ isrFlagGlobal \in {0, 1}
  /\ isrInvocationCount \in 0 .. InterruptBound /\ countInterrupts \in Nat
  /\ shown \in [Timer -> Counter]

\* The statistics fit together: no more than all of the running time is shown
\* as spent in the ISR or in the main loop, although the running time is read
\* first and while its timer counts on. (main.c:50-60)
StatisticsAreConsistent ==
  mainPc = "done" =>
    \A t \in Timer : atMost(shown[t], shown[TOTAL_RUNTIME_TIMER])

\* The main loop detects an interrupt at most once, whenever the ISR comes
\* between its test of the flag and the reset of it. (main.c:197-201)
DetectedAtMostOnce == countInterrupts <= isrInvocationCount

\* The calls of main.c that set up something the ISR ticks, fills or measures with;
\* detector_init() is there for the lockout timer, isr_init() for the ADC buffer.
forIsr ==
  {"intervalTimer_initAll", "transmitter_init", "detector_init", "isr_init",
   "hitLedTimer_init", "trigger_init", "trigger_enable", "reset0"}

\* The interrupt, however long it has been waiting, meets nothing half set up: what
\* the mode sets up for the ISR at all is set up before the first one, and the
\* running time is being measured.  This is about order only.  shooterMode() calls
\* all of forIsr; continuousPowerMode() leaves out the hit LED timer and the trigger,
\* which its ISR ticks without their ever being initialised. (main.c:72-98, 164-194)
SetUpPrecedesIsr ==
  inIsr => /\ {SetUp(mode)[k] : k \in DOMAIN SetUp(mode)} \cap forIsr \subseteq called
           /\ running(TOTAL_RUNTIME_TIMER)

\* LD4 changes at the first interrupt and then once in
\* privateTimerTicksPerHeartbeat + 1 interrupts. (interrupts.c:142-150)
HeartBeatPeriod ==
  ledValue = ((isrInvocationCount + privateTimerTicksPerHeartbeat)
                \div (privateTimerTicksPerHeartbeat + 1)) % 2

IsrWatch == INSTANCE Stopwatch WITH
  time <- elapsed(ISR_CUMULATIVE_TIMER), on <- running(ISR_CUMULATIVE_TIMER)
RunningWatch == INSTANCE Stopwatch WITH
  time <- elapsed(TOTAL_RUNTIME_TIMER), on <- running(TOTAL_RUNTIME_TIMER)
MainWatch == INSTANCE Stopwatch WITH
  time <- elapsed(MAIN_CUMULATIVE_TIMER), on <- running(MAIN_CUMULATIVE_TIMER)

\* Each timer is a stopwatch: it counts up while it is started, stands while it
\* is stopped, and a reset stops it at zero. (intervalTimer.c:48-98)
ImplementsStopwatch == IsrWatch!Spec /\ RunningWatch!Spec /\ MainWatch!Spec
=============================================================================

---------------------------- MODULE HitLedTimer ----------------------------
(***************************************************************************)
(* hitLedTimer.c: lights the hit LED (MIO pin 11, and LD0 with it) for     *)
(* LED_TIME ticks.  hitLedTimer_start() is called by the main program,     *)
(* hitLedTimer_tick() by isr_function().                                   *)
(***************************************************************************)
EXTENDS Naturals

CONSTANT LED_TIME  \* 50000 ticks in the code

VARIABLES ledState, ledEnable, ledCount,
          hitLed  \* value last written to HIT_LED_PIN and to the LEDs

vars == <<ledState, ledEnable, ledCount, hitLed>>

Init == ledState = "init_st" /\ ledEnable = FALSE /\ ledCount = 0 /\ hitLed = 0

hitLedTimer_start == ledEnable' = TRUE /\ UNCHANGED <<ledState, ledCount, hitLed>>

hitLedTimer_running == ledEnable

hitLedTimer_setLed(value) == hitLed' = value

\* hitLedTimer_tick, one definition for each way through its two switches.
tickIdle == ledState = "init_st" /\ ~ledEnable /\ UNCHANGED vars

\* A slip: the count of the last run is kept.
tickStartKeepingCount ==
  /\ ledState = "init_st" /\ ledEnable
  /\ ledState' = "high_st"
  /\ hitLedTimer_setLed(1)
  /\ UNCHANGED <<ledEnable, ledCount>>

tickStart ==
  /\ ledState = "init_st" /\ ledEnable
  /\ ledState' = "high_st"
  /\ hitLedTimer_setLed(1)
  /\ ledCount' = 0
  /\ UNCHANGED ledEnable

tickRun ==
  /\ ledState = "high_st" /\ ledCount + 1 # LED_TIME
  /\ ledCount' = ledCount + 1
  /\ UNCHANGED <<ledState, ledEnable, hitLed>>

\* Slips: the LED is not switched off; the enable flag is not taken back.
tickEndLit ==
  /\ ledState = "high_st" /\ ledCount + 1 = LED_TIME
  /\ ledCount' = LED_TIME
  /\ ledEnable' = FALSE
  /\ ledState' = "init_st"
  /\ UNCHANGED hitLed

tickEndEnabled ==
  /\ ledState = "high_st" /\ ledCount + 1 = LED_TIME
  /\ ledCount' = LED_TIME
  /\ hitLedTimer_setLed(0)
  /\ ledState' = "init_st"
  /\ UNCHANGED ledEnable

tickEnd ==
  /\ ledState = "high_st" /\ ledCount + 1 = LED_TIME
  /\ ledCount' = LED_TIME
  /\ ledEnable' = FALSE
  /\ hitLedTimer_setLed(0)
  /\ ledState' = "init_st"

hitLedTimer_tick == tickIdle \/ tickStart \/ tickRun \/ tickEnd

-----------------------------------------------------------------------------
TypeOK ==
  /\ ledState \in {"init_st", "high_st"}
  /\ ledEnable \in BOOLEAN
  /\ ledCount \in 0 .. LED_TIME
  /\ hitLed \in {0, 1}

\* The LED is lit exactly while the machine is in high_st, and there the timer
\* is enabled and has ticks left.
LedInv ==
  /\ hitLed = 1 <=> ledState = "high_st"
  /\ ledState = "high_st" => ledEnable /\ ledCount < LED_TIME

remaining == IF ~ledEnable THEN 0
             ELSE IF ledState = "init_st" THEN LED_TIME + 1
             ELSE LED_TIME - ledCount

Timer == INSTANCE OneShotTimer WITH Duration <- LED_TIME, output <- hitLed = 1

\* The LED is lit for exactly LED_TIME ticks per start.
ImplementsTimer == Timer!Spec
=============================================================================

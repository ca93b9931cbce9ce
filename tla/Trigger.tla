------------------------------ MODULE Trigger ------------------------------
(***************************************************************************)
(* trigger.c: a debounced pull of the trigger (the gun's or btn0) runs the *)
(* transmitter.  trigger_tick() is called by isr_function(), trigger_init  *)
(* and trigger_enable() by the main program.  The module shares txEnable   *)
(* with Transmitter: trigger_tick() calls transmitter_run() and            *)
(* trigger_enable() asks transmitter_running().                            *)
(***************************************************************************)
EXTENDS Naturals

CONSTANT DEBOUNCE_TIME  \* 5000 ticks in the code

VARIABLES triggerState, trigEnable, trigCount, ignoreGunInput,
          gun, btn0,  \* the two inputs as last read
          txEnable

trigger == <<triggerState, trigEnable, trigCount, ignoreGunInput>>

Init ==
  /\ triggerState = "init_st" /\ trigEnable = FALSE /\ trigCount = 0
  /\ ignoreGunInput = FALSE

triggerPressed == (~ignoreGunInput /\ gun) \/ btn0

trigger_init ==
  /\ ignoreGunInput' = (ignoreGunInput \/ triggerPressed)
  /\ UNCHANGED <<triggerState, trigEnable, trigCount>>

\* The second half of trigger_enable(), the transmitter seen not running.
setEnableFlag ==
  trigEnable' = TRUE /\ UNCHANGED <<triggerState, trigCount, ignoreGunInput>>

goto(from, to) == triggerState = from /\ triggerState' = to

\* trigger_tick, one definition for each way through its two switches.
tickWait ==
  /\ \/ triggerState = "init_st" /\ ~trigEnable
     \/ triggerState = "waitPress_st" /\ ~triggerPressed
     \/ triggerState = "waitRelease_st" /\ triggerPressed
  /\ UNCHANGED <<trigger, txEnable>>

tickListen ==
  /\ trigEnable
  /\ goto("init_st", "waitPress_st")
  /\ UNCHANGED <<trigEnable, trigCount, ignoreGunInput, txEnable>>

tickPressed ==
  /\ triggerPressed
  /\ goto("waitPress_st", "press_st")
  /\ trigCount' = 0
  /\ UNCHANGED <<trigEnable, ignoreGunInput, txEnable>>

tickDebounce ==
  /\ triggerState \in {"press_st", "release_st"}
  /\ trigCount + 1 < DEBOUNCE_TIME
  /\ trigCount' = trigCount + 1
  /\ UNCHANGED <<triggerState, trigEnable, ignoreGunInput, txEnable>>

\* A slip: the debounced press is not passed on.
tickShootNothing ==
  /\ trigCount + 1 = DEBOUNCE_TIME
  /\ goto("press_st", "waitRelease_st")
  /\ trigCount' = DEBOUNCE_TIME
  /\ UNCHANGED <<trigEnable, ignoreGunInput, txEnable>>

\* The press is debounced: transmitter_run().
tickShoot ==
  /\ trigCount + 1 = DEBOUNCE_TIME
  /\ goto("press_st", "waitRelease_st")
  /\ trigCount' = DEBOUNCE_TIME
  /\ txEnable' = TRUE
  /\ UNCHANGED <<trigEnable, ignoreGunInput>>

tickReleased ==
  /\ ~triggerPressed
  /\ goto("waitRelease_st", "release_st")
  /\ trigCount' = 0
  /\ UNCHANGED <<trigEnable, ignoreGunInput, txEnable>>

\* The release is debounced: the machine waits to be enabled again.
tickDone ==
  /\ trigCount + 1 = DEBOUNCE_TIME
  /\ goto("release_st", "init_st")
  /\ trigCount' = DEBOUNCE_TIME
  /\ trigEnable' = FALSE
  /\ UNCHANGED <<ignoreGunInput, txEnable>>

trigger_tick == tickWait \/ tickListen \/ tickPressed \/ tickDebounce
                \/ tickShoot \/ tickReleased \/ tickDone

TypeOK ==
  /\ triggerState \in {"init_st", "waitPress_st", "press_st", "waitRelease_st",
                       "release_st"}
  /\ trigEnable \in BOOLEAN
  /\ trigCount \in 0 .. DEBOUNCE_TIME
  /\ ignoreGunInput \in BOOLEAN
=============================================================================

---------------------------- MODULE LockoutTimer ----------------------------
(***************************************************************************)
(* lockoutTimer.c: the timer that keeps detector() from looking for hits   *)
(* right after a hit.  lockoutTimer_start() is called by the main program, *)
(* lockoutTimer_tick() by isr_function().                                  *)
(***************************************************************************)
EXTENDS Naturals

CONSTANT LOCKOUT_TIME  \* 50000 ticks in the code

VARIABLES lockoutState, lockoutEnable, lockoutCount

vars == <<lockoutState, lockoutEnable, lockoutCount>>

Init == lockoutState = "init_st" /\ lockoutEnable = FALSE /\ lockoutCount = 0

lockoutTimer_start ==
  lockoutEnable' = TRUE /\ UNCHANGED <<lockoutState, lockoutCount>>

lockoutTimer_running == lockoutEnable

\* lockoutTimer_tick, one definition for each way through its two switches.
tickIdle == lockoutState = "init_st" /\ ~lockoutEnable /\ UNCHANGED vars

\* A slip: the count of the last run is kept.
tickStartKeepingCount ==
  /\ lockoutState = "init_st" /\ lockoutEnable
  /\ lockoutState' = "run_st"
  /\ UNCHANGED <<lockoutEnable, lockoutCount>>

tickStart ==
  /\ lockoutState = "init_st" /\ lockoutEnable
  /\ lockoutState' = "run_st"
  /\ lockoutCount' = 0
  /\ UNCHANGED lockoutEnable

tickRun ==
  /\ lockoutState = "run_st" /\ lockoutCount + 1 # LOCKOUT_TIME
  /\ lockoutCount' = lockoutCount + 1
  /\ UNCHANGED <<lockoutState, lockoutEnable>>

tickEnd ==
  /\ lockoutState = "run_st" /\ lockoutCount + 1 = LOCKOUT_TIME
  /\ lockoutCount' = LOCKOUT_TIME
  /\ lockoutState' = "init_st"
  /\ lockoutEnable' = FALSE

lockoutTimer_tick == tickIdle \/ tickStart \/ tickRun \/ tickEnd

-----------------------------------------------------------------------------
TypeOK ==
  /\ lockoutState \in {"init_st", "run_st"}
  /\ lockoutEnable \in BOOLEAN
  /\ lockoutCount \in 0 .. LOCKOUT_TIME

\* A running timer is always seen as running and has ticks left.
RunsEnabled ==
  lockoutState = "run_st" => lockoutEnable /\ lockoutCount < LOCKOUT_TIME

remaining == IF ~lockoutEnable THEN 0
             ELSE IF lockoutState = "init_st" THEN LOCKOUT_TIME + 1
             ELSE LOCKOUT_TIME - lockoutCount

Timer == INSTANCE OneShotTimer WITH Duration <- LOCKOUT_TIME,
                                    output <- lockoutState = "run_st"

\* The two flags and the counter together are one countdown of LOCKOUT_TIME.
ImplementsTimer == Timer!Spec
=============================================================================

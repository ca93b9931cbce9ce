---------------------------- MODULE MC_ShotPath ----------------------------
(* A pulse of 8 ticks with half periods of 2 and 3; two ticks debounce the  *)
(* trigger, so it is back in init_st before the pulse is over or after it,  *)
(* depending on how long the trigger is held.  Switch value 2 is behind the *)
(* array freq.                                                              *)
EXTENDS ShotPath

MCfreq == [f \in 0 .. 1 |-> IF f = 0 THEN 3 ELSE 2]
MCclients == {"shooterMode", "continuousPowerMode", "trigger_runTest",
              "transmitter_runTest"}
=============================================================================

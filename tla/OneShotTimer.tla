---------------------------- MODULE OneShotTimer ----------------------------
(***************************************************************************)
(* What a software timer driven by the ISR promises: once started it runs  *)
(* for Duration ticks, the first of them being the tick that notices the   *)
(* start, and starting a running timer changes nothing.                    *)
(***************************************************************************)
EXTENDS Naturals

CONSTANT Duration

VARIABLES remaining,  \* ticks until the timer stops; 0 when it is stopped
          output      \* what the timer drives while it runs

vars == <<remaining, output>>

Init == remaining = 0 /\ output = FALSE

Start ==
  /\ remaining' = IF remaining = 0 THEN Duration + 1 ELSE remaining
  /\ UNCHANGED output

Tick ==
  /\ remaining' = IF remaining = 0 THEN 0 ELSE remaining - 1
  /\ output' = (remaining' # 0)

Next == Start \/ Tick

Spec == Init /\ [][Next]_vars
=============================================================================

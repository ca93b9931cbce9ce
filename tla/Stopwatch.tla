------------------------------ MODULE Stopwatch ------------------------------
(* What the users of an interval timer expect of it.                        *)
EXTENDS Naturals

VARIABLES time, on

Init == time \in Nat /\ on \in BOOLEAN

start == on' = TRUE /\ UNCHANGED time
stop == on' = FALSE /\ UNCHANGED time
reset == time' = 0 /\ on' = FALSE
tick == on /\ time' = time + 1 /\ UNCHANGED on

Spec == Init /\ [][start \/ stop \/ reset \/ tick]_<<time, on>>
=============================================================================

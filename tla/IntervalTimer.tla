---------------------------- MODULE IntervalTimer ----------------------------
(***************************************************************************)
(* The 64-bit interval timers of intervalTimer.c: two counter registers    *)
(* with a carry between them (TCR1 above TCR0), and the control register   *)
(* TCSR0, of which the bits UDT0 (count down) and ENT0 (count) are kept;   *)
(* every command sets CASC.  The hardware counts between any two accesses, *)
(* so that intervalTimer_get64BitCounterValue() is one action a register.  *)
(***************************************************************************)
EXTENDS Naturals

CONSTANTS COUNTER_SIZE,                    \* 2^32 values of one register
          INTERVAL_TIMER_MAX_TIMER_INDEX   \* 2 in the code

ASSUME IntervalTimerAssumption ==
  /\ COUNTER_SIZE \in Nat \ {0}
  /\ INTERVAL_TIMER_MAX_TIMER_INDEX \in Nat

VARIABLES counter,   \* TCR1 and TCR0 of each timer
          tcsr0,
          readPc,    \* the next register get64BitCounterValue() reads
          reading,   \* the timer it reads
          value,     \* upperCounterValue and lowerCounterValue
          before     \* the counter when it was called; no program variable

timerVars == <<counter, tcsr0, readPc, reading, value, before>>

Timer == 0 .. INTERVAL_TIMER_MAX_TIMER_INDEX
Register == 0 .. COUNTER_SIZE - 1
Counter == [upper : Register, lower : Register]
Zero == [upper |-> 0, lower |-> 0]

\* Whatever an earlier program left in the timers.
TimersInit ==
  /\ counter \in [Timer -> Counter]
  /\ tcsr0 \in [Timer -> {{}, {"ENT0"}, {"UDT0"}}]
  /\ readPc = "none" /\ reading = 0 /\ value = Zero /\ before = Zero

timersIdle == UNCHANGED <<readPc, reading, value, before>>

\* A slip: the carry comes one count late.
upCarryLate(c) ==
  IF c.lower = COUNTER_SIZE THEN [upper |-> c.upper + 1, lower |-> 0]
  ELSE [c EXCEPT !.lower = @ + 1]

up(c) ==
  IF c.lower = COUNTER_SIZE - 1 THEN [upper |-> c.upper + 1, lower |-> 0]
  ELSE [c EXCEPT !.lower = @ + 1]

down(c) ==
  IF c.lower > 0 THEN [c EXCEPT !.lower = @ - 1]
  ELSE [upper |-> IF c.upper > 0 THEN c.upper - 1 ELSE COUNTER_SIZE - 1,
        lower |-> COUNTER_SIZE - 1]

running(t) == "ENT0" \in tcsr0[t]

\* BOUND: the run ends before a 64-bit counter does.
mayCount(t) ==
  running(t) /\ "UDT0" \notin tcsr0[t] =>
    counter[t] # [upper |-> COUNTER_SIZE - 1, lower |-> COUNTER_SIZE - 1]

\* The timers run from one clock.
clock ==
  /\ \A t \in Timer : mayCount(t)
  /\ counter' = [t \in Timer |-> IF ~running(t) THEN counter[t]
                                 ELSE IF "UDT0" \in tcsr0[t] THEN down(counter[t])
                                 ELSE up(counter[t])]
  /\ UNCHANGED tcsr0
  /\ timersIdle

\* A slip: ENT0 is added to the bits that are there.
startAddsBit(t) ==
  /\ tcsr0' = [tcsr0 EXCEPT ![t] = @ \union {"ENT0"}]
  /\ UNCHANGED counter
  /\ timersIdle

intervalTimer_start(t) ==
  /\ tcsr0' = [tcsr0 EXCEPT ![t] = {"ENT0"}]
  /\ UNCHANGED counter
  /\ timersIdle

intervalTimer_stop(t) ==
  /\ tcsr0' = [tcsr0 EXCEPT ![t] = {}]
  /\ UNCHANGED counter
  /\ timersIdle

\* Stops the timer, loads 0 into both registers and runs intervalTimer_init().
intervalTimer_reset(t) ==
  /\ counter' = [counter EXCEPT ![t] = Zero]
  /\ tcsr0' = [tcsr0 EXCEPT ![t] = {"UDT0"}]
  /\ timersIdle

\* intervalTimer_init() of each timer but the last.
intervalTimer_initAll ==
  /\ tcsr0' = [t \in Timer |-> IF t < INTERVAL_TIMER_MAX_TIMER_INDEX
                               THEN {"UDT0"} ELSE tcsr0[t]]
  /\ UNCHANGED counter
  /\ timersIdle
-----------------------------------------------------------------------------
(* intervalTimer_get64BitCounterValue().                                    *)

readUpper(t) ==
  /\ readPc = "none" /\ readPc' = "lower"
  /\ reading' = t
  /\ before' = counter[t]
  /\ value' = [value EXCEPT !.upper = counter[t].upper]
  /\ UNCHANGED <<counter, tcsr0>>

readLower ==
  /\ readPc = "lower" /\ readPc' = "second"
  /\ value' = [value EXCEPT !.lower = counter[reading].lower]
  /\ UNCHANGED <<counter, tcsr0, reading, before>>

\* A slip: the new upper half is taken together with the old lower half.
secondUpperOnly ==
  /\ readPc = "second" /\ readPc' = "none"
  /\ value' = [value EXCEPT !.upper = counter[reading].upper]
  /\ UNCHANGED <<counter, tcsr0, reading, before>>

readSecondUpper ==
  /\ readPc = "second"
  /\ readPc' = IF value.upper # counter[reading].upper THEN "lowerAgain" ELSE "none"
  /\ value' = [value EXCEPT !.upper = counter[reading].upper]
  /\ UNCHANGED <<counter, tcsr0, reading, before>>

readLowerAgain ==
  /\ readPc = "lowerAgain" /\ readPc' = "none"
  /\ value' = [value EXCEPT !.lower = counter[reading].lower]
  /\ UNCHANGED <<counter, tcsr0, reading, before>>

readOn == readLower \/ readSecondUpper \/ readLowerAgain

\* Nobody sets a timer back while it is read.
TimersNext ==
  \/ clock \/ readOn
  \/ \E t \in Timer : intervalTimer_start(t) \/ intervalTimer_stop(t) \/ readUpper(t)
  \/ \E t \in Timer : readPc = "none" /\ intervalTimer_reset(t)
  \/ intervalTimer_initAll

TimersSpec == TimersInit /\ [][TimersNext]_timerVars
-----------------------------------------------------------------------------
\* The types of the timers' variables.  No timer ever counts down.
TimersTypeOK ==
  /\ counter \in [Timer -> Counter]
  /\ tcsr0 \in [Timer -> {{}, {"ENT0"}, {"UDT0"}}]
  /\ readPc \in {"none", "lower", "second", "lowerAgain"}
  /\ reading \in Timer
  /\ value \in Counter /\ before \in Counter

atMost(c, d) == c.upper < d.upper \/ (c.upper = d.upper /\ c.lower <= d.lower)

\* A counter that is read while it runs gives a value it had between the call
\* and the return: never an upper half from before a carry with a lower half
\* from after it, or the reverse. (intervalTimer.c:182-194)
ReadIsCoherent ==
  [][readPc # "none" /\ readPc' = "none" =>
       atMost(before, value') /\ atMost(value', counter[reading])]_timerVars

elapsed(t) == counter[t].upper * COUNTER_SIZE + counter[t].lower
=============================================================================

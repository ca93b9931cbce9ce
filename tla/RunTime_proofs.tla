---------------------------- MODULE RunTime_proofs ----------------------------
(***************************************************************************)
(* Theorems about main(), the timer interrupt and the statistics, for      *)
(* registers of every size, every heart beat period and any number of      *)
(* interrupts.  The set-up calls come in the order of a list, so that the  *)
(* invariants speak of the place of a call in it.  First comes the read of *)
(* a running 64-bit counter through its two registers, for registers of    *)
(* every size: the invariant says, for each place between the reads, how   *)
(* the halves that have been read relate to the counter by then.           *)
(***************************************************************************)
EXTENDS RunTime, TLAPS

\* What get64BitCounterValue() knows about counter c between its reads.
ReadInv ==
  LET c == counter[reading] IN
  /\ readPc = "lower" => value.upper = before.upper /\ atMost(before, c)
  /\ readPc = "second" =>
       /\ value.upper = before.upper /\ value.upper <= c.upper
       /\ c.upper = value.upper => before.lower <= value.lower /\ value.lower <= c.lower
  /\ readPc = "lowerAgain" => before.upper < value.upper /\ value.upper <= c.upper

Inv == TimersTypeOK /\ ReadInv

\* A clock pulse takes a counter that has not reached its end to a later value.
LEMMA UpIsLater ==
  ASSUME NEW c \in Counter,
         c # [upper |-> COUNTER_SIZE - 1, lower |-> COUNTER_SIZE - 1]
  PROVE up(c) \in Counter /\ atMost(c, up(c))
<1>1. /\ c.upper \in 0 .. COUNTER_SIZE - 1 /\ c.lower \in 0 .. COUNTER_SIZE - 1
      /\ c = [upper |-> c.upper, lower |-> c.lower]
      /\ COUNTER_SIZE \in Nat \ {0}
  BY IntervalTimerAssumption DEF Counter, Register
<1>2. CASE c.lower = COUNTER_SIZE - 1
  <2>1. c.upper # COUNTER_SIZE - 1
    BY <1>1, <1>2
  <2>2. up(c) = [upper |-> c.upper + 1, lower |-> 0]
    BY <1>2 DEF up
  <2>3. QED BY <1>1, <2>1, <2>2 DEF atMost, Counter, Register
<1>3. CASE c.lower # COUNTER_SIZE - 1
  <2>1. up(c) = [upper |-> c.upper, lower |-> c.lower + 1]
    BY <1>1, <1>3 DEF up, Counter
  <2>2. QED BY <1>1, <1>3, <2>1 DEF atMost, Counter, Register
<1>4. QED BY <1>2, <1>3

LEMMA ZeroIsCounter == Zero \in Counter /\ 0 \in Timer
BY IntervalTimerAssumption DEF Zero, Counter, Register, Timer

LEMMA InitInv == TimersInit => Inv
BY ZeroIsCounter DEF TimersInit, Inv, TimersTypeOK, ReadInv

\* No step sets back the counter that is being read.
LEMMA CounterGrows ==
  ASSUME TimersTypeOK, TimersNext, NEW t \in Timer
  PROVE readPc # "none" => atMost(counter[t], counter'[t])
<1>1. counter[t] \in Counter /\ atMost(counter[t], counter[t])
  BY DEF TimersTypeOK, atMost, Counter, Register
<1>2. CASE clock
  <2>1. CASE ~running(t)
    BY <1>1, <1>2, <2>1 DEF clock
  <2>2. CASE running(t)
    <3>1. "UDT0" \notin tcsr0[t]
      BY <2>2 DEF running, TimersTypeOK
    <3>2. counter'[t] = up(counter[t]) /\ mayCount(t)
      BY <1>2, <2>2, <3>1 DEF clock
    <3>3. QED BY <1>1, <2>2, <3>1, <3>2, UpIsLater DEF mayCount
  <2>3. QED BY <2>1, <2>2
<1>3. CASE UNCHANGED counter
  BY <1>1, <1>3
<1>4. CASE \E s \in Timer : readPc = "none" /\ intervalTimer_reset(s)
  BY <1>4
<1>5. QED
  BY <1>2, <1>3, <1>4
  DEF TimersNext, readOn, readLower, readSecondUpper, readLowerAgain, readUpper,
      intervalTimer_start, intervalTimer_stop, intervalTimer_initAll

LEMMA TypeStep == TimersTypeOK /\ [TimersNext]_timerVars => TimersTypeOK'
<1> SUFFICES ASSUME TimersTypeOK, [TimersNext]_timerVars PROVE TimersTypeOK'
  OBVIOUS
<1>1. CASE clock
  <2>1. ASSUME NEW t \in Timer
        PROVE (IF ~running(t) THEN counter[t]
               ELSE IF "UDT0" \in tcsr0[t] THEN down(counter[t])
               ELSE up(counter[t])) \in Counter
    <3>1. counter[t] \in Counter
      BY DEF TimersTypeOK
    <3>2. running(t) => "UDT0" \notin tcsr0[t]
      BY DEF running, TimersTypeOK
    <3>3. running(t) => up(counter[t]) \in Counter
      BY <1>1, <3>1, <3>2, UpIsLater DEF clock, mayCount
    <3>4. QED BY <3>1, <3>2, <3>3
  <2>2. counter' \in [Timer -> Counter]
    BY <1>1, <2>1 DEF clock
  <2>3. QED BY <1>1, <2>2 DEF clock, timersIdle, TimersTypeOK
<1>2. ASSUME NEW t \in Timer, intervalTimer_start(t) \/ intervalTimer_stop(t)
      PROVE TimersTypeOK'
  BY <1>2 DEF intervalTimer_start, intervalTimer_stop, timersIdle, TimersTypeOK
<1>3. ASSUME NEW t \in Timer, intervalTimer_reset(t)
      PROVE TimersTypeOK'
  BY <1>3, ZeroIsCounter DEF intervalTimer_reset, timersIdle, TimersTypeOK
<1>4. CASE intervalTimer_initAll
  BY <1>4 DEF intervalTimer_initAll, timersIdle, TimersTypeOK
<1>5. ASSUME NEW t \in Timer, readUpper(t) PROVE TimersTypeOK'
  BY <1>5 DEF readUpper, TimersTypeOK, Counter
<1>6. CASE readOn
  BY <1>6 DEF readOn, readLower, readSecondUpper, readLowerAgain, TimersTypeOK, Counter
<1>7. CASE UNCHANGED timerVars
  BY <1>7 DEF timerVars, TimersTypeOK
<1>8. QED BY <1>1, <1>2, <1>3, <1>4, <1>5, <1>6, <1>7 DEF TimersNext

\* What a reader of the counter relies on survives any other step.
LEMMA Waiting ==
  ASSUME Inv, TimersTypeOK', TimersNext, timersIdle
  PROVE ReadInv'
<1> DEFINE c == counter[reading]
           d == counter'[reading]
<1>1. /\ c \in Counter /\ d \in Counter /\ value \in Counter /\ before \in Counter
      /\ reading \in Timer
      /\ readPc' = readPc /\ reading' = reading /\ value' = value /\ before' = before
  BY DEF Inv, TimersTypeOK, timersIdle
<1>2. /\ c.upper \in Nat /\ c.lower \in Nat /\ d.upper \in Nat /\ d.lower \in Nat
      /\ value.upper \in Nat /\ value.lower \in Nat
      /\ before.upper \in Nat /\ before.lower \in Nat
  BY <1>1, IntervalTimerAssumption DEF Counter, Register
<1>3. readPc # "none" => atMost(c, d)
  BY <1>1, CounterGrows DEF Inv
<1> HIDE DEF c, d
<1>4. ASSUME readPc = "lower"
      PROVE value.upper = before.upper /\ atMost(before, d)
  <2>1. value.upper = before.upper /\ atMost(before, c) /\ atMost(c, d)
    BY <1>3, <1>4 DEF Inv, ReadInv, c
  <2>2. QED BY <1>2, <2>1 DEF atMost
<1>5. ASSUME readPc = "second"
      PROVE /\ value.upper = before.upper /\ value.upper <= d.upper
            /\ d.upper = value.upper =>
                 before.lower <= value.lower /\ value.lower <= d.lower
  <2>1. /\ value.upper = before.upper /\ value.upper <= c.upper
        /\ c.upper = value.upper =>
             before.lower <= value.lower /\ value.lower <= c.lower
        /\ atMost(c, d)
    BY <1>3, <1>5 DEF Inv, ReadInv, c
  <2>2. QED BY <1>2, <2>1 DEF atMost
<1>6. ASSUME readPc = "lowerAgain"
      PROVE before.upper < value.upper /\ value.upper <= d.upper
  <2>1. before.upper < value.upper /\ value.upper <= c.upper /\ atMost(c, d)
    BY <1>3, <1>6 DEF Inv, ReadInv, c
  <2>2. QED BY <1>2, <2>1 DEF atMost
<1>7. counter[reading]' = d
  BY <1>1 DEF d
<1>8. QED BY <1>1, <1>4, <1>5, <1>6, <1>7 DEF ReadInv, atMost

\* A read of a register leads from one place of the protocol to the next.
LEMMA Reading ==
  ASSUME Inv, (\E t \in Timer : readUpper(t)) \/ readOn
  PROVE ReadInv'
<1> DEFINE c == counter[reading]
<1>1. /\ c \in Counter /\ value \in Counter /\ before \in Counter /\ reading \in Timer
  BY DEF Inv, TimersTypeOK
<1>2. /\ c.upper \in Nat /\ c.lower \in Nat
      /\ value.upper \in Nat /\ value.lower \in Nat
      /\ before.upper \in Nat /\ before.lower \in Nat
  BY <1>1, IntervalTimerAssumption DEF Counter, Register
<1>3. ASSUME NEW t \in Timer, readUpper(t) PROVE ReadInv'
  <2>1. /\ counter[t] \in Counter /\ value \in Counter
        /\ readPc' = "lower" /\ reading' = t /\ before' = counter[t]
        /\ value' = [value EXCEPT !.upper = counter[t].upper] /\ counter' = counter
    BY <1>3 DEF Inv, TimersTypeOK, readUpper
  <2>2. value'.upper = before'.upper /\ counter'[reading'] = before'
    BY <2>1 DEF Counter
  <2>3. atMost(before', before')
    BY <2>1, IntervalTimerAssumption DEF atMost, Counter, Register
  <2>4. QED BY <2>1, <2>2, <2>3 DEF ReadInv, atMost
<1>4. CASE readLower
  <2>1. /\ readPc = "lower" /\ readPc' = "second"
        /\ value' = [upper |-> value.upper, lower |-> c.lower]
        /\ UNCHANGED <<counter, reading, before>>
    BY <1>1, <1>4 DEF readLower, Counter
  <2>2. value.upper = before.upper /\ atMost(before, c)
    BY <2>1 DEF Inv, ReadInv
  <2>3. /\ value'.upper = before.upper /\ value'.upper <= c.upper
        /\ c.upper = value'.upper =>
             before.lower <= value'.lower /\ value'.lower <= c.lower
    BY <1>2, <2>1, <2>2 DEF atMost
  <2>4. QED BY <2>1, <2>3 DEF ReadInv
<1>5. CASE readSecondUpper
  <2>1. /\ readPc = "second"
        /\ readPc' = IF value.upper # c.upper THEN "lowerAgain" ELSE "none"
        /\ value' = [upper |-> c.upper, lower |-> value.lower]
        /\ UNCHANGED <<counter, reading, before>>
    BY <1>1, <1>5 DEF readSecondUpper, Counter
  <2>2. value.upper = before.upper /\ value.upper <= c.upper
    BY <2>1 DEF Inv, ReadInv
  <2>3. readPc' = "lowerAgain" => before.upper < value'.upper /\ value'.upper <= c.upper
    BY <1>2, <2>1, <2>2
  <2>4. readPc' # "lower" /\ readPc' # "second"
    BY <2>1
  <2>5. QED BY <2>1, <2>3, <2>4 DEF ReadInv
<1>6. CASE readLowerAgain
  BY <1>6 DEF readLowerAgain, ReadInv
<1>7. QED BY <1>3, <1>4, <1>5, <1>6 DEF readOn

LEMMA NextInv == Inv /\ [TimersNext]_timerVars => Inv'
<1> SUFFICES ASSUME Inv, [TimersNext]_timerVars PROVE Inv'
  OBVIOUS
<1>1. TimersTypeOK'
  BY TypeStep DEF Inv
<1>2. CASE TimersNext /\ timersIdle
  BY <1>1, <1>2, Waiting DEF Inv
<1>3. CASE (\E t \in Timer : readUpper(t)) \/ readOn
  BY <1>1, <1>3, Reading DEF Inv
<1>4. CASE UNCHANGED timerVars
  BY <1>1, <1>4 DEF Inv, ReadInv, timerVars, atMost
<1>5. TimersNext => timersIdle \/ (\E t \in Timer : readUpper(t)) \/ readOn
  BY DEF TimersNext, clock, intervalTimer_start, intervalTimer_stop,
         intervalTimer_reset, intervalTimer_initAll
<1>6. QED BY <1>2, <1>3, <1>4, <1>5

\* A step that ends a call returns a value the counter had during the call.
LEMMA ReturnIsCoherent ==
  ASSUME Inv, TimersNext, readPc # "none", readPc' = "none"
  PROVE atMost(before, value') /\ atMost(value', counter[reading])
<1> DEFINE c == counter[reading]
<1>1. /\ c \in Counter /\ value \in Counter /\ before \in Counter
  BY DEF Inv, TimersTypeOK
<1>2. /\ c.upper \in Nat /\ c.lower \in Nat
      /\ value.upper \in Nat /\ value.lower \in Nat
      /\ before.upper \in Nat /\ before.lower \in Nat
  BY <1>1, IntervalTimerAssumption DEF Counter, Register
<1>3. CASE readSecondUpper
  <2>1. /\ readPc = "second" /\ value.upper = c.upper
        /\ value' = [upper |-> c.upper, lower |-> value.lower]
    BY <1>1, <1>3 DEF readSecondUpper, Counter
  <2>2. /\ value.upper = before.upper
        /\ before.lower <= value.lower /\ value.lower <= c.lower
    BY <2>1 DEF Inv, ReadInv
  <2>3. value'.upper = c.upper /\ value'.lower = value.lower
    BY <2>1
  <2>4. QED BY <1>2, <2>1, <2>2, <2>3 DEF atMost
<1>4. CASE readLowerAgain
  <2>1. /\ readPc = "lowerAgain"
        /\ value' = [upper |-> value.upper, lower |-> c.lower]
    BY <1>1, <1>4 DEF readLowerAgain, Counter
  <2>2. before.upper < value.upper /\ value.upper <= c.upper
    BY <2>1 DEF Inv, ReadInv
  <2>3. value'.upper = value.upper /\ value'.lower = c.lower
    BY <2>1
  <2>4. QED BY <1>2, <2>2, <2>3 DEF atMost
<1>5. ~timersIdle /\ ~readLower /\ ~(\E t \in Timer : readUpper(t))
  BY DEF timersIdle, readLower, readUpper
<1>6. readSecondUpper \/ readLowerAgain
  BY <1>5 DEF TimersNext, readOn, clock, intervalTimer_start, intervalTimer_stop,
              intervalTimer_reset, intervalTimer_initAll
<1>7. QED BY <1>3, <1>4, <1>6

\* intervalTimer.c:182-194: whatever the size of the registers and however many
\* clock pulses come between the reads, the value read is one the counter had
\* between the call and the return.
THEOREM CoherentRead == TimersSpec => []TimersTypeOK /\ ReadIsCoherent
<1>1. Inv /\ [TimersNext]_timerVars =>
        [readPc # "none" /\ readPc' = "none" =>
           atMost(before, value') /\ atMost(value', counter[reading])]_timerVars
  BY ReturnIsCoherent
<1>2. Inv => TimersTypeOK
  BY DEF Inv
<1>3. QED BY <1>1, <1>2, InitInv, NextInv, PTL DEF TimersSpec, ReadIsCoherent
-----------------------------------------------------------------------------
Mode == {"shooter", "continuousPower"}
Printing == {"print1", "print0", "print2"}
MainPc == {"setUp", "poll", "clear", "work", "done"} \union Printing

\* The place of reset0; reset1, reset2, start1 and enableArmInts follow it.
FirstReset(m) == IF m = "shooter" THEN 13 ELSE 9

LEMMA ShooterCalls ==
  ASSUME NEW k \in 1 .. 18
  PROVE /\ Len(shooterMode) = 18
        /\ shooterMode[k] = "intervalTimer_initAll" <=> k = 1
        /\ shooterMode[k] = "reset0" <=> k = 13
        /\ shooterMode[k] = "reset1" <=> k = 14
        /\ shooterMode[k] = "reset2" <=> k = 15
        /\ shooterMode[k] = "start1" <=> k = 16
        /\ shooterMode[k] = "enableArmInts" <=> k = 17
BY DEF shooterMode

LEMMA ContinuousPowerCalls ==
  ASSUME NEW k \in 1 .. 13
  PROVE /\ Len(continuousPowerMode) = 13
        /\ continuousPowerMode[k] = "intervalTimer_initAll" <=> k = 1
        /\ continuousPowerMode[k] = "reset0" <=> k = 9
        /\ continuousPowerMode[k] = "reset1" <=> k = 10
        /\ continuousPowerMode[k] = "reset2" <=> k = 11
        /\ continuousPowerMode[k] = "start1" <=> k = 12
        /\ continuousPowerMode[k] = "enableArmInts" <=> k = 13
BY DEF continuousPowerMode

\* How long the lists are, and where in them the calls are that matter here.
LEMMA Calls ==
  ASSUME NEW m \in Mode
  PROVE /\ Len(SetUp(m)) \in Nat /\ Len(SetUp(m)) >= FirstReset(m) + 4
        /\ FirstReset(m) \in Nat /\ FirstReset(m) > 8
        /\ \A k \in 1 .. Len(SetUp(m)) :
             /\ SetUp(m)[k] = "intervalTimer_initAll" <=> k = 1
             /\ SetUp(m)[k] = "reset0" <=> k = FirstReset(m)
             /\ SetUp(m)[k] = "reset1" <=> k = FirstReset(m) + 1
             /\ SetUp(m)[k] = "reset2" <=> k = FirstReset(m) + 2
             /\ SetUp(m)[k] = "start1" <=> k = FirstReset(m) + 3
             /\ SetUp(m)[k] = "enableArmInts" <=> k = FirstReset(m) + 4
<1>1. CASE m = "shooter"
  <2>1. SetUp(m) = shooterMode /\ FirstReset(m) = 13
    BY <1>1 DEF SetUp, calls, FirstReset
  <2>2. Len(shooterMode) = 18
    BY DEF shooterMode
  <2>3. QED BY <2>1, <2>2, ShooterCalls
<1>2. CASE m = "continuousPower"
  <2>1. SetUp(m) = continuousPowerMode /\ FirstReset(m) = 9
    BY <1>2 DEF SetUp, calls, FirstReset
  <2>2. Len(continuousPowerMode) = 13
    BY DEF continuousPowerMode
  <2>3. QED BY <2>1, <2>2, ContinuousPowerCalls
<1>3. QED BY <1>1, <1>2 DEF Mode

LEMMA Timers ==
  /\ Timer = {0, 1, 2} /\ ISR_CUMULATIVE_TIMER = 0 /\ TOTAL_RUNTIME_TIMER = 1
  /\ MAIN_CUMULATIVE_TIMER = 2 /\ INTERVAL_TIMER_MAX_TIMER_INDEX = 2
BY RunTimeAssumption
   DEF Timer, ISR_CUMULATIVE_TIMER, TOTAL_RUNTIME_TIMER, MAIN_CUMULATIVE_TIMER
-----------------------------------------------------------------------------
(* The order of main()'s steps.                                             *)

OrderInv ==
  /\ mode \in Mode /\ mainPc \in MainPc
  /\ setUpDone \in 0 .. Len(SetUp(mode))
  /\ mainPc = "setUp" <=> setUpDone < Len(SetUp(mode))
  /\ armIntsEnabled \in BOOLEAN /\ inIsr \in BOOLEAN
  /\ armIntsEnabled \/ inIsr => setUpDone >= FirstReset(mode) + 4
  /\ readPc # "none" => mainPc \in Printing
  /\ mainPc \in Printing \union {"done"} => ~armIntsEnabled /\ ~inIsr

LEMMA InitOrder == Init => OrderInv
<1> SUFFICES ASSUME Init PROVE OrderInv
  OBVIOUS
<1>1. /\ mode \in Mode /\ mainPc = "setUp" /\ setUpDone = 0
      /\ armIntsEnabled = FALSE /\ inIsr = FALSE /\ readPc = "none"
  BY DEF Init, TimersInit, Mode
<1>2. Len(SetUp(mode)) \in Nat /\ Len(SetUp(mode)) > 0
  BY <1>1, Calls
<1>3. setUpDone \in 0 .. Len(SetUp(mode)) /\ setUpDone < Len(SetUp(mode))
  BY <1>1, <1>2
<1>4. mainPc \in MainPc /\ mainPc \notin Printing \union {"done"}
  BY <1>1 DEF MainPc, Printing
<1>5. mainPc = "setUp" <=> setUpDone < Len(SetUp(mode))
  BY <1>1, <1>3
<1>6. QED BY <1>1, <1>3, <1>4, <1>5 DEF OrderInv

\* The call setUp makes, and what it does to the timers.
LEMMA SetUpStep ==
  ASSUME OrderInv, setUp
  PROVE /\ mainPc = "setUp" /\ ~inIsr /\ readPc = "none"
        /\ setUpDone' = setUpDone + 1 /\ setUpDone' \in 1 .. Len(SetUp(mode))
        /\ mainPc' = IF setUpDone' = Len(SetUp(mode)) THEN "poll" ELSE "setUp"
        /\ armIntsEnabled' =
             (armIntsEnabled \/ setUpDone' = FirstReset(mode) + 4)
        /\ \/ setUpDone' = 1 /\ intervalTimer_initAll
           \/ setUpDone' = FirstReset(mode) /\ intervalTimer_reset(0)
           \/ setUpDone' = FirstReset(mode) + 1 /\ intervalTimer_reset(1)
           \/ setUpDone' = FirstReset(mode) + 2 /\ intervalTimer_reset(2)
           \/ setUpDone' = FirstReset(mode) + 3 /\ intervalTimer_start(1)
           \/ /\ setUpDone' \notin FirstReset(mode) .. FirstReset(mode) + 3
              /\ UNCHANGED timerVars
        /\ UNCHANGED <<mode, pending, isrVars, isrFlagGlobal, countInterrupts, shown>>
<1> DEFINE n == setUpDone + 1
           call == SetUp(mode)[n]
<1>1. mode \in Mode /\ setUpDone \in Nat /\ mainPc = "setUp" /\ ~inIsr /\ readPc = "none"
  BY DEF OrderInv, setUp, at, Printing
<1>2. n \in 1 .. Len(SetUp(mode)) /\ FirstReset(mode) \in Nat /\ FirstReset(mode) > 8
  BY <1>1, Calls DEF OrderInv
<1>3. /\ call = "intervalTimer_initAll" <=> n = 1
      /\ call = "reset0" <=> n = FirstReset(mode)
      /\ call = "reset1" <=> n = FirstReset(mode) + 1
      /\ call = "reset2" <=> n = FirstReset(mode) + 2
      /\ call = "start1" <=> n = FirstReset(mode) + 3
      /\ call = "enableArmInts" <=> n = FirstReset(mode) + 4
  BY <1>1, <1>2, Calls
<1>4. /\ setUpDone' = n
      /\ mainPc' = IF n = Len(SetUp(mode)) THEN "poll" ELSE "setUp"
      /\ armIntsEnabled' = (armIntsEnabled \/ call = "enableArmInts")
      /\ UNCHANGED <<mode, pending, isrVars, isrFlagGlobal, countInterrupts, shown>>
  BY DEF setUp, at
<1>5. CASE call \in {"intervalTimer_initAll", "reset0", "reset1", "reset2", "start1"}
  <2>1. CASE call = "intervalTimer_initAll"
    BY <1>1, <1>2, <1>3, <1>4, <2>1 DEF setUp
  <2>2. CASE call = "reset0"
    <3>1. n = FirstReset(mode) /\ intervalTimer_reset(0)
      BY <1>3, <2>2, Timers DEF setUp
    <3>2. QED BY <1>1, <1>2, <1>3, <1>4, <3>1
  <2>3. CASE call = "reset1"
    <3>1. n = FirstReset(mode) + 1 /\ intervalTimer_reset(1)
      BY <1>3, <2>3, Timers DEF setUp
    <3>2. QED BY <1>1, <1>2, <1>3, <1>4, <3>1
  <2>4. CASE call = "reset2"
    <3>1. n = FirstReset(mode) + 2 /\ intervalTimer_reset(2)
      BY <1>3, <2>4, Timers DEF setUp
    <3>2. QED BY <1>1, <1>2, <1>3, <1>4, <3>1
  <2>5. CASE call = "start1"
    <3>1. n = FirstReset(mode) + 3 /\ intervalTimer_start(1)
      BY <1>3, <2>5, Timers DEF setUp
    <3>2. QED BY <1>1, <1>2, <1>3, <1>4, <3>1
  <2>6. QED BY <1>5, <2>1, <2>2, <2>3, <2>4, <2>5
<1>6. CASE call \notin {"intervalTimer_initAll", "reset0", "reset1", "reset2", "start1"}
  <2>1. UNCHANGED timerVars
    BY <1>6 DEF setUp
  <2>2. n \notin FirstReset(mode) .. FirstReset(mode) + 3
    BY <1>2, <1>3, <1>6
  <2> HIDE DEF n
  <2>3. QED BY <1>1, <1>2, <1>3, <1>4, <2>1, <2>2 DEF n
<1>7. QED BY <1>5, <1>6

\* A step of the printing reads a register of the timer it has come to.
LEMMA PrintStep ==
  ASSUME printRunTimeStatistics
  PROVE /\ \E t \in Timer, next \in MainPc :
             /\ \/ mainPc = "print1" /\ t = 1 /\ next = "print0"
                \/ mainPc = "print0" /\ t = 0 /\ next = "print2"
                \/ mainPc = "print2" /\ t = 2 /\ next = "done"
             /\ readUpper(t) \/ readOn
             /\ IF readPc' = "none" THEN mainPc' = next /\ shown' = [shown EXCEPT ![t] = value']
                ELSE UNCHANGED <<mainPc, shown>>
        /\ mainPc \in Printing /\ mainPc' \in Printing \union {"done"}
        /\ readPc' # "none" => mainPc' = mainPc
        /\ UNCHANGED <<mode, setUpDone, pending, armIntsEnabled, isrVars, isrFlagGlobal,
                       countInterrupts, counter, tcsr0>>
<1>1. CASE print(TOTAL_RUNTIME_TIMER, "print1", "print0")
  BY <1>1, Timers
  DEF print, Printing, MainPc, readUpper, readOn, readLower, readSecondUpper, readLowerAgain
<1>2. CASE print(ISR_CUMULATIVE_TIMER, "print0", "print2")
  BY <1>2, Timers
  DEF print, Printing, MainPc, readUpper, readOn, readLower, readSecondUpper, readLowerAgain
<1>3. CASE print(MAIN_CUMULATIVE_TIMER, "print2", "done")
  BY <1>3, Timers
  DEF print, Printing, MainPc, readUpper, readOn, readLower, readSecondUpper, readLowerAgain
<1>4. QED BY <1>1, <1>2, <1>3 DEF printRunTimeStatistics

LEMMA NextOrder == OrderInv /\ [Next]_vars => OrderInv'
<1> SUFFICES ASSUME OrderInv, [Next]_vars PROVE OrderInv'
  OBVIOUS
<1>0. /\ mode \in Mode /\ Len(SetUp(mode)) \in Nat /\ FirstReset(mode) \in Nat
      /\ Len(SetUp(mode)) >= FirstReset(mode) + 4 /\ setUpDone \in Nat
  BY Calls DEF OrderInv
<1>1. CASE clockTick \/ privateTimerExpires
  BY <1>1 DEF clockTick, privateTimerExpires, clock, timersIdle, timerVars, isrVars, OrderInv
<1>2. CASE timerIsr
  BY <1>2 DEF timerIsr, intervalTimer_start, timersIdle, OrderInv
<1>3. CASE timerIsrEnd
  BY <1>3 DEF timerIsrEnd, intervalTimer_stop, timersIdle, OrderInv
<1>4. CASE setUp
  <2>1. /\ ~inIsr /\ readPc = "none" /\ setUpDone' = setUpDone + 1
        /\ setUpDone' \in 1 .. Len(SetUp(mode))
        /\ mainPc' = IF setUpDone' = Len(SetUp(mode)) THEN "poll" ELSE "setUp"
        /\ armIntsEnabled' =
             (armIntsEnabled \/ setUpDone' = FirstReset(mode) + 4)
        /\ mode' = mode /\ inIsr' = inIsr
    BY <1>4, SetUpStep DEF isrVars
  <2>2. readPc' = "none"
    BY <1>4, <2>1, SetUpStep
    DEF intervalTimer_initAll, intervalTimer_reset, intervalTimer_start, timersIdle, timerVars
  <2>3. armIntsEnabled' \in BOOLEAN /\ inIsr' \in BOOLEAN /\ ~inIsr'
    BY <2>1 DEF OrderInv
  <2>4. armIntsEnabled' => setUpDone' >= FirstReset(mode) + 4
    <3>1. CASE armIntsEnabled
      <4>1. setUpDone >= FirstReset(mode) + 4
        BY <3>1 DEF OrderInv
      <4>2. QED BY <1>0, <2>1, <4>1
    <3>2. CASE ~armIntsEnabled
      <4>1. armIntsEnabled' => setUpDone' = FirstReset(mode) + 4
        BY <2>1, <3>2
      <4>2. QED BY <1>0, <4>1
    <3>3. QED BY <3>1, <3>2
  <2>5. mainPc' = "setUp" <=> setUpDone' < Len(SetUp(mode))
    BY <1>0, <2>1
  <2>6. mainPc' \in MainPc /\ mainPc' \notin Printing \union {"done"}
    BY <2>1 DEF MainPc, Printing
  <2>7. setUpDone' \in 0 .. Len(SetUp(mode))
    BY <1>0, <2>1
  <2>8. QED BY <1>0, <2>1, <2>2, <2>3, <2>4, <2>5, <2>6, <2>7 DEF OrderInv
<1>5. CASE pollInterrupt \/ pollNothing
  BY <1>5 DEF pollInterrupt, pollNothing, at, intervalTimer_start, intervalTimer_stop,
              timersIdle, isrVars, OrderInv, MainPc, Printing
<1>6. CASE clear
  BY <1>6 DEF clear, at, timerVars, isrVars, OrderInv, MainPc, Printing
<1>7. CASE work
  <2>1. /\ mainPc = "work" /\ mainPc' = "work" /\ armIntsEnabled' \in BOOLEAN
        /\ UNCHANGED <<mode, setUpDone, inIsr, readPc>>
    BY <1>7 DEF work, at, isrVars, timerVars
  <2>2. setUpDone >= FirstReset(mode) + 4
    <3>1. ~(setUpDone < Len(SetUp(mode)))
      BY <2>1 DEF OrderInv
    <3>2. QED BY <1>0, <3>1
  <2>3. QED BY <2>1, <2>2 DEF OrderInv, Printing
<1>8. CASE workDone
  BY <1>8 DEF workDone, at, intervalTimer_stop, timersIdle, isrVars, OrderInv, MainPc, Printing
<1>9. CASE exit
  <2>1. /\ mainPc = "poll" /\ mainPc' = "print1" /\ ~inIsr /\ ~armIntsEnabled'
        /\ armIntsEnabled' \in BOOLEAN
        /\ UNCHANGED <<mode, setUpDone, inIsr, readPc>>
    BY <1>9 DEF exit, at, isrVars, timerVars
  <2>2. QED BY <2>1 DEF OrderInv, MainPc, Printing
<1>10. CASE printRunTimeStatistics
  <2>1. /\ mainPc \in Printing /\ mainPc' \in Printing \union {"done"}
        /\ readPc' # "none" => mainPc' = mainPc
        /\ UNCHANGED <<mode, setUpDone, armIntsEnabled, inIsr>>
    BY <1>10, PrintStep DEF isrVars
  <2>2. QED BY <2>1 DEF OrderInv, MainPc, Printing
<1>11. CASE UNCHANGED vars
  BY <1>11 DEF vars, timerVars, isrVars, OrderInv
<1>12. QED
  BY <1>1, <1>2, <1>3, <1>4, <1>5, <1>6, <1>7, <1>8, <1>9, <1>10, <1>11
  DEF Next, mainStep

\* The program uses the timers as IntervalTimer lets them be used.
LEMMA StepOfTimers == OrderInv /\ [Next]_vars => [TimersNext]_timerVars
<1> SUFFICES ASSUME OrderInv, [Next]_vars PROVE TimersNext \/ UNCHANGED timerVars
  OBVIOUS
<1>1. CASE clockTick
  BY <1>1 DEF clockTick, TimersNext
<1>2. CASE timerIsr \/ pollInterrupt
  BY <1>2, Timers DEF timerIsr, pollInterrupt, TimersNext
<1>3. CASE timerIsrEnd \/ pollNothing \/ workDone
  BY <1>3, Timers DEF timerIsrEnd, pollNothing, workDone, TimersNext
<1>4. CASE setUp
  <2>1. readPc = "none"
    BY <1>4, SetUpStep
  <2>2. \/ intervalTimer_initAll \/ UNCHANGED timerVars
        \/ intervalTimer_reset(0) \/ intervalTimer_reset(1) \/ intervalTimer_reset(2)
        \/ intervalTimer_start(1)
    BY <1>4, SetUpStep
  <2>3. QED BY <2>1, <2>2, Timers DEF TimersNext
<1>5. CASE printRunTimeStatistics
  BY <1>5, PrintStep DEF TimersNext
<1>6. CASE privateTimerExpires \/ clear \/ work \/ exit \/ UNCHANGED vars
  BY <1>6 DEF privateTimerExpires, clear, work, exit, vars
<1>7. QED BY <1>1, <1>2, <1>3, <1>4, <1>5, <1>6 DEF Next, mainStep

\* main.c and interrupts.c start, stop, set back and read the timers so that the
\* reads are coherent.
THEOREM TimersAreRead == Spec => ReadIsCoherent
<1>1. Init => TimersInit
  BY DEF Init
<1>2. Spec => TimersSpec
  BY <1>1, InitOrder, NextOrder, StepOfTimers, PTL DEF Spec, TimersSpec
<1>3. QED BY <1>2, CoherentRead, PTL
-----------------------------------------------------------------------------
(* Counters are ordered, and counting up keeps their order.                 *)

LEMMA AtMostOrder ==
  /\ \A c \in Counter : atMost(c, c)
  /\ \A c, d, e \in Counter : atMost(c, d) /\ atMost(d, e) => atMost(c, e)
  /\ \A c \in Counter : atMost(Zero, c)
<1>1. \A c \in Counter : c.upper \in Nat /\ c.lower \in Nat
  BY IntervalTimerAssumption DEF Counter, Register
<1>2. QED BY <1>1 DEF atMost, Zero

LEMMA UpKeepsOrder ==
  ASSUME NEW c \in Counter, NEW d \in Counter, atMost(c, d)
  PROVE atMost(up(c), up(d))
<1>1. /\ c.upper \in Nat /\ c.lower \in 0 .. COUNTER_SIZE - 1
      /\ d.upper \in Nat /\ d.lower \in 0 .. COUNTER_SIZE - 1
      /\ COUNTER_SIZE \in Nat
  BY IntervalTimerAssumption DEF Counter, Register
<1>2. ASSUME NEW x \in Counter
      PROVE up(x) = IF x.lower = COUNTER_SIZE - 1 THEN [upper |-> x.upper + 1, lower |-> 0]
                    ELSE [upper |-> x.upper, lower |-> x.lower + 1]
  BY DEF up, Counter
<1>3. /\ up(c) = IF c.lower = COUNTER_SIZE - 1 THEN [upper |-> c.upper + 1, lower |-> 0]
                 ELSE [upper |-> c.upper, lower |-> c.lower + 1]
      /\ up(d) = IF d.lower = COUNTER_SIZE - 1 THEN [upper |-> d.upper + 1, lower |-> 0]
                 ELSE [upper |-> d.upper, lower |-> d.lower + 1]
  BY <1>2
<1>4. c.upper < d.upper \/ (c.upper = d.upper /\ c.lower <= d.lower)
  BY DEF atMost
<1>5. QED BY <1>1, <1>3, <1>4 DEF atMost
-----------------------------------------------------------------------------
(* The three timers.  The two that measure a part of the time never get     *)
(* ahead of the one that measures all of it.                                *)

Parts == {0, 2}

\* While the program is set up: the timers that are reset stand at zero.
SetUpTimers ==
  /\ setUpDone >= FirstReset(mode) /\ ~inIsr => ~running(0)
  /\ setUpDone >= FirstReset(mode) /\ setUpDone < FirstReset(mode) + 4 =>
       counter[0] = Zero
  /\ setUpDone >= FirstReset(mode) + 2 /\ mainPc \notin {"clear", "work"} => ~running(2)
  /\ setUpDone >= FirstReset(mode) + 2 /\ mainPc = "setUp" => counter[2] = Zero

\* From then on the total is ahead.
TotalAhead ==
  setUpDone >= FirstReset(mode) + 3 =>
    running(1) /\ \A t \in Parts : atMost(counter[t], counter[1])

\* It is read first, when the others stand still.
TotalRead ==
  /\ mainPc = "print1" /\ readPc # "none" =>
       reading = 1 /\ \A t \in Parts : atMost(counter[t], before)
  /\ mainPc = "print0" /\ readPc # "none" => reading = 0
  /\ mainPc = "print2" /\ readPc # "none" => reading = 2
  /\ mainPc \in {"print0", "print2", "done"} =>
       \A t \in Parts : atMost(counter[t], shown[1])
  /\ mainPc \in {"print2", "done"} => atMost(shown[0], shown[1])
  /\ mainPc = "done" => atMost(shown[2], shown[1])

ShownType == shown \in [Timer -> Counter]

StatInv == OrderInv /\ Inv /\ ShownType /\ SetUpTimers /\ TotalAhead /\ TotalRead

LEMMA InitStat == Init => StatInv
<1> SUFFICES ASSUME Init PROVE StatInv
  OBVIOUS
<1>1. OrderInv /\ Inv
  BY InitOrder, InitInv DEF Init
<1>2. /\ setUpDone = 0 /\ mainPc = "setUp" /\ FirstReset(mode) \in Nat
      /\ FirstReset(mode) > 8
  BY Calls DEF Init, Mode
<1>3. ShownType
  BY ZeroIsCounter DEF Init, ShownType
<1>4. QED BY <1>1, <1>2, <1>3 DEF StatInv, SetUpTimers, TotalAhead, TotalRead

\* Facts every step below uses.
LEMMA StatFacts ==
  ASSUME StatInv
  PROVE /\ mode \in Mode /\ FirstReset(mode) \in Nat /\ setUpDone \in Nat
        /\ Len(SetUp(mode)) \in Nat /\ Len(SetUp(mode)) >= FirstReset(mode) + 4
        /\ mainPc # "setUp" => setUpDone >= FirstReset(mode) + 4
        /\ inIsr => setUpDone >= FirstReset(mode) + 4
        /\ \A t \in {0, 1, 2} : counter[t] \in Counter /\ shown[t] \in Counter
        /\ before \in Counter /\ value \in Counter
        /\ counter \in [{0, 1, 2} -> Counter]
        /\ tcsr0 \in [{0, 1, 2} -> {{}, {"ENT0"}, {"UDT0"}}]
<1>1. /\ mode \in Mode /\ FirstReset(mode) \in Nat /\ setUpDone \in Nat
      /\ Len(SetUp(mode)) \in Nat /\ Len(SetUp(mode)) >= FirstReset(mode) + 4
  BY Calls DEF StatInv, OrderInv
<1>2. mainPc # "setUp" => setUpDone >= FirstReset(mode) + 4
  <2>1. mainPc # "setUp" => ~(setUpDone < Len(SetUp(mode)))
    BY DEF StatInv, OrderInv
  <2>2. QED BY <1>1, <2>1
<1>3. inIsr => setUpDone >= FirstReset(mode) + 4
  BY DEF StatInv, OrderInv
<1>4. QED BY <1>1, <1>2, <1>3, Timers DEF StatInv, Inv, TimersTypeOK, ShownType

LEMMA StatOfClock == StatInv /\ clockTick => SetUpTimers' /\ TotalAhead' /\ TotalRead'
<1> SUFFICES ASSUME StatInv, clockTick PROVE SetUpTimers' /\ TotalAhead' /\ TotalRead'
  OBVIOUS
<1>1. /\ UNCHANGED <<tcsr0, readPc, reading, value, before>>
      /\ UNCHANGED <<mode, setUpDone, inIsr, mainPc, shown>>
      /\ \A t \in {0, 1, 2} :
           /\ ~running(t) => counter'[t] = counter[t]
           /\ running(t) => counter'[t] = up(counter[t])
  <2>1. /\ UNCHANGED <<tcsr0, readPc, reading, value, before>>
        /\ UNCHANGED <<mode, setUpDone, inIsr, mainPc, shown>>
    BY DEF clockTick, clock, timersIdle, isrVars
  <2>2. \A t \in {0, 1, 2} : running(t) => "UDT0" \notin tcsr0[t]
    BY StatFacts DEF running
  <2>3. QED BY <2>1, <2>2, Timers DEF clockTick, clock
<1>2. \A t \in {0, 1, 2} : running(t)' <=> running(t)
  BY <1>1 DEF running
<1>3. SetUpTimers'
  <2>1. setUpDone >= FirstReset(mode) /\ setUpDone < FirstReset(mode) + 4 =>
          counter'[0] = Zero
    <3>1. setUpDone >= FirstReset(mode) /\ setUpDone < FirstReset(mode) + 4 =>
            ~inIsr /\ ~running(0) /\ counter[0] = Zero
      BY StatFacts DEF StatInv, SetUpTimers
    <3>2. QED BY <1>1, <3>1
  <2>2. setUpDone >= FirstReset(mode) + 2 /\ mainPc = "setUp" => counter'[2] = Zero
    <3>1. setUpDone >= FirstReset(mode) + 2 /\ mainPc = "setUp" =>
            ~running(2) /\ counter[2] = Zero
      BY DEF StatInv, SetUpTimers
    <3>2. QED BY <1>1, <3>1
  <2>3. QED BY <1>1, <1>2, <2>1, <2>2 DEF StatInv, SetUpTimers
<1>4. TotalAhead'
  <2> SUFFICES ASSUME setUpDone >= FirstReset(mode) + 3, NEW t \in Parts
               PROVE running(1) /\ atMost(counter'[t], counter'[1])
    BY <1>1, <1>2 DEF TotalAhead, Parts
  <2>1. running(1) /\ atMost(counter[t], counter[1])
    BY DEF StatInv, TotalAhead
  <2>2. counter[t] \in Counter /\ counter[1] \in Counter /\ counter'[1] = up(counter[1])
    BY <1>1, <2>1, StatFacts DEF Parts
  <2>3. CASE running(t)
    BY <1>1, <2>1, <2>2, <2>3, UpKeepsOrder DEF Parts
  <2>4. CASE ~running(t)
    <3>1. up(counter[1]) \in Counter /\ atMost(counter[1], up(counter[1]))
      <4>1. mayCount(1) /\ "UDT0" \notin tcsr0[1]
        BY <2>1, StatFacts, Timers DEF clockTick, clock, running
      <4>2. QED BY <2>1, <2>2, <4>1, UpIsLater DEF mayCount
    <3>2. counter'[t] = counter[t]
      BY <1>1, <2>4 DEF Parts
    <3>3. QED BY <2>1, <2>2, <3>1, <3>2, AtMostOrder
  <2>5. QED BY <2>1, <2>3, <2>4
<1>5. mainPc \in Printing \union {"done"} => \A t \in Parts : counter'[t] = counter[t]
  <2>1. mainPc \in Printing \union {"done"} => ~running(0) /\ ~running(2)
    <3>1. mainPc \in Printing \union {"done"} =>
            /\ ~inIsr /\ setUpDone >= FirstReset(mode) + 4
            /\ mainPc \notin {"clear", "work"}
      BY StatFacts DEF StatInv, OrderInv, Printing
    <3>2. QED BY <3>1, StatFacts DEF StatInv, SetUpTimers
  <2>2. QED BY <1>1, <2>1 DEF Parts
<1>6. TotalRead'
  BY <1>1, <1>5 DEF StatInv, TotalRead, Printing, Parts
<1>7. QED BY <1>3, <1>4, <1>6

\* Steps that start or stop the timer of a part, or none.
LEMMA StatOfSwitch ==
  ASSUME StatInv, OrderInv',
         UNCHANGED <<counter, readPc, reading, value, before, mode, setUpDone, shown>>,
         mainPc \notin Printing \union {"done"},
         mainPc' \notin {"print0", "print2", "done"},
         running(1) => running(1)',
         setUpDone >= FirstReset(mode) /\ ~inIsr' => ~running(0)',
         setUpDone >= FirstReset(mode) + 2 /\ mainPc' \notin {"clear", "work"} => ~running(2)',
         mainPc' = "setUp" => mainPc = "setUp"
  PROVE SetUpTimers' /\ TotalAhead' /\ TotalRead'
<1>1. SetUpTimers'
  BY DEF StatInv, SetUpTimers
<1>2. TotalAhead'
  BY DEF StatInv, TotalAhead, Parts
<1>3. readPc' = "none"
  BY DEF StatInv, OrderInv, Printing
<1>4. TotalRead'
  BY <1>3 DEF TotalRead
<1>5. QED BY <1>1, <1>2, <1>4

LEMMA StatOfIsr ==
  ASSUME StatInv, timerIsr \/ timerIsrEnd, OrderInv'
  PROVE SetUpTimers' /\ TotalAhead' /\ TotalRead'
<1>1. mainPc \notin Printing \union {"done"}
  BY DEF StatInv, OrderInv, timerIsr, timerIsrEnd
<1>2. UNCHANGED <<counter, readPc, reading, value, before, mode, setUpDone, shown, mainPc>>
  BY DEF timerIsr, timerIsrEnd, intervalTimer_start, intervalTimer_stop, timersIdle
<1>3. /\ running(1)' <=> running(1)
      /\ running(2)' <=> running(2)
  BY StatFacts, Timers
  DEF timerIsr, timerIsrEnd, intervalTimer_start, intervalTimer_stop, running
<1>4. ~inIsr' => ~running(0)'
  BY StatFacts, Timers DEF timerIsr, timerIsrEnd, intervalTimer_stop, running
<1>5. mainPc' \notin {"print0", "print2", "done"}
  BY <1>1, <1>2 DEF Printing
<1>6. setUpDone >= FirstReset(mode) + 2 /\ mainPc' \notin {"clear", "work"} => ~running(2)'
  BY <1>2, <1>3 DEF StatInv, SetUpTimers
<1>7. QED BY <1>1, <1>2, <1>3, <1>4, <1>5, <1>6, StatOfSwitch

\* The steps of the main loop, and btn3.
LEMMA StatOfLoop ==
  ASSUME StatInv, pollInterrupt \/ pollNothing \/ clear \/ work \/ workDone \/ exit,
         OrderInv'
  PROVE SetUpTimers' /\ TotalAhead' /\ TotalRead'
<1>1. /\ mainPc \in {"poll", "clear", "work"} /\ mainPc' \in {"poll", "clear", "work", "print1"}
      /\ ~inIsr /\ inIsr' = inIsr
      /\ UNCHANGED <<counter, readPc, reading, value, before, mode, setUpDone, shown>>
  BY DEF pollInterrupt, pollNothing, clear, work, workDone, exit, at, intervalTimer_start,
         intervalTimer_stop, timersIdle, isrVars, timerVars
<1>2. \/ tcsr0' = tcsr0
      \/ tcsr0' = [tcsr0 EXCEPT ![2] = {"ENT0"}]
      \/ tcsr0' = [tcsr0 EXCEPT ![2] = {}]
  BY Timers
  DEF pollInterrupt, pollNothing, clear, work, workDone, exit, intervalTimer_start,
      intervalTimer_stop, timerVars
<1>3. /\ running(1)' <=> running(1)
      /\ running(0)' <=> running(0)
  BY <1>2, StatFacts DEF running
<1>4. setUpDone >= FirstReset(mode) + 2
  BY <1>1, StatFacts
<1>5. mainPc' \notin {"clear", "work"} => ~running(2)'
  <2>1. CASE pollNothing \/ workDone
    BY <2>1, StatFacts, Timers DEF pollNothing, workDone, intervalTimer_stop, running
  <2>2. CASE exit
    <3>1. mainPc = "poll" /\ tcsr0' = tcsr0
      BY <2>2 DEF exit, at, timerVars
    <3>2. ~running(2)
      BY <1>4, <3>1 DEF StatInv, SetUpTimers
    <3>3. QED BY <3>1, <3>2 DEF running
  <2>3. CASE pollInterrupt \/ clear \/ work
    BY <2>3 DEF pollInterrupt, clear, work, at
  <2>4. QED BY <2>1, <2>2, <2>3
<1>6. setUpDone >= FirstReset(mode) /\ ~inIsr' => ~running(0)'
  BY <1>1, <1>3 DEF StatInv, SetUpTimers
<1>7. QED BY <1>1, <1>3, <1>5, <1>6, StatOfSwitch DEF Printing

LEMMA StatOfSetUp ==
  ASSUME StatInv, setUp, OrderInv', Inv'
  PROVE SetUpTimers' /\ TotalAhead' /\ TotalRead'
<1> DEFINE n == setUpDone + 1
           F == FirstReset(mode)
<1>1. /\ mainPc = "setUp" /\ ~inIsr /\ ~inIsr' /\ mode' = mode /\ setUpDone' = n
      /\ n \in Nat /\ F \in Nat /\ F > 8 /\ mainPc' \in {"poll", "setUp"}
  BY StatFacts, SetUpStep, Calls DEF StatInv, isrVars
<1>2. \/ n = 1 /\ intervalTimer_initAll
      \/ n = F /\ intervalTimer_reset(0)
      \/ n = F + 1 /\ intervalTimer_reset(1)
      \/ n = F + 2 /\ intervalTimer_reset(2)
      \/ n = F + 3 /\ intervalTimer_start(1)
      \/ n \notin F .. F + 3 /\ UNCHANGED timerVars
  BY <1>1, SetUpStep DEF StatInv
<1>3. /\ counter \in [{0, 1, 2} -> Counter]
      /\ tcsr0 \in [{0, 1, 2} -> {{}, {"ENT0"}, {"UDT0"}}]
  BY StatFacts
<1> HIDE DEF n, F
<1>4. /\ setUpDone >= F => ~running(0)
      /\ setUpDone >= F /\ setUpDone < F + 4 => counter[0] = Zero
      /\ setUpDone >= F + 2 => ~running(2) /\ counter[2] = Zero
      /\ setUpDone >= F + 3 =>
           running(1) /\ \A t \in Parts : atMost(counter[t], counter[1])
  BY <1>1 DEF StatInv, SetUpTimers, TotalAhead, F
<1>5. setUpDone \in Nat /\ n = setUpDone + 1
  BY StatFacts DEF n
<1>6. readPc' = "none"
  BY <1>1 DEF OrderInv, Printing
<1>7. /\ n >= F => ~running(0)'
      /\ n >= F /\ n < F + 4 => counter'[0] = Zero
  <2>1. CASE n < F
    BY <1>1, <2>1
  <2>2. CASE n = F
    <3>1. intervalTimer_reset(0)
      BY <1>1, <1>2, <2>2
    <3>2. QED BY <1>3, <3>1 DEF intervalTimer_reset, running
  <2>3. CASE n > F
    <3>1. setUpDone >= F /\ (n < F + 4 => setUpDone < F + 4)
      BY <1>1, <1>5, <2>3
    <3>2. counter'[0] = counter[0] /\ (running(0)' <=> running(0))
      <4>1. \/ intervalTimer_reset(1) \/ intervalTimer_reset(2) \/ intervalTimer_start(1)
            \/ UNCHANGED timerVars
        BY <1>1, <1>2, <2>3
      <4>2. QED BY <1>3, <4>1 DEF intervalTimer_reset, intervalTimer_start, timerVars, running
    <3>3. QED BY <1>4, <3>1, <3>2
  <2>4. QED BY <1>1, <2>1, <2>2, <2>3
<1>8. n >= F + 2 => ~running(2)' /\ counter'[2] = Zero
  <2>1. CASE n = F + 2
    <3>1. intervalTimer_reset(2)
      BY <1>1, <1>2, <2>1
    <3>2. QED BY <1>3, <3>1 DEF intervalTimer_reset, running
  <2>2. CASE n > F + 2
    <3>1. setUpDone >= F + 2
      BY <1>1, <1>5, <2>2
    <3>2. counter'[2] = counter[2] /\ (running(2)' <=> running(2))
      <4>1. intervalTimer_start(1) \/ UNCHANGED timerVars
        BY <1>1, <1>2, <2>2
      <4>2. QED BY <1>3, <4>1 DEF intervalTimer_start, timerVars, running
    <3>3. QED BY <1>4, <3>1, <3>2
  <2>3. QED BY <1>1, <2>1, <2>2
<1>9. n >= F + 3 => running(1)' /\ \A t \in Parts : atMost(counter'[t], counter'[1])
  <2>1. CASE n = F + 3
    <3>1. intervalTimer_start(1)
      BY <1>1, <1>2, <2>1
    <3>2. running(1)'
      BY <1>3, <3>1 DEF intervalTimer_start, running
    <3>3. counter'[0] = Zero /\ counter'[2] = Zero
      BY <1>1, <1>7, <1>8, <2>1
    <3>4. counter'[1] \in Counter
      BY Timers DEF Inv, TimersTypeOK
    <3>5. QED BY <3>2, <3>3, <3>4, AtMostOrder DEF Parts
  <2>2. CASE n > F + 3
    <3>1. setUpDone >= F + 3
      BY <1>1, <1>5, <2>2
    <3>2. UNCHANGED timerVars
      BY <1>1, <1>2, <2>2
    <3>3. QED BY <1>4, <3>1, <3>2 DEF timerVars, running
  <2>3. QED BY <1>1, <2>1, <2>2
<1>10. SetUpTimers'
  BY <1>1, <1>7, <1>8 DEF SetUpTimers, F
<1>11. TotalAhead'
  BY <1>1, <1>9 DEF TotalAhead, F
<1>12. TotalRead'
  BY <1>1, <1>6 DEF TotalRead
<1>13. QED BY <1>10, <1>11, <1>12

LEMMA StatOfPrint ==
  ASSUME StatInv, printRunTimeStatistics, OrderInv', Inv'
  PROVE ShownType' /\ SetUpTimers' /\ TotalAhead' /\ TotalRead'
<1>1. PICK t \in Timer, next \in MainPc :
        /\ \/ mainPc = "print1" /\ t = 1 /\ next = "print0"
           \/ mainPc = "print0" /\ t = 0 /\ next = "print2"
           \/ mainPc = "print2" /\ t = 2 /\ next = "done"
        /\ readUpper(t) \/ readOn
        /\ IF readPc' = "none" THEN mainPc' = next /\ shown' = [shown EXCEPT ![t] = value']
           ELSE UNCHANGED <<mainPc, shown>>
  BY PrintStep
<1>2. /\ UNCHANGED <<mode, setUpDone, inIsr, counter, tcsr0>>
      /\ mainPc \in Printing /\ mainPc' \in Printing \union {"done"}
  BY PrintStep DEF isrVars
<1>3. /\ shown \in [{0, 1, 2} -> Counter] /\ value' \in Counter
      /\ counter \in [{0, 1, 2} -> Counter] /\ before \in Counter
  BY StatFacts, Timers DEF StatInv, ShownType, Inv, TimersTypeOK
<1>4. ShownType'
  BY <1>1, <1>3, Timers DEF ShownType
<1>5. SetUpTimers' /\ TotalAhead'
  BY <1>2 DEF StatInv, SetUpTimers, TotalAhead, running, Printing
<1>6. \A p \in Parts : atMost(counter[p], counter[1])
  <2>1. setUpDone >= FirstReset(mode) + 3
    BY <1>2, StatFacts DEF Printing
  <2>2. QED BY <2>1 DEF StatInv, TotalAhead
<1>7. ASSUME readPc' # "none"
      PROVE /\ mainPc' = mainPc /\ shown' = shown
            /\ \/ readPc # "none" /\ UNCHANGED <<reading, before>>
               \/ reading' = t /\ before' = counter[t]
  BY <1>1, <1>7 DEF readUpper, readOn, readLower, readSecondUpper, readLowerAgain
<1>8. ASSUME readPc' = "none"
      PROVE /\ readPc # "none" /\ mainPc' = next /\ shown' = [shown EXCEPT ![t] = value']
            /\ atMost(before, value') /\ atMost(value', counter[reading])
  <2>1. readOn
    BY <1>1, <1>8 DEF readUpper
  <2>2. readPc # "none" /\ TimersNext
    BY <2>1 DEF readOn, readLower, readSecondUpper, readLowerAgain, TimersNext
  <2>3. QED BY <1>1, <1>8, <2>2, ReturnIsCoherent DEF StatInv
<1> SUFFICES TotalRead'
  BY <1>4, <1>5
<1>9. CASE mainPc = "print1"
  <2>1. t = 1 /\ next = "print0"
    BY <1>1, <1>9
  <2>2. CASE readPc' # "none"
    <3>1. mainPc' = "print1" /\ counter' = counter
      BY <1>2, <1>7, <1>9, <2>2
    <3>2. reading' = 1 /\ \A p \in Parts : atMost(counter[p], before')
      BY <1>6, <1>7, <1>9, <2>1, <2>2 DEF StatInv, TotalRead
    <3>3. QED BY <3>1, <3>2 DEF TotalRead, Parts
  <2>3. CASE readPc' = "none"
    <3>1. \A p \in Parts : atMost(counter[p], before)
      BY <1>8, <1>9, <2>3 DEF StatInv, TotalRead
    <3>2. \A p \in Parts : atMost(counter[p], value')
      BY <1>3, <1>8, <2>3, <3>1, AtMostOrder DEF Parts
    <3>3. mainPc' = "print0" /\ shown'[1] = value' /\ counter' = counter
      BY <1>2, <1>3, <1>8, <2>1, <2>3
    <3>4. QED BY <2>3, <3>2, <3>3 DEF TotalRead, Parts
  <2>4. QED BY <2>2, <2>3
<1>10. CASE mainPc = "print0"
  <2>1. /\ t = 0 /\ next = "print2"
        /\ \A p \in Parts : atMost(counter[p], shown[1])
    BY <1>1, <1>10 DEF StatInv, TotalRead
  <2>2. CASE readPc' # "none"
    <3>1. mainPc' = "print0" /\ counter' = counter /\ shown' = shown
      BY <1>2, <1>7, <1>10, <2>2
    <3>2. reading' = 0
      BY <1>7, <1>10, <2>1, <2>2 DEF StatInv, TotalRead
    <3>3. QED BY <2>1, <3>1, <3>2 DEF TotalRead
  <2>3. CASE readPc' = "none"
    <3>1. reading = 0
      BY <1>8, <1>10, <2>3 DEF StatInv, TotalRead
    <3>2. atMost(value', shown[1])
      <4>1. atMost(value', counter[0]) /\ atMost(counter[0], shown[1])
        BY <1>8, <2>1, <2>3, <3>1 DEF Parts
      <4>2. QED BY <1>3, <4>1, AtMostOrder
    <3>3. /\ mainPc' = "print2" /\ shown'[0] = value' /\ shown'[1] = shown[1]
          /\ counter' = counter
      BY <1>2, <1>3, <1>8, <2>1, <2>3
    <3>4. QED BY <2>1, <2>3, <3>2, <3>3 DEF TotalRead
  <2>4. QED BY <2>2, <2>3
<1>11. CASE mainPc = "print2"
  <2>1. /\ t = 2 /\ next = "done" /\ atMost(shown[0], shown[1])
        /\ \A p \in Parts : atMost(counter[p], shown[1])
    BY <1>1, <1>11 DEF StatInv, TotalRead
  <2>2. CASE readPc' # "none"
    <3>1. mainPc' = "print2" /\ counter' = counter /\ shown' = shown
      BY <1>2, <1>7, <1>11, <2>2
    <3>2. reading' = 2
      BY <1>7, <1>11, <2>1, <2>2 DEF StatInv, TotalRead
    <3>3. QED BY <2>1, <3>1, <3>2 DEF TotalRead
  <2>3. CASE readPc' = "none"
    <3>1. reading = 2
      BY <1>8, <1>11, <2>3 DEF StatInv, TotalRead
    <3>2. atMost(value', shown[1])
      <4>1. atMost(value', counter[2]) /\ atMost(counter[2], shown[1])
        BY <1>8, <2>1, <2>3, <3>1 DEF Parts
      <4>2. QED BY <1>3, <4>1, AtMostOrder
    <3>3. /\ mainPc' = "done" /\ shown'[2] = value' /\ shown'[1] = shown[1]
          /\ shown'[0] = shown[0] /\ counter' = counter
      BY <1>2, <1>3, <1>8, <2>1, <2>3
    <3>4. QED BY <2>1, <2>3, <3>2, <3>3 DEF TotalRead
  <2>4. QED BY <2>2, <2>3
<1>12. QED BY <1>2, <1>9, <1>10, <1>11 DEF Printing

LEMMA NextStat == StatInv /\ [Next]_vars => StatInv'
<1> SUFFICES ASSUME StatInv, [Next]_vars PROVE StatInv'
  OBVIOUS
<1>1. OrderInv' /\ Inv'
  BY NextOrder, StepOfTimers, NextInv DEF StatInv
<1>2. ShownType' \/ printRunTimeStatistics
  <2>1. shown' = shown \/ printRunTimeStatistics
    BY DEF Next, mainStep, clockTick, privateTimerExpires, timerIsr, timerIsrEnd, setUp,
           pollInterrupt, pollNothing, clear, work, workDone, exit, vars
  <2>2. QED BY <2>1 DEF StatInv, ShownType
<1>3. CASE clockTick
  BY <1>1, <1>2, <1>3, StatOfClock DEF StatInv, ShownType, clockTick
<1>4. CASE timerIsr \/ timerIsrEnd
  <2>1. shown' = shown
    BY <1>4 DEF timerIsr, timerIsrEnd
  <2>2. QED BY <1>1, <1>4, <2>1, StatOfIsr DEF StatInv, ShownType
<1>5. CASE pollInterrupt \/ pollNothing \/ clear \/ work \/ workDone \/ exit
  <2>1. shown' = shown
    BY <1>5 DEF pollInterrupt, pollNothing, clear, work, workDone, exit
  <2>2. QED BY <1>1, <1>5, <2>1, StatOfLoop DEF StatInv, ShownType
<1>6. CASE setUp
  <2>1. shown' = shown
    BY <1>6 DEF setUp
  <2>2. QED BY <1>1, <1>6, <2>1, StatOfSetUp DEF StatInv, ShownType
<1>7. CASE printRunTimeStatistics
  BY <1>1, <1>7, StatOfPrint DEF StatInv
<1>8. CASE privateTimerExpires \/ UNCHANGED vars
  <2>1. UNCHANGED <<timerVars, mode, setUpDone, inIsr, mainPc, shown>>
    BY <1>8 DEF privateTimerExpires, vars, isrVars
  <2>2. QED
    BY <1>1, <2>1
    DEF StatInv, ShownType, SetUpTimers, TotalAhead, TotalRead, timerVars, running
<1>9. QED BY <1>3, <1>4, <1>5, <1>6, <1>7, <1>8 DEF Next, mainStep

\* main.c:50-60: what is shown as spent in the ISR, and what is shown as spent
\* in the main loop, is never more than the running time shown.
THEOREM StatisticsFit == Spec => []StatisticsAreConsistent
<1>1. StatInv => StatisticsAreConsistent
  <2> SUFFICES ASSUME StatInv, mainPc = "done", NEW t \in Timer
               PROVE atMost(shown[t], shown[TOTAL_RUNTIME_TIMER])
    BY DEF StatisticsAreConsistent
  <2>1. atMost(shown[0], shown[1]) /\ atMost(shown[2], shown[1]) /\ atMost(shown[1], shown[1])
    BY StatFacts, AtMostOrder DEF StatInv, TotalRead
  <2>2. QED BY <2>1, Timers
<1>2. QED BY <1>1, InitStat, NextStat, PTL DEF Spec

\* main.c:72-98, 164-194: everything a mode sets up for the ISR is set up before the
\* first ISR.  (Not that it sets up everything: continuousPowerMode() does not.)
THEOREM SetUpComesFirst == Spec => []SetUpPrecedesIsr
<1>1. StatInv => SetUpPrecedesIsr
  <2> SUFFICES ASSUME StatInv, inIsr PROVE SetUpPrecedesIsr
    BY DEF SetUpPrecedesIsr
  <2>1. /\ mode \in Mode /\ setUpDone \in Nat /\ setUpDone >= FirstReset(mode) + 4
        /\ FirstReset(mode) \in Nat /\ setUpDone <= Len(SetUp(mode))
    BY StatFacts DEF StatInv, OrderInv
  <2>2. running(TOTAL_RUNTIME_TIMER)
    BY <2>1, Timers DEF StatInv, TotalAhead
  <2>3. CASE mode = "shooter"
    <3>1. setUpDone >= 17 /\ SetUp(mode) = shooterMode
      BY <2>1, <2>3 DEF FirstReset, SetUp, calls
    <3>2. \A k \in 1 .. 17 : shooterMode[k] \in called
      BY <2>1, <3>1 DEF called
    <3>3. \A k \in DOMAIN shooterMode : k \in 1 .. 17 \/ shooterMode[k] = "lockoutTimer_start"
      BY DEF shooterMode
    <3>4. "lockoutTimer_start" \notin forIsr
      BY DEF forIsr
    <3>5. {shooterMode[k] : k \in DOMAIN shooterMode} \cap forIsr \subseteq called
      BY <3>2, <3>3, <3>4
    <3>6. QED BY <2>2, <3>1, <3>5, Zenon DEF SetUpPrecedesIsr
  <2>4. CASE mode = "continuousPower"
    <3>1. setUpDone >= 13 /\ SetUp(mode) = continuousPowerMode
      BY <2>1, <2>4 DEF FirstReset, SetUp, calls
    <3>2. \A k \in 1 .. 13 : continuousPowerMode[k] \in called
      BY <2>1, <3>1 DEF called
    <3>3. DOMAIN continuousPowerMode = 1 .. 13
      BY DEF continuousPowerMode
    <3>4. {continuousPowerMode[k] : k \in DOMAIN continuousPowerMode} \cap forIsr
            \subseteq called
      BY <3>2, <3>3
    <3>5. QED BY <2>2, <3>1, <3>4, Zenon DEF SetUpPrecedesIsr
  <2>5. QED BY <2>1, <2>3, <2>4 DEF Mode
<1>2. QED BY <1>1, InitStat, NextStat, PTL DEF Spec
-----------------------------------------------------------------------------
(* The counts.  The flag stands for an interrupt main has not counted yet,  *)
(* except between its test of the flag and the reset.                       *)

CountType ==
  /\ isrFlagGlobal \in {0, 1} /\ countInterrupts \in Nat /\ pending \in BOOLEAN
  /\ isrInvocationCount \in Nat /\ isrInvocationCount <= InterruptBound
  /\ pending /\ ~inIsr => isrInvocationCount < InterruptBound

Uncounted ==
  /\ mainPc = "clear" => countInterrupts <= isrInvocationCount
  /\ mainPc # "clear" => countInterrupts + isrFlagGlobal <= isrInvocationCount

Period == privateTimerTicksPerHeartbeat + 1

Beats ==
  /\ heartBeatTimer \in 0 .. privateTimerTicksPerHeartbeat
  /\ \E q \in Nat : /\ isrInvocationCount + heartBeatTimer = q * Period
                    /\ ledValue = q % 2

CountInv == OrderInv /\ CountType /\ Uncounted /\ Beats

LEMMA InitCount == Init => CountInv
<1> SUFFICES ASSUME Init PROVE CountInv
  OBVIOUS
<1>1. OrderInv
  BY InitOrder
<1>2. CountType
  <2>1. /\ isrFlagGlobal = 0 /\ countInterrupts = 0 /\ isrInvocationCount = 0
        /\ pending = FALSE
    BY DEF Init
  <2>2. 0 <= InterruptBound
    BY RunTimeAssumption
  <2>3. QED BY <2>1, <2>2 DEF CountType
<1>3. Uncounted
  BY DEF Init, Uncounted
<1>4. Beats
  <2>1. isrInvocationCount + heartBeatTimer = 0 * Period /\ ledValue = 0 % 2
    BY RunTimeAssumption DEF Init, Period
  <2>2. heartBeatTimer \in 0 .. privateTimerTicksPerHeartbeat
    BY RunTimeAssumption DEF Init
  <2>3. QED BY <2>1, <2>2 DEF Beats
<1>5. QED BY <1>1, <1>2, <1>3, <1>4 DEF CountInv

\* Each interrupt takes the heart beat on by one.
LEMMA BeatsOn ==
  ASSUME CountInv, timerIsr
  PROVE Beats'
<1>1. /\ isrInvocationCount \in Nat /\ isrInvocationCount' = isrInvocationCount + 1
      /\ heartBeatTimer \in 0 .. privateTimerTicksPerHeartbeat
      /\ privateTimerTicksPerHeartbeat \in Nat
  BY RunTimeAssumption DEF CountInv, CountType, Beats, timerIsr
<1>2. PICK q \in Nat : /\ isrInvocationCount + heartBeatTimer = q * Period
                      /\ ledValue = q % 2
  BY DEF CountInv, Beats
<1>3. CASE heartBeatTimer = 0
  <2>1. heartBeatTimer' = privateTimerTicksPerHeartbeat /\ ledValue' = 1 - ledValue
    BY <1>3 DEF timerIsr, updateHeartBeatLed
  <2>2. isrInvocationCount' + heartBeatTimer' = q * Period + Period
    BY <1>1, <1>2, <1>3, <2>1 DEF Period
  <2>3. (q + 1) * Period = q * Period + Period
    BY <1>1, <1>2 DEF Period
  <2>4. ledValue' = (q + 1) % 2
    BY <1>2, <2>1
  <2>5. q + 1 \in Nat
    BY <1>2
  <2>6. QED BY <1>1, <2>1, <2>2, <2>3, <2>4, <2>5 DEF Beats, Period
<1>4. CASE heartBeatTimer # 0
  <2>1. heartBeatTimer' = heartBeatTimer - 1 /\ ledValue' = ledValue
    BY <1>4 DEF timerIsr, updateHeartBeatLed
  <2>2. isrInvocationCount' + heartBeatTimer' = q * Period
    BY <1>1, <1>2, <2>1
  <2>3. heartBeatTimer' \in 0 .. privateTimerTicksPerHeartbeat
    BY <1>1, <1>4, <2>1
  <2>4. QED BY <1>2, <2>1, <2>2, <2>3 DEF Beats, Period
<1>5. QED BY <1>3, <1>4

LEMMA NextCount == CountInv /\ [Next]_vars => CountInv'
<1> SUFFICES ASSUME CountInv, [Next]_vars PROVE CountInv'
  OBVIOUS
<1>1. OrderInv'
  BY NextOrder DEF CountInv
<1>2. CASE timerIsr
  <2>1. /\ mainPc' = mainPc /\ inIsr' /\ isrFlagGlobal' = 1 /\ pending' = pending
        /\ isrInvocationCount' = isrInvocationCount + 1 /\ countInterrupts' = countInterrupts
        /\ pending /\ ~inIsr
    BY <1>2 DEF timerIsr
  <2>2. CountType'
    <3>1. isrInvocationCount < InterruptBound /\ isrInvocationCount \in Nat
      BY <2>1 DEF CountInv, CountType
    <3>2. isrInvocationCount' \in Nat /\ isrInvocationCount' <= InterruptBound
      BY <2>1, <3>1, RunTimeAssumption
    <3>3. QED BY <2>1, <3>2 DEF CountInv, CountType
  <2>3. countInterrupts <= isrInvocationCount /\ isrInvocationCount \in Nat
          /\ countInterrupts \in Nat
    BY DEF CountInv, CountType, Uncounted
  <2>4. Uncounted'
    BY <2>1, <2>3 DEF Uncounted
  <2>5. QED BY <1>1, <1>2, <2>2, <2>4, BeatsOn DEF CountInv
<1>3. CASE pollInterrupt
  <2>1. /\ mainPc = "poll" /\ mainPc' = "clear" /\ isrFlagGlobal = 1
        /\ countInterrupts' = countInterrupts + 1
        /\ UNCHANGED <<isrVars, isrFlagGlobal, pending>>
    BY <1>3 DEF pollInterrupt, at
  <2>2. CountType' /\ Beats'
    BY <2>1 DEF CountInv, CountType, Beats, isrVars
  <2>3. Uncounted'
    BY <2>1 DEF CountInv, CountType, Uncounted, isrVars
  <2>4. QED BY <1>1, <2>2, <2>3 DEF CountInv
<1>4. CASE clear
  <2>1. /\ mainPc = "clear" /\ mainPc' = "work" /\ isrFlagGlobal' = 0
        /\ UNCHANGED <<isrVars, countInterrupts, pending>>
    BY <1>4 DEF clear, at
  <2>2. CountType' /\ Beats'
    BY <2>1 DEF CountInv, CountType, Beats, isrVars
  <2>3. Uncounted'
    BY <2>1 DEF CountInv, CountType, Uncounted, isrVars
  <2>4. QED BY <1>1, <2>2, <2>3 DEF CountInv
<1>5. CASE privateTimerExpires
  <2>1. /\ isrInvocationCount < InterruptBound /\ pending' = TRUE
        /\ UNCHANGED <<isrVars, isrFlagGlobal, countInterrupts, mainPc>>
    BY <1>5 DEF privateTimerExpires
  <2>2. QED BY <1>1, <2>1 DEF CountInv, CountType, Uncounted, Beats, isrVars
<1>6. CASE timerIsrEnd
  <2>1. /\ pending' = FALSE
        /\ UNCHANGED <<heartBeatTimer, ledValue, isrInvocationCount, isrFlagGlobal,
                       countInterrupts, mainPc>>
    BY <1>6 DEF timerIsrEnd
  <2>2. QED BY <1>1, <2>1 DEF CountInv, CountType, Uncounted, Beats
<1>7. CASE \/ clockTick \/ setUp \/ pollNothing \/ work \/ workDone \/ exit
           \/ printRunTimeStatistics \/ UNCHANGED vars
  <2>1. UNCHANGED <<isrVars, isrFlagGlobal, countInterrupts, pending>>
    BY <1>7, PrintStep DEF clockTick, setUp, pollNothing, work, workDone, exit, vars
  <2>2. (mainPc # "clear" /\ mainPc' # "clear") \/ mainPc' = mainPc
    BY <1>7, PrintStep
    DEF clockTick, setUp, pollNothing, work, workDone, exit, vars, at, Printing
  <2>3. QED BY <1>1, <2>1, <2>2 DEF CountInv, CountType, Uncounted, Beats, isrVars
<1>8. QED BY <1>2, <1>3, <1>4, <1>5, <1>6, <1>7 DEF Next, mainStep

\* main.c:197-201: main never counts an interrupt twice.
THEOREM CountedOnce == Spec => []DetectedAtMostOnce
<1>1. CountInv => DetectedAtMostOnce
  BY DEF CountInv, CountType, Uncounted, DetectedAtMostOnce
<1>2. QED BY <1>1, InitCount, NextCount, PTL DEF Spec

\* What \div makes of a multiple and a rest.
LEMMA Quotient ==
  ASSUME NEW q \in Nat, NEW b \in Nat \ {0}, NEW r \in 0 .. b - 1
  PROVE (q * b + r) \div b = q
OBVIOUS

\* interrupts.c:142-150: the heart beat has the same length for every setting,
\* one interrupt more than the number of ticks computed for it.
THEOREM HeartBeats == Spec => []HeartBeatPeriod
<1>1. CountInv => HeartBeatPeriod
  <2> SUFFICES ASSUME CountInv PROVE HeartBeatPeriod
    OBVIOUS
  <2>1. /\ isrInvocationCount \in Nat /\ privateTimerTicksPerHeartbeat \in Nat
        /\ heartBeatTimer \in 0 .. privateTimerTicksPerHeartbeat
    BY RunTimeAssumption DEF CountInv, CountType, Beats
  <2>2. PICK q \in Nat : /\ isrInvocationCount + heartBeatTimer = q * Period
                        /\ ledValue = q % 2
    BY DEF CountInv, Beats
  <2> DEFINE r == privateTimerTicksPerHeartbeat - heartBeatTimer
  <2>3. r \in 0 .. Period - 1 /\ Period \in Nat \ {0}
    BY <2>1 DEF Period
  <2>4. isrInvocationCount + privateTimerTicksPerHeartbeat = q * Period + r
    <3>1. q * Period \in Nat
      BY <2>2, <2>3
    <3>2. QED BY <2>1, <2>2, <3>1
  <2>5. (q * Period + r) \div Period = q
    BY <2>3, Quotient
  <2>6. QED BY <2>2, <2>4, <2>5 DEF HeartBeatPeriod, Period
<1>2. QED BY <1>1, InitCount, NextCount, PTL DEF Spec

\* The variables of main.c, interrupts.c and the timers keep their types.
THEOREM TypeCorrect == Spec => []TypeOK
<1>1. StatInv /\ CountInv => TypeOK
  <2> SUFFICES ASSUME StatInv, CountInv PROVE TypeOK
    OBVIOUS
  <2>1. ledValue \in {0, 1}
    BY DEF CountInv, Beats
  <2>2. isrInvocationCount \in 0 .. InterruptBound
    BY RunTimeAssumption DEF CountInv, CountType
  <2>3. heartBeatTimer \in 0 .. privateTimerTicksPerHeartbeat
    BY DEF CountInv, Beats
  <2>4. QED BY <2>1, <2>2, <2>3
            DEF StatInv, Inv, OrderInv, ShownType, CountInv, CountType, TypeOK
<1>2. QED BY <1>1, InitStat, NextStat, InitCount, NextCount, PTL DEF Spec
-----------------------------------------------------------------------------
(* Each timer is a stopwatch.                                               *)

\* One clock pulse adds one to the 64-bit value.
LEMMA UpAddsOne ==
  ASSUME NEW c \in Counter
  PROVE up(c).upper * COUNTER_SIZE + up(c).lower = c.upper * COUNTER_SIZE + c.lower + 1
<1>1. /\ c.upper \in Nat /\ c.lower \in Nat /\ COUNTER_SIZE \in Nat
      /\ c = [upper |-> c.upper, lower |-> c.lower]
  BY IntervalTimerAssumption DEF Counter, Register
<1>2. CASE c.lower = COUNTER_SIZE - 1
  <2>1. up(c).upper = c.upper + 1 /\ up(c).lower = 0
    BY <1>2 DEF up
  <2>2. (c.upper + 1) * COUNTER_SIZE = c.upper * COUNTER_SIZE + COUNTER_SIZE
    BY <1>1
  <2>3. c.upper * COUNTER_SIZE \in Nat
    BY <1>1
  <2>4. QED BY <1>1, <1>2, <2>1, <2>2, <2>3
<1>3. CASE c.lower # COUNTER_SIZE - 1
  <2>1. up(c) = [upper |-> c.upper, lower |-> c.lower + 1]
    BY <1>1, <1>3 DEF up
  <2>2. up(c).upper = c.upper /\ up(c).lower = c.lower + 1
    BY <2>1
  <2>3. c.upper * COUNTER_SIZE \in Nat
    BY <1>1
  <2>4. QED BY <1>1, <2>2, <2>3
<1>4. QED BY <1>2, <1>3

\* What a step of the timers does to the value and the state of one of them.
Watched(t) ==
  \/ running(t)' = TRUE /\ UNCHANGED elapsed(t)
  \/ running(t)' = FALSE /\ UNCHANGED elapsed(t)
  \/ elapsed(t)' = 0 /\ running(t)' = FALSE
  \/ running(t) /\ elapsed(t)' = elapsed(t) + 1 /\ UNCHANGED running(t)

LEMMA TimerIsWatched ==
  ASSUME TimersTypeOK, [TimersNext]_timerVars, NEW t \in Timer
  PROVE Watched(t)
<1>1. /\ counter[t] \in Counter /\ running(t) \in BOOLEAN /\ running(t)' \in BOOLEAN
  BY DEF TimersTypeOK, running
<1>2. CASE counter' = counter
  <2>1. elapsed(t)' = elapsed(t)
    BY <1>2 DEF elapsed
  <2>2. QED BY <1>1, <2>1 DEF Watched
<1>3. CASE clock
  <2>1. UNCHANGED running(t)
    BY <1>3 DEF clock, running
  <2>2. CASE ~running(t)
    <3>1. counter'[t] = counter[t]
      BY <1>3, <2>2 DEF clock
    <3>2. elapsed(t)' = elapsed(t)
      BY <3>1 DEF elapsed
    <3>3. QED BY <1>1, <3>2 DEF Watched
  <2>3. CASE running(t)
    <3>1. counter'[t] = up(counter[t])
      BY <1>3, <2>3 DEF clock, running, TimersTypeOK
    <3>2. elapsed(t)' = elapsed(t) + 1
      BY <1>1, <3>1, UpAddsOne DEF elapsed
    <3>3. QED BY <2>1, <2>3, <3>2 DEF Watched
  <2>4. QED BY <2>2, <2>3
<1>4. ASSUME NEW s \in Timer, intervalTimer_reset(s) PROVE Watched(t)
  <2>1. CASE s = t
    <3>1. counter'[t] = Zero /\ ~running(t)'
      BY <1>4, <2>1 DEF intervalTimer_reset, TimersTypeOK, running
    <3>2. elapsed(t)' = 0
      BY <3>1, IntervalTimerAssumption DEF elapsed, Zero
    <3>3. QED BY <1>1, <3>1, <3>2 DEF Watched
  <2>2. CASE s # t
    <3>1. counter'[t] = counter[t]
      BY <1>4, <2>2 DEF intervalTimer_reset, TimersTypeOK
    <3>2. elapsed(t)' = elapsed(t)
      BY <3>1 DEF elapsed
    <3>3. QED BY <1>1, <3>2 DEF Watched
  <2>3. QED BY <2>1, <2>2
<1>5. \/ counter' = counter \/ clock \/ \E s \in Timer : intervalTimer_reset(s)
  BY DEF TimersNext, timerVars, readUpper, readOn, readLower, readSecondUpper,
         readLowerAgain, intervalTimer_start, intervalTimer_stop, intervalTimer_initAll
<1>6. QED BY <1>2, <1>3, <1>4, <1>5

LEMMA WatchStarts ==
  ASSUME TimersTypeOK, NEW t \in Timer
  PROVE elapsed(t) \in Nat /\ running(t) \in BOOLEAN
<1>1. /\ counter[t].upper \in Nat /\ counter[t].lower \in Nat /\ COUNTER_SIZE \in Nat
  BY IntervalTimerAssumption DEF TimersTypeOK, Counter, Register
<1>2. elapsed(t) \in Nat
  BY <1>1 DEF elapsed
<1>3. running(t) \in BOOLEAN
  BY DEF running
<1>4. QED BY <1>2, <1>3

\* intervalTimer.c:48-98: in every run of the program each of the three timers
\* is a stopwatch.
THEOREM TimersAreStopwatches == Spec => ImplementsStopwatch
<1>1. Init => IsrWatch!Init /\ RunningWatch!Init /\ MainWatch!Init
  <2>1. Init => TimersTypeOK
    BY InitInv DEF Init, Inv
  <2>2. QED BY <2>1, WatchStarts, Timers DEF IsrWatch!Init, RunningWatch!Init, MainWatch!Init
<1>2. ASSUME StatInv, [Next]_vars
      PROVE Watched(0) /\ Watched(1) /\ Watched(2)
  <2>1. TimersTypeOK /\ [TimersNext]_timerVars
    BY <1>2, StepOfTimers DEF StatInv, Inv
  <2>2. QED BY <2>1, TimerIsWatched, Timers
<1>3. StatInv /\ [Next]_vars =>
        /\ IsrWatch!start \/ IsrWatch!stop \/ IsrWatch!reset \/ IsrWatch!tick
        /\ RunningWatch!start \/ RunningWatch!stop \/ RunningWatch!reset \/ RunningWatch!tick
        /\ MainWatch!start \/ MainWatch!stop \/ MainWatch!reset \/ MainWatch!tick
  BY <1>2, Timers
  DEF Watched, IsrWatch!start, IsrWatch!stop, IsrWatch!reset, IsrWatch!tick,
      RunningWatch!start, RunningWatch!stop, RunningWatch!reset, RunningWatch!tick,
      MainWatch!start, MainWatch!stop, MainWatch!reset, MainWatch!tick
<1>4. QED
  BY <1>1, <1>3, InitStat, NextStat, PTL
  DEF Spec, ImplementsStopwatch, IsrWatch!Spec, RunningWatch!Spec, MainWatch!Spec
==============================================================================

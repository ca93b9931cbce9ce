------------------------------ MODULE ShotPath ------------------------------
(***************************************************************************)
(* From the trigger to the laser: trigger.c and transmitter.c as the ISR   *)
(* ticks them, against a main program that enables the trigger, runs the   *)
(* transmitter and sets the frequency.  client says which main program:    *)
(*   "shooterMode" enables the trigger once, before the interrupts, and    *)
(*      reads the switches in every turn of its loop (main.c:178-225);     *)
(*   "continuousPowerMode" has no trigger and runs the transmitter in      *)
(*      every turn (main.c:99-145);                                        *)
(*   "trigger_runTest" enables the trigger all the time (trigger.c:115);   *)
(*   "transmitter_runTest" sets the frequency, runs the transmitter and    *)
(*      waits, over and over (transmitter.c:118).                          *)
(*                                                                         *)
(* isr_function() ticks the transmitter before the trigger: steps of their *)
(* own here, with the main program stopped until both are done.  An ISR    *)
(* takes less than its period of 10 us, so the main program takes at least *)
(* one step between two ISRs.  A test of transmitter_running() and the     *)
(* write that follows it are two steps of the main program.                *)
(***************************************************************************)
EXTENDS Naturals

CONSTANTS PULSE_LENGTH, freq, BeyondFreq, DEBOUNCE_TIME,
          Switches,  \* what switches_read() may return; 0 .. 15 on the board
          Clients    \* the main programs looked at

ASSUME PulseAssumption ==
  PULSE_LENGTH \in Nat \ {0} /\ PULSE_LENGTH < 65536  \* txCount is a uint16_t

ASSUME ShotPathAssumption ==
  /\ DEBOUNCE_TIME \in Nat \ {0}
  /\ DOMAIN freq \subseteq 0 .. 255 /\ \A f \in DOMAIN freq : freq[f] \in 1 .. 255
  /\ BeyondFreq \subseteq 0 .. 255
  /\ Switches \subseteq Nat
  /\ Clients \subseteq {"shooterMode", "continuousPowerMode", "trigger_runTest",
                        "transmitter_runTest"}

VARIABLES client,
          txState, txEnable, txCount, freqIndex, jf1,          \* Transmitter
          triggerState, trigEnable, trigCount, ignoreGunInput, \* Trigger
          gun, btn0,      \* the inputs, read once per tick
          isrPc,          \* "none", or the tick function that comes next
          isrFlagGlobal,
          mainRan,        \* main took a step since the last ISR
          mainPc,
          switchValue,    \* main's local variable
          pull,           \* no variables of the program, but a record of the
          wasPressed      \* pulls: see recordPull

Tx == INSTANCE Transmitter
Trig == INSTANCE Trigger

tx == <<txState, txEnable, txCount, freqIndex, jf1>>
trig == <<triggerState, trigEnable, trigCount, ignoreGunInput>>
isr == <<isrPc, isrFlagGlobal>>
pulls == <<pull, wasPressed>>
vars == <<client, tx, trig, gun, btn0, isr, mainRan, mainPc, switchValue, pulls>>

Init ==
  /\ client \in Clients
  /\ Tx!Init
  /\ Trig!Init
  /\ gun \in BOOLEAN /\ btn0 \in BOOLEAN
  /\ isrPc = "none" /\ isrFlagGlobal = 0
  /\ mainRan = TRUE
  /\ mainPc = IF client = "shooterMode" THEN "init" ELSE "poll"
  /\ switchValue = 0
  /\ pull = 0 /\ wasPressed = FALSE
-----------------------------------------------------------------------------
\* shooterMode lets the ARM see interrupts after it has set up the trigger; no
\* client sees any after its loop.
armIntsEnabled ==
  /\ mainPc \notin {"init", "done"}
  /\ client = "shooterMode" => mainPc \notin {"enableTest", "enableWrite"}

\* A slip: the trigger is ticked first.
followedByTriggerFirst ==
  [timerIsr |-> "trigger_tick", trigger_tick |-> "transmitter_tick",
   transmitter_tick |-> "none"]

\* The order of the calls in isr_function().
followedBy ==
  [timerIsr |-> "transmitter_tick", transmitter_tick |-> "trigger_tick",
   trigger_tick |-> "none"]

timerIsr ==
  /\ isrPc = "none" /\ armIntsEnabled
  /\ mainRan /\ mainRan' = FALSE
  /\ gun' \in BOOLEAN /\ btn0' \in BOOLEAN
  /\ isrFlagGlobal' = 1
  /\ isrPc' = followedBy["timerIsr"]
  /\ UNCHANGED <<client, tx, trig, mainPc, switchValue, pulls>>

\* pull is 0, or the ticks of the trigger from the first pull since the last
\* pulse began, counted up to the DEBOUNCE_TIME + 1 that a shot takes.
\* A trigger held at the first tick counts as pulled there.
PulseBegins == txState = "init_st" /\ txState' # "init_st"

recordPulse == pull' = (IF PulseBegins THEN 0 ELSE pull) /\ UNCHANGED wasPressed

recordPull ==
  /\ wasPressed' = Trig!triggerPressed
  /\ pull' = IF pull = 0 THEN IF Trig!triggerPressed /\ ~wasPressed THEN 1 ELSE 0
             ELSE IF pull > DEBOUNCE_TIME THEN pull ELSE pull + 1

transmitter_tick ==
  /\ isrPc = "transmitter_tick"
  /\ Tx!transmitter_tick
  /\ recordPulse
  /\ isrPc' = followedBy["transmitter_tick"]
  /\ UNCHANGED <<client, trig, gun, btn0, isrFlagGlobal, mainRan, mainPc,
                 switchValue>>

trigger_tick ==
  /\ isrPc = "trigger_tick"
  /\ Trig!trigger_tick
  /\ recordPull
  /\ isrPc' = followedBy["trigger_tick"]
  /\ UNCHANGED <<client, txState, txCount, freqIndex, jf1, gun, btn0,
                 isrFlagGlobal, mainRan, mainPc, switchValue>>

\* A step of the main program, which an ISR holds up.
goto(from, to) ==
  /\ isrPc = "none"
  /\ mainPc = from /\ mainPc' = to
  /\ mainRan' = TRUE
  /\ UNCHANGED <<client, pulls>>

trigger_init ==
  /\ goto("init", "enableTest")
  /\ Trig!trigger_init
  /\ UNCHANGED <<tx, gun, btn0, isr, switchValue>>

\* A slip: the trigger is enabled whether the transmitter runs or not.
enableUntested ==
  /\ goto("enableTest", "enableWrite")
  /\ UNCHANGED <<tx, trig, gun, btn0, isr, switchValue>>

\* trigger_enable(): the test, then the write.
enableTest ==
  /\ goto("enableTest", IF Tx!transmitter_running THEN "poll" ELSE "enableWrite")
  /\ UNCHANGED <<tx, trig, gun, btn0, isr, switchValue>>

enableWrite ==
  /\ goto("enableWrite", "poll")
  /\ Trig!setEnableFlag
  /\ UNCHANGED <<tx, gun, btn0, isr, switchValue>>

\* trigger_runTest turns round to trigger_enable(), transmitter_runTest to its
\* switches.
enableAgain ==
  /\ client = "trigger_runTest"
  /\ goto("poll", "enableTest")
  /\ UNCHANGED <<tx, trig, gun, btn0, isr, switchValue>>

setAgain ==
  /\ client = "transmitter_runTest"
  /\ goto("poll", "readSwitches")
  /\ UNCHANGED <<tx, trig, gun, btn0, isr, switchValue>>

\* The modes wait for an interrupt, transmitter_runTest for its delay to end.
pollAgain ==
  /\ \/ client = "transmitter_runTest"
     \/ client # "trigger_runTest" /\ isrFlagGlobal = 0
  /\ goto("poll", "poll")
  /\ UNCHANGED <<tx, trig, gun, btn0, isr, switchValue>>

\* An interrupt has occurred.  continuousPowerMode runs the transmitter.
poll ==
  /\ client \in {"shooterMode", "continuousPowerMode"} /\ isrFlagGlobal = 1
  /\ goto("poll", "resetFlag")
  /\ IF client = "shooterMode" THEN UNCHANGED tx ELSE Tx!transmitter_run
  /\ UNCHANGED <<trig, gun, btn0, isr, switchValue>>

resetFlag ==
  /\ goto("resetFlag", "detector")
  /\ isrFlagGlobal' = 0
  /\ UNCHANGED <<tx, trig, gun, btn0, isrPc, switchValue>>

\* detector() and the display leave all of this alone, for as long as they take.
\* continuousPowerMode reads the switches only when it has updated the display.
detector ==
  /\ \/ goto("detector", "detector")
     \/ goto("detector", "readSwitches")
     \/ client = "continuousPowerMode" /\ goto("detector", "poll")
  /\ UNCHANGED <<tx, trig, gun, btn0, isr, switchValue>>

readSwitches ==
  /\ goto("readSwitches", "setTest")
  /\ switchValue' \in Switches
  /\ UNCHANGED <<tx, trig, gun, btn0, isr>>

\* What follows transmitter_setFrequencyNumber().
afterSet == IF client = "transmitter_runTest" THEN "run" ELSE "poll"

\* A slip: the frequency is set whether the transmitter runs or not.
setUntested ==
  /\ goto("setTest", "setWrite")
  /\ UNCHANGED <<tx, trig, gun, btn0, isr, switchValue>>

\* transmitter_setFrequencyNumber(switchValue): the test, then the write.
setTest ==
  /\ goto("setTest", IF Tx!transmitter_running THEN afterSet ELSE "setWrite")
  /\ UNCHANGED <<tx, trig, gun, btn0, isr, switchValue>>

setWrite ==
  /\ goto("setWrite", afterSet)
  /\ Tx!setFreqIndex(switchValue)
  /\ UNCHANGED <<txState, txEnable, txCount, jf1, trig, gun, btn0, isr, switchValue>>

run ==
  /\ goto("run", "poll")
  /\ Tx!transmitter_run
  /\ UNCHANGED <<trig, gun, btn0, isr, switchValue>>

\* btn3 or, in transmitter_runTest, any button ends the loop.
exit ==
  /\ goto("poll", "done")
  /\ UNCHANGED <<tx, trig, gun, btn0, isr, switchValue>>

mainStep == trigger_init \/ enableTest \/ enableWrite \/ enableAgain \/ setAgain
            \/ pollAgain \/ poll \/ resetFlag \/ detector \/ readSwitches
            \/ setTest \/ setWrite \/ run

isr_function == timerIsr \/ transmitter_tick \/ trigger_tick

Next == isr_function \/ mainStep \/ exit

Spec == Init /\ [][Next]_vars

\* The timer interrupts forever; the main program runs between two ISRs.
FairSpec == Spec /\ WF_vars(isr_function) /\ SF_vars(mainStep)
-----------------------------------------------------------------------------
TypeOK ==
  /\ client \in Clients
  /\ Tx!TypeOK
  /\ Trig!TypeOK
  /\ gun \in BOOLEAN /\ btn0 \in BOOLEAN
  /\ isrPc \in {"none", "transmitter_tick", "trigger_tick"}
  /\ isrFlagGlobal \in {0, 1}
  /\ mainRan \in BOOLEAN
  /\ mainPc \in {"init", "enableTest", "enableWrite", "poll", "resetFlag",
                 "detector", "readSwitches", "setTest", "setWrite", "run", "done"}
  /\ switchValue \in Switches \cup {0}
  /\ pull \in 0 .. DEBOUNCE_TIME + 1
  /\ wasPressed \in BOOLEAN

\* The frequency never changes under a running pulse although main tests and
\* writes in two steps: a pulse run in between starts one ISR later, after the
\* write.  Only the order of the two ticks makes that so. (transmitter.c:61-64,
\* isr.c:77-80)
FrequencyFixed == Tx!FrequencyFixed

\* So every pulse is an unbroken square wave. (transmitter.c:92-110)
SquareWave == Tx!SquareWave

\* An idle transmitter never leaves the laser lit, and a transmitter out of
\* init_st is enabled, so that everybody sees it running.
LaserOffWhenIdle == Tx!PulseInv

\* A pulse lasts PULSE_LENGTH ticks, also when transmitter_run() is called again
\* during it. (transmitter.c:48)
PulseImplementsTimer == Tx!ImplementsTimer

\* A shot never falls into the pulse of an earlier one: the transmitter is idle
\* when the trigger runs it. (trigger.c:48-51, 90-93)
ShotFindsTransmitterIdle ==
  [][triggerState = "press_st" /\ triggerState' = "waitRelease_st"
     => ~txEnable /\ txEnable']_vars

\* No pulse without a pull of its own: when the trigger is what runs the
\* transmitter, every pulse has been preceded, since the one before it began, by
\* a change of the trigger from released to pressed, and that a full debounce
\* time ago.  One pull never gives two pulses, and neither timer starts anything
\* by itself. (trigger.c:83-108, transmitter.c:85-105)
PulseComesFromPull ==
  [][PulseBegins /\ client \in {"shooterMode", "trigger_runTest"}
     => pull = DEBOUNCE_TIME + 1]_vars

\* A debounced press is a shot unless the mode is left.
PressShoots == triggerState = "press_st" ~> jf1 = 1 \/ mainPc = "done"

\* The laser goes off unless the mode is left, which stops the ticks.
PinGoesLow == jf1 = 1 ~> jf1 = 0 \/ mainPc = "done"

\* main.c:179 "Makes the trigger state machine responsive to the trigger."
TriggerIsResponsive ==
  client = "shooterMode" /\ mainPc = "poll" /\ triggerState = "init_st" => trigEnable
=============================================================================

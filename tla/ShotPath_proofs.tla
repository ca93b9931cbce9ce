--------------------------- MODULE ShotPath_proofs ---------------------------
(***************************************************************************)
(* Theorems about ShotPath for every pulse length, debounce time, table of *)
(* half periods, set of switch values and set of clients.  Main tests      *)
(* transmitter_running() in one step and writes in the next; one ISR fits  *)
(* in between.  SetInv and EnableInv say what that ISR can have done by    *)
(* the time of the write; the rest of IInv is what they need.              *)
(***************************************************************************)
EXTENDS ShotPath, Integers, TLAPS

TriggerClients == {"shooterMode", "trigger_runTest"}

\* Main does not get on while an ISR runs.
IsrInv == isrPc # "none" => ~mainRan

\* Only two of the clients use the trigger, and the others run the transmitter
\* themselves.
ClientInv ==
  /\ trigEnable \/ triggerState # "init_st"
       \/ mainPc \in {"init", "enableTest", "enableWrite"}
     => client \in TriggerClients
  /\ mainPc = "run" => client \notin TriggerClients

\* When main is about to write the frequency no pulse has begun: if the
\* transmitter was run since the test, the ISR that did so is over and ticked
\* the transmitter before.
SetInv ==
  mainPc = "setWrite" =>
    /\ txState = "init_st"
    /\ txEnable => ~mainRan /\ isrPc # "transmitter_tick"

\* When main is about to enable the trigger and the transmitter was run since
\* the test, the trigger has just shot.
EnableInv ==
  mainPc = "enableWrite" /\ txEnable =>
    ~mainRan /\ isrPc = "none" /\ triggerState = "waitRelease_st"

\* An enabled trigger that has not shot yet has an idle transmitter before it.
TrigInv ==
  /\ triggerState \in {"waitPress_st", "press_st"} => trigEnable
  /\ trigEnable /\ triggerState \notin {"waitRelease_st", "release_st"} => ~txEnable

\* What the record of the pulls says of the two timers when the trigger is what
\* runs the transmitter: a trigger seen pressed, unless it is still held from the
\* last shot, has been pulled since the last pulse began; the debounce count is
\* behind the record; and a transmitter run but not started was run by the shot
\* that made the record complete.
PullInv ==
  client \in TriggerClients =>
    /\ triggerState # "waitRelease_st" /\ wasPressed => pull > 0
    /\ triggerState = "press_st" => pull > trigCount
    /\ txEnable /\ txState = "init_st" =>
         /\ pull = DEBOUNCE_TIME + 1
         /\ triggerState = "waitRelease_st"
         /\ isrPc # "trigger_tick"

Control == IsrInv /\ ClientInv /\ SetInv /\ EnableInv /\ TrigInv /\ PullInv

IInv == TypeOK /\ Tx!PulseInv /\ Control /\ SquareWave
-----------------------------------------------------------------------------
(* The transmitter.                                                         *)

\* All that a step does to the transmitter: run it, tick it, set its frequency.
LEMMA TxAction ==
  ASSUME [Next]_vars
  PROVE \/ txEnable' = TRUE /\ UNCHANGED <<txState, txCount, freqIndex, jf1>>
        \/ Tx!transmitter_tick
        \/ setWrite
        \/ UNCHANGED tx
<1>1. CASE isr_function
  <2>1. CASE timerIsr
    BY <2>1 DEF timerIsr
  <2>2. CASE transmitter_tick
    BY <2>2 DEF transmitter_tick
  <2>3. CASE trigger_tick
    BY <2>3 DEF trigger_tick, tx, Trig!trigger_tick, Trig!tickWait, Trig!tickListen,
                Trig!tickPressed, Trig!tickDebounce, Trig!tickShoot,
                Trig!tickReleased, Trig!tickDone
  <2>4. QED BY <1>1, <2>1, <2>2, <2>3 DEF isr_function
<1>2. CASE poll \/ run
  BY <1>2 DEF poll, run, Tx!transmitter_run
<1>3. CASE setWrite
  BY <1>3
<1>4. CASE trigger_init \/ enableTest \/ enableWrite \/ enableAgain \/ setAgain
           \/ pollAgain \/ resetFlag \/ detector \/ readSwitches \/ setTest \/ exit
  BY <1>4 DEF trigger_init, enableTest, enableWrite, enableAgain, setAgain,
              pollAgain, resetFlag, detector, readSwitches, setTest, exit
<1>5. CASE UNCHANGED vars
  BY <1>5 DEF vars
<1>6. QED BY <1>1, <1>2, <1>3, <1>4, <1>5 DEF Next, mainStep

LEMMA PulseLength == PULSE_LENGTH \in Nat /\ PULSE_LENGTH > 0
BY PulseAssumption

\* A tick keeps what the transmitter keeps true of itself.
LEMMA TxTickInv ==
  ASSUME Tx!TypeOK, Tx!PulseInv, Tx!transmitter_tick
  PROVE Tx!TypeOK' /\ Tx!PulseInv' /\ freqIndex' = freqIndex
<1>1. CASE Tx!tickIdle
  BY <1>1 DEF Tx!tickIdle, Tx!vars, Tx!TypeOK, Tx!PulseInv
<1>2. CASE Tx!tickStart
  <2>1. /\ txState' = "high_st" /\ jf1' = 1 /\ txCount' = 0
        /\ txEnable' = txEnable /\ freqIndex' = freqIndex /\ txEnable
    BY <1>2 DEF Tx!tickStart
  <2>2. txCount' \in 0 .. PULSE_LENGTH /\ txCount' < PULSE_LENGTH
    <3>1. txCount' = 0
      BY <2>1
    <3>2. QED BY <3>1, PulseLength
  <2>3. Tx!TypeOK'
    <3>1. /\ txState' \in {"init_st", "high_st", "low_st"}
          /\ jf1' \in {0, 1} /\ freqIndex' \in 0 .. 255
      BY <2>1 DEF Tx!TypeOK
    <3>2. txEnable' \in BOOLEAN
      BY <2>1, Zenon DEF Tx!TypeOK
    <3>3. QED BY <2>2, <3>1, <3>2 DEF Tx!TypeOK
  <2>4. Tx!PulseInv'
    BY <2>1, <2>2, Zenon DEF Tx!PulseInv
  <2>5. QED BY <2>1, <2>3, <2>4
<1>3. CASE Tx!tickEnd
  <2>1. /\ txState' = "init_st" /\ jf1' = 0 /\ txEnable' = FALSE
        /\ freqIndex' = freqIndex /\ 0 # 1
    BY <1>3 DEF Tx!tickEnd
  <2>2. txCount' \in 0 .. PULSE_LENGTH
    BY <1>3, PulseLength DEF Tx!tickEnd
  <2>3. Tx!TypeOK'
    <3>1. /\ txState' \in {"init_st", "high_st", "low_st"}
          /\ jf1' \in {0, 1} /\ freqIndex' \in 0 .. 255
      BY <2>1 DEF Tx!TypeOK
    <3>2. txEnable' \in BOOLEAN
      BY <2>1, Zenon DEF Tx!TypeOK
    <3>3. QED BY <2>2, <3>1, <3>2 DEF Tx!TypeOK
  <2>4. Tx!PulseInv'
    BY <2>1, <2>2, Zenon DEF Tx!PulseInv
  <2>5. QED BY <2>1, <2>3, <2>4
<1>4. CASE Tx!tickToggle \/ Tx!tickStay
  <2>1. txCount' \in 0 .. PULSE_LENGTH /\ txCount' < PULSE_LENGTH
    BY <1>4, PulseLength DEF Tx!tickToggle, Tx!tickStay, Tx!TypeOK, Tx!PulseInv
  <2>2. /\ txEnable /\ txEnable' = txEnable /\ freqIndex' = freqIndex
        /\ txState' \in {"high_st", "low_st"} /\ jf1' \in {0, 1}
        /\ jf1' = 1 <=> txState' = "high_st"
    BY <1>4 DEF Tx!tickToggle, Tx!tickStay, Tx!TypeOK, Tx!PulseInv
  <2>3. Tx!TypeOK'
    <3>1. /\ txState' \in {"init_st", "high_st", "low_st"}
          /\ jf1' \in {0, 1} /\ freqIndex' \in 0 .. 255
      BY <2>2 DEF Tx!TypeOK
    <3>2. txEnable' \in BOOLEAN
      BY <2>2, Zenon DEF Tx!TypeOK
    <3>3. QED BY <2>1, <3>1, <3>2 DEF Tx!TypeOK
  <2>4. Tx!PulseInv'
    BY <2>1, <2>2, Zenon DEF Tx!PulseInv
  <2>5. QED BY <2>2, <2>3, <2>4
<1>5. QED BY <1>1, <1>2, <1>3, <1>4 DEF Tx!transmitter_tick

LEMMA TxInv ==
  ASSUME Tx!TypeOK, Tx!PulseInv, switchValue \in Switches \cup {0}, [Next]_vars
  PROVE Tx!TypeOK' /\ Tx!PulseInv'
<1>1. CASE txEnable' = TRUE /\ UNCHANGED <<txState, txCount, freqIndex, jf1>>
  BY <1>1, Zenon DEF Tx!TypeOK, Tx!PulseInv
<1>2. CASE Tx!transmitter_tick
  BY <1>2, TxTickInv
<1>3. CASE setWrite
  <2>1. freqIndex' = switchValue % 256 /\ UNCHANGED <<txState, txEnable, txCount, jf1>>
    BY <1>3 DEF setWrite, Tx!setFreqIndex
  <2>2. switchValue \in Nat
    BY ShotPathAssumption
  <2>3. freqIndex' \in 0 .. 255
    BY <2>1, <2>2
  <2>4. QED BY <2>1, <2>3, Zenon DEF Tx!TypeOK, Tx!PulseInv
<1>4. CASE UNCHANGED tx
  BY <1>4, Zenon DEF tx, Tx!TypeOK, Tx!PulseInv
<1>5. QED BY <1>1, <1>2, <1>3, <1>4, TxAction

\* What a tick does to the countdown of the pulse, and what is left at its end.
LEMMA TxTickRemaining ==
  ASSUME Tx!TypeOK, Tx!PulseInv, Tx!transmitter_tick
  PROVE /\ Tx!remaining' = IF Tx!remaining = 0 THEN 0 ELSE Tx!remaining - 1
        /\ txState' # "init_st" <=> Tx!remaining' # 0
<1>0. PULSE_LENGTH \in Nat /\ PULSE_LENGTH > 0
  BY PulseLength
<1>1. CASE Tx!tickIdle
  BY <1>0, <1>1 DEF Tx!tickIdle, Tx!vars, Tx!remaining
<1>2. CASE Tx!tickStart
  BY <1>0, <1>2 DEF Tx!tickStart, Tx!remaining
<1>3. CASE Tx!tickEnd
  BY <1>0, <1>3 DEF Tx!tickEnd, Tx!TypeOK, Tx!PulseInv, Tx!remaining
<1>4. CASE Tx!tickToggle \/ Tx!tickStay
  BY <1>0, <1>4
     DEF Tx!tickToggle, Tx!tickStay, Tx!TypeOK, Tx!PulseInv, Tx!remaining
<1>5. QED BY <1>1, <1>2, <1>3, <1>4 DEF Tx!transmitter_tick

\* Running the transmitter starts the countdown, or does nothing to it.
LEMMA TxRunRefines ==
  ASSUME Tx!TypeOK, Tx!PulseInv,
         txEnable' = TRUE /\ UNCHANGED <<txState, txCount, freqIndex, jf1>>
  PROVE Tx!Timer!Start
<1>1. PULSE_LENGTH \in Nat /\ PULSE_LENGTH > 0
  BY PulseLength
<1>2. Tx!remaining \in Nat /\ (Tx!remaining = 0 <=> ~txEnable)
  BY <1>1 DEF Tx!TypeOK, Tx!PulseInv, Tx!remaining
<1>3. CASE txEnable
  BY <1>2, <1>3 DEF Tx!remaining, Tx!Timer!Start
<1>4. CASE ~txEnable
  BY <1>2, <1>4 DEF Tx!PulseInv, Tx!remaining, Tx!Timer!Start
<1>5. QED BY <1>3, <1>4

LEMMA TxStep ==
  ASSUME Tx!TypeOK, Tx!PulseInv, [Next]_vars
  PROVE [Tx!Timer!Next]_<<Tx!remaining, txState # "init_st">>
<1>1. CASE txEnable' = TRUE /\ UNCHANGED <<txState, txCount, freqIndex, jf1>>
  BY <1>1, TxRunRefines DEF Tx!Timer!Next
<1>2. CASE Tx!transmitter_tick
  BY <1>2, TxTickRemaining DEF Tx!Timer!Next, Tx!Timer!Tick
<1>3. CASE setWrite \/ UNCHANGED tx
  BY <1>3 DEF setWrite, tx, Tx!remaining
<1>4. QED BY <1>1, <1>2, <1>3, TxAction
-----------------------------------------------------------------------------
(* The trigger, and the rest of the state.                                  *)

OwnTypes ==
  /\ client \in Clients
  /\ gun \in BOOLEAN /\ btn0 \in BOOLEAN
  /\ isrPc \in {"none", "transmitter_tick", "trigger_tick"}
  /\ isrFlagGlobal \in {0, 1}
  /\ mainRan \in BOOLEAN
  /\ mainPc \in {"init", "enableTest", "enableWrite", "poll", "resetFlag",
                 "detector", "readSwitches", "setTest", "setWrite", "run", "done"}
  /\ switchValue \in Switches \cup {0}
  /\ pull \in 0 .. DEBOUNCE_TIME + 1
  /\ wasPressed \in BOOLEAN

\* Steps of main that touch neither the trigger nor the transmitter.
quietStep == enableTest \/ enableAgain \/ setAgain \/ pollAgain \/ resetFlag
             \/ detector \/ readSwitches \/ setTest \/ exit

LEMMA TrigTickType ==
  ASSUME Trig!TypeOK, gun \in BOOLEAN, btn0 \in BOOLEAN, Trig!trigger_tick
  PROVE Trig!TypeOK'
<1>1. CASE Trig!tickWait
  BY <1>1 DEF Trig!tickWait, Trig!trigger, Trig!TypeOK
<1>2. CASE Trig!tickListen
  BY <1>2 DEF Trig!tickListen, Trig!goto, Trig!TypeOK
<1>3. CASE Trig!tickPressed \/ Trig!tickReleased
  <2>1. trigCount' \in 0 .. DEBOUNCE_TIME
    BY <1>3, ShotPathAssumption DEF Trig!tickPressed, Trig!tickReleased
  <2>2. QED BY <1>3, <2>1, Zenon
            DEF Trig!tickPressed, Trig!tickReleased, Trig!goto, Trig!TypeOK
<1>4. CASE Trig!tickDebounce
  <2>1. trigCount' \in 0 .. DEBOUNCE_TIME
    BY <1>4, ShotPathAssumption DEF Trig!tickDebounce, Trig!TypeOK
  <2>2. QED BY <1>4, <2>1, Zenon DEF Trig!tickDebounce, Trig!TypeOK
<1>5. CASE Trig!tickShoot \/ Trig!tickDone
  <2>1. trigCount' \in 0 .. DEBOUNCE_TIME
    BY <1>5, ShotPathAssumption DEF Trig!tickShoot, Trig!tickDone
  <2>2. QED BY <1>5, <2>1, Zenon DEF Trig!tickShoot, Trig!tickDone, Trig!goto, Trig!TypeOK
<1>6. QED BY <1>1, <1>2, <1>3, <1>4, <1>5 DEF Trig!trigger_tick

LEMMA TrigType ==
  ASSUME Trig!TypeOK, OwnTypes, [Next]_vars
  PROVE Trig!TypeOK'
<1>1. CASE trigger_tick
  BY <1>1, TrigTickType DEF trigger_tick, OwnTypes
<1>2. CASE trigger_init
  <2>1. /\ UNCHANGED <<triggerState, trigEnable, trigCount>>
        /\ ignoreGunInput' = (ignoreGunInput \/ Trig!triggerPressed)
    BY <1>2 DEF trigger_init, Trig!trigger_init
  <2>2. ignoreGunInput' \in BOOLEAN
    BY <2>1 DEF Trig!TypeOK, Trig!triggerPressed, OwnTypes
  <2>3. QED BY <2>1, <2>2, Zenon DEF Trig!TypeOK
<1>3. CASE enableWrite
  BY <1>3, Zenon DEF enableWrite, Trig!setEnableFlag, Trig!TypeOK
<1>4. CASE timerIsr \/ transmitter_tick \/ poll \/ run \/ setWrite \/ quietStep
           \/ UNCHANGED vars
  <2>1. UNCHANGED trig
    BY <1>4 DEF timerIsr, transmitter_tick, poll, run, setWrite, quietStep, vars,
                enableTest, enableAgain, setAgain, pollAgain, resetFlag, detector,
                readSwitches, setTest, exit
  <2>2. QED BY <2>1, Zenon DEF trig, Trig!TypeOK
<1>5. QED BY <1>1, <1>2, <1>3, <1>4 DEF Next, isr_function, mainStep, quietStep

LEMMA PullTypes ==
  ASSUME OwnTypes, Trig!TypeOK, [Next]_vars
  PROVE pull' \in 0 .. DEBOUNCE_TIME + 1 /\ wasPressed' \in BOOLEAN
<1>1. CASE transmitter_tick
  <2>1. wasPressed' = wasPressed /\ pull' \in {0, pull}
    BY <1>1 DEF transmitter_tick, recordPulse
  <2>2. QED BY <2>1, ShotPathAssumption DEF OwnTypes
<1>2. CASE trigger_tick
  <2>1. pull' \in 0 .. DEBOUNCE_TIME + 1
    BY <1>2, ShotPathAssumption DEF trigger_tick, recordPull, OwnTypes
  <2>2. wasPressed' \in BOOLEAN
    BY <1>2 DEF trigger_tick, recordPull, Trig!triggerPressed, OwnTypes, Trig!TypeOK
  <2>3. QED BY <2>1, <2>2
<1>3. CASE timerIsr \/ mainStep \/ exit \/ UNCHANGED vars
  <2>1. UNCHANGED pulls
    BY <1>3 DEF timerIsr, vars, mainStep, goto, trigger_init, enableTest, enableWrite,
                enableAgain, setAgain, pollAgain, poll, resetFlag, detector,
                readSwitches, setTest, setWrite, run, exit
  <2>2. QED BY <2>1 DEF pulls, OwnTypes
<1>4. QED BY <1>1, <1>2, <1>3 DEF Next, isr_function

LEMMA OwnTypesStep ==
  ASSUME OwnTypes, Trig!TypeOK, [Next]_vars
  PROVE OwnTypes'
<1>0. pull' \in 0 .. DEBOUNCE_TIME + 1 /\ wasPressed' \in BOOLEAN
  BY PullTypes
<1>1. CASE timerIsr
  BY <1>0, <1>1, Zenon DEF timerIsr, followedBy, OwnTypes
<1>2. CASE transmitter_tick \/ trigger_tick
  <2>1. /\ UNCHANGED <<client, gun, btn0, isrFlagGlobal, mainRan, mainPc, switchValue>>
        /\ isrPc' \in {"none", "transmitter_tick", "trigger_tick"}
    BY <1>2 DEF transmitter_tick, trigger_tick, followedBy
  <2>2. QED BY <1>0, <2>1, Zenon DEF OwnTypes
<1>3. CASE mainStep \/ exit
  <2>1. /\ client' = client /\ gun' = gun /\ btn0' = btn0 /\ isrPc' = isrPc
        /\ mainRan' = TRUE /\ isrFlagGlobal' \in {isrFlagGlobal, 0}
    BY <1>3 DEF mainStep, goto, isr, trigger_init, enableTest, enableWrite,
                enableAgain, setAgain, pollAgain, poll, resetFlag, detector,
                readSwitches, setTest, setWrite, run, exit
  <2>2. mainPc' \in {"init", "enableTest", "enableWrite", "poll", "resetFlag",
                "detector", "readSwitches", "setTest", "setWrite", "run", "done"}
    BY <1>3 DEF mainStep, goto, afterSet, trigger_init, enableTest, enableWrite,
                enableAgain, setAgain, pollAgain, poll, resetFlag, detector,
                readSwitches, setTest, setWrite, run, exit
  <2>3. switchValue' \in Switches \cup {0}
    BY <1>3 DEF OwnTypes, mainStep, trigger_init, enableTest, enableWrite,
                enableAgain, setAgain, pollAgain, poll, resetFlag, detector,
                readSwitches, setTest, setWrite, run, exit
  <2>4. isrFlagGlobal' \in {0, 1}
    BY <2>1 DEF OwnTypes
  <2>5. QED BY <1>0, <2>1, <2>2, <2>3, <2>4, Zenon DEF OwnTypes
<1>4. CASE UNCHANGED vars
  BY <1>0, <1>4, Zenon DEF vars, isr, OwnTypes
<1>5. QED BY <1>1, <1>2, <1>3, <1>4 DEF Next, isr_function
-----------------------------------------------------------------------------
(* What main and the ISR know of each other.                                *)

LEMMA IsrInvStep ==
  ASSUME OwnTypes, IsrInv, [Next]_vars
  PROVE IsrInv'
<1>1. CASE timerIsr \/ transmitter_tick \/ trigger_tick
  BY <1>1 DEF timerIsr, transmitter_tick, trigger_tick, followedBy, IsrInv
<1>2. CASE mainStep \/ exit
  <2>1. isrPc' = "none"
    BY <1>2 DEF mainStep, goto, isr, trigger_init, enableTest, enableWrite,
                enableAgain, setAgain, pollAgain, poll, resetFlag, detector,
                readSwitches, setTest, setWrite, run, exit
  <2>2. QED BY <2>1 DEF IsrInv
<1>3. CASE UNCHANGED vars
  BY <1>3 DEF vars, isr, IsrInv
<1>4. QED BY <1>1, <1>2, <1>3 DEF Next, isr_function

LEMMA ClientInvStep ==
  ASSUME OwnTypes, ClientInv, [Next]_vars
  PROVE ClientInv'
<1>1. CASE timerIsr \/ transmitter_tick
  BY <1>1 DEF timerIsr, transmitter_tick, trig, ClientInv
<1>2. CASE trigger_tick
  <2>1. trigEnable' \/ triggerState' # "init_st"
        => trigEnable \/ triggerState # "init_st"
    BY <1>2 DEF trigger_tick, Trig!trigger_tick, Trig!trigger, Trig!tickWait,
                Trig!tickListen, Trig!tickPressed, Trig!tickDebounce,
                Trig!tickShoot, Trig!tickReleased, Trig!tickDone, Trig!goto
  <2>2. QED BY <1>2, <2>1 DEF trigger_tick, ClientInv
<1>3. CASE trigger_init \/ enableWrite
  BY <1>3 DEF trigger_init, enableWrite, goto, Trig!trigger_init,
              Trig!setEnableFlag, ClientInv
<1>4. CASE poll \/ setWrite \/ run
  BY <1>4 DEF poll, setWrite, run, goto, afterSet, trig, ClientInv, TriggerClients
<1>5. CASE quietStep
  BY <1>5 DEF quietStep, enableTest, enableAgain, setAgain, pollAgain, resetFlag,
              detector, readSwitches, setTest, exit, goto, afterSet, trig,
              ClientInv, TriggerClients
<1>6. CASE UNCHANGED vars
  BY <1>6 DEF vars, trig, ClientInv
<1>7. QED BY <1>1, <1>2, <1>3, <1>4, <1>5, <1>6
          DEF Next, isr_function, mainStep, quietStep

\* The ISR that runs the transmitter behind main's back has ticked it before.
LEMMA SetInvStep ==
  ASSUME OwnTypes, Tx!PulseInv, IsrInv, SetInv, [Next]_vars
  PROVE SetInv'
<1>1. CASE timerIsr
  BY <1>1 DEF timerIsr, tx, SetInv
<1>2. CASE transmitter_tick
  <2> SUFFICES ASSUME mainPc' = "setWrite"
               PROVE txState' = "init_st" /\ ~txEnable'
    BY DEF SetInv
  <2>1. mainPc = "setWrite" /\ isrPc = "transmitter_tick"
    BY <1>2 DEF transmitter_tick
  <2>2. txState = "init_st" /\ ~txEnable
    BY <2>1 DEF SetInv
  <2>3. QED BY <1>2, <2>2 DEF transmitter_tick, Tx!transmitter_tick, Tx!vars,
               Tx!tickIdle, Tx!tickStart, Tx!tickEnd, Tx!tickToggle, Tx!tickStay
<1>3. CASE trigger_tick
  BY <1>3 DEF trigger_tick, followedBy, IsrInv, SetInv
<1>4. CASE setTest
  BY <1>4 DEF setTest, goto, afterSet, tx, isr, Tx!transmitter_running,
              Tx!PulseInv, SetInv
<1>5. CASE trigger_init \/ enableTest \/ enableWrite \/ enableAgain \/ setAgain
           \/ pollAgain \/ poll \/ resetFlag \/ detector \/ readSwitches
           \/ setWrite \/ run \/ exit
  <2>1. mainPc' # "setWrite"
    BY <1>5 DEF trigger_init, enableTest, enableWrite, enableAgain, setAgain,
                pollAgain, poll, resetFlag, detector, readSwitches, setWrite, run,
                exit, goto, afterSet
  <2>2. QED BY <2>1 DEF SetInv
<1>6. CASE UNCHANGED vars
  BY <1>6 DEF vars, tx, isr, SetInv
<1>7. QED BY <1>1, <1>2, <1>3, <1>4, <1>5, <1>6 DEF Next, isr_function, mainStep

LEMMA EnableInvStep ==
  ASSUME OwnTypes, IsrInv, EnableInv, [Next]_vars
  PROVE EnableInv'
<1>1. CASE timerIsr
  BY <1>1 DEF timerIsr, tx, trig, EnableInv
<1>2. CASE transmitter_tick
  <2> SUFFICES ASSUME mainPc' = "enableWrite"
               PROVE ~txEnable'
    BY DEF EnableInv
  <2>1. mainPc = "enableWrite" /\ isrPc = "transmitter_tick"
    BY <1>2 DEF transmitter_tick
  <2>2. ~txEnable
    BY <2>1 DEF EnableInv
  <2>3. QED BY <1>2, <2>2 DEF transmitter_tick, Tx!transmitter_tick, Tx!vars,
               Tx!tickIdle, Tx!tickStart, Tx!tickEnd, Tx!tickToggle, Tx!tickStay
<1>3. CASE trigger_tick
  <2> SUFFICES ASSUME mainPc' = "enableWrite", txEnable'
               PROVE ~mainRan' /\ isrPc' = "none" /\ triggerState' = "waitRelease_st"
    BY DEF EnableInv
  <2>1. mainPc = "enableWrite" /\ isrPc = "trigger_tick"
    BY <1>3 DEF trigger_tick
  <2>2. ~mainRan' /\ isrPc' = "none"
    BY <1>3, <2>1 DEF trigger_tick, followedBy, IsrInv
  <2>3. ~txEnable
    BY <2>1 DEF EnableInv
  <2>4. triggerState' = "waitRelease_st"
    BY <1>3, <2>3 DEF trigger_tick, Trig!trigger_tick, Trig!trigger, Trig!tickWait,
                      Trig!tickListen, Trig!tickPressed, Trig!tickDebounce,
                      Trig!tickShoot, Trig!tickReleased, Trig!tickDone, Trig!goto
  <2>5. QED BY <2>2, <2>4
<1>4. CASE enableTest
  BY <1>4 DEF enableTest, goto, tx, Tx!transmitter_running, EnableInv
<1>5. CASE trigger_init \/ enableWrite \/ enableAgain \/ setAgain \/ pollAgain \/ poll
           \/ resetFlag \/ detector \/ readSwitches \/ setTest \/ setWrite \/ run
           \/ exit
  <2>1. mainPc' # "enableWrite"
    BY <1>5 DEF trigger_init, enableWrite, enableAgain, setAgain, pollAgain, poll,
                resetFlag, detector, readSwitches, setTest, setWrite, run, exit,
                goto, afterSet
  <2>2. QED BY <2>1 DEF EnableInv
<1>6. CASE UNCHANGED vars
  BY <1>6 DEF vars, tx, trig, isr, EnableInv
<1>7. QED BY <1>1, <1>2, <1>3, <1>4, <1>5, <1>6 DEF Next, isr_function, mainStep

\* A tick of the transmitter never enables it.
LEMMA TickNeverEnables ==
  ASSUME Tx!transmitter_tick
  PROVE txEnable' => txEnable
BY DEF Tx!transmitter_tick, Tx!vars, Tx!tickIdle, Tx!tickStart, Tx!tickEnd,
       Tx!tickToggle, Tx!tickStay

LEMMA TrigInvStep ==
  ASSUME OwnTypes, Trig!TypeOK, ClientInv, EnableInv, TrigInv, [Next]_vars
  PROVE TrigInv'
<1>1. CASE timerIsr
  BY <1>1 DEF timerIsr, tx, trig, TrigInv
<1>2. CASE transmitter_tick
  BY <1>2, TickNeverEnables DEF transmitter_tick, trig, TrigInv
<1>3. CASE trigger_tick
  <2>1. Trig!trigger_tick
    BY <1>3 DEF trigger_tick
  <2>2. CASE Trig!tickWait
    BY <2>2 DEF Trig!tickWait, Trig!trigger, TrigInv
  <2>3. CASE Trig!tickListen \/ Trig!tickPressed \/ Trig!tickDebounce
    BY <2>3 DEF Trig!tickListen, Trig!tickPressed, Trig!tickDebounce, Trig!goto, TrigInv
  <2>4. CASE Trig!tickShoot \/ Trig!tickReleased \/ Trig!tickDone
    BY <2>4 DEF Trig!tickShoot, Trig!tickReleased, Trig!tickDone, Trig!goto, TrigInv
  <2>5. QED BY <2>1, <2>2, <2>3, <2>4 DEF Trig!trigger_tick
<1>4. CASE trigger_init
  BY <1>4 DEF trigger_init, Trig!trigger_init, tx, TrigInv
<1>5. CASE enableWrite
  BY <1>5 DEF enableWrite, goto, Trig!setEnableFlag, tx, EnableInv, TrigInv
<1>6. CASE poll \/ run
  <2>1. UNCHANGED trig
    BY <1>6 DEF poll, run
  <2>2. CASE UNCHANGED tx
    BY <2>1, <2>2 DEF trig, tx, TrigInv
  <2>3. CASE client \notin TriggerClients
    BY <2>1, <2>3 DEF trig, ClientInv, TrigInv
  <2>4. QED BY <1>6, <2>2, <2>3 DEF poll, run, goto, ClientInv, TriggerClients
<1>7. CASE setWrite \/ quietStep \/ UNCHANGED vars
  <2>1. UNCHANGED <<trig, txEnable>>
    BY <1>7 DEF setWrite, quietStep, vars, tx, enableTest, enableAgain, setAgain,
                pollAgain, resetFlag, detector, readSwitches, setTest, exit
  <2>2. QED BY <2>1 DEF trig, TrigInv
<1>8. QED BY <1>1, <1>2, <1>3, <1>4, <1>5, <1>6, <1>7
          DEF Next, isr_function, mainStep, quietStep

\* A pulse can begin only in the transmitter's tick, and a transmitter that is run
\* and not started begins it there.
LEMMA PulseStart ==
  ASSUME [Next]_vars, PulseBegins
  PROVE transmitter_tick /\ txEnable
<1>1. /\ ~(txEnable' = TRUE /\ UNCHANGED <<txState, txCount, freqIndex, jf1>>)
      /\ ~setWrite /\ ~UNCHANGED tx
  BY DEF PulseBegins, setWrite, tx
<1>2. Tx!transmitter_tick
  BY <1>1, TxAction
<1>3. txEnable
  BY <1>2 DEF PulseBegins, Tx!transmitter_tick, Tx!vars, Tx!tickIdle, Tx!tickStart,
              Tx!tickEnd, Tx!tickToggle, Tx!tickStay
<1>4. CASE isr_function
  BY <1>3, <1>4 DEF isr_function, timerIsr, trigger_tick, tx, PulseBegins
<1>5. CASE mainStep \/ exit \/ UNCHANGED vars
  BY <1>5 DEF PulseBegins, tx, vars, mainStep, Tx!transmitter_run, trigger_init,
              enableTest, enableWrite, enableAgain, setAgain, pollAgain, poll,
              resetFlag, detector, readSwitches, setTest, setWrite, run, exit
<1>6. QED BY <1>4, <1>5 DEF Next

\* The tick of the trigger: a press opens a record, and a shot completes it.
LEMMA PullInvTick ==
  ASSUME OwnTypes, Trig!TypeOK, Tx!TypeOK, PullInv, trigger_tick
  PROVE PullInv'
<1> SUFFICES ASSUME client \in TriggerClients
             PROVE PullInv'
  BY DEF trigger_tick, PullInv
<1>1. /\ Trig!trigger_tick /\ txState' = txState /\ isrPc' = "none"
      /\ wasPressed' = Trig!triggerPressed
      /\ pull' = IF pull = 0 THEN IF Trig!triggerPressed /\ ~wasPressed THEN 1 ELSE 0
                 ELSE IF pull > DEBOUNCE_TIME THEN pull ELSE pull + 1
      /\ isrPc = "trigger_tick"
  BY DEF trigger_tick, recordPull, followedBy
<1>2. /\ pull \in 0 .. DEBOUNCE_TIME + 1 /\ trigCount \in 0 .. DEBOUNCE_TIME
      /\ DEBOUNCE_TIME \in Nat
  BY ShotPathAssumption DEF OwnTypes, Trig!TypeOK
<1>3. /\ triggerState # "waitRelease_st" /\ wasPressed => pull > 0
      /\ triggerState = "press_st" => pull > trigCount
      /\ ~(txEnable /\ txState = "init_st")
  BY <1>1 DEF PullInv
<1>4. triggerState' # "waitRelease_st" /\ wasPressed' => pull' > 0
  <2> SUFFICES ASSUME triggerState' # "waitRelease_st", Trig!triggerPressed
               PROVE pull' > 0
    BY <1>1
  <2>1. triggerState # "waitRelease_st"
    BY <1>1 DEF Trig!trigger_tick, Trig!trigger, Trig!tickWait, Trig!tickListen,
                Trig!tickPressed, Trig!tickDebounce, Trig!tickShoot,
                Trig!tickReleased, Trig!tickDone, Trig!goto
  <2>2. CASE wasPressed
    BY <1>1, <1>2, <1>3, <2>1, <2>2
  <2>3. CASE ~wasPressed
    BY <1>1, <1>2, <2>3
  <2>4. QED BY <2>2, <2>3
<1>5. triggerState' = "press_st" => pull' > trigCount'
  <2> SUFFICES ASSUME triggerState' = "press_st"
               PROVE pull' > trigCount'
    OBVIOUS
  <2>1. CASE Trig!tickPressed
    BY <1>1, <1>2, <1>4, <2>1 DEF Trig!tickPressed, Trig!goto
  <2>2. CASE Trig!tickDebounce
    <3>1. /\ triggerState = "press_st" /\ trigCount' = trigCount + 1
          /\ trigCount + 1 < DEBOUNCE_TIME
      BY <2>2 DEF Trig!tickDebounce
    <3>2. QED BY <1>1, <1>2, <1>3, <3>1
  <2>3. QED BY <1>1, <2>1, <2>2
            DEF Trig!trigger_tick, Trig!trigger, Trig!tickWait, Trig!tickListen,
                Trig!tickShoot, Trig!tickReleased, Trig!tickDone, Trig!goto
<1>6. txEnable' /\ txState' = "init_st" =>
        pull' = DEBOUNCE_TIME + 1 /\ triggerState' = "waitRelease_st"
  <2> SUFFICES ASSUME txEnable', txState' = "init_st"
               PROVE pull' = DEBOUNCE_TIME + 1 /\ triggerState' = "waitRelease_st"
    OBVIOUS
  <2>1. Trig!tickShoot
    BY <1>1, <1>3
       DEF Trig!trigger_tick, Trig!trigger, Trig!tickWait, Trig!tickListen,
           Trig!tickPressed, Trig!tickDebounce, Trig!tickReleased, Trig!tickDone
  <2>2. /\ triggerState = "press_st" /\ triggerState' = "waitRelease_st"
        /\ trigCount + 1 = DEBOUNCE_TIME
    BY <2>1 DEF Trig!tickShoot, Trig!goto
  <2>3. QED BY <1>1, <1>2, <1>3, <2>2
<1>7. QED BY <1>1, <1>4, <1>5, <1>6 DEF PullInv

LEMMA PullInvStep ==
  ASSUME OwnTypes, Trig!TypeOK, Tx!TypeOK, ClientInv, PullInv, [Next]_vars
  PROVE PullInv'
<1>1. CASE timerIsr
  BY <1>1 DEF timerIsr, followedBy, tx, trig, pulls, PullInv
<1>2. CASE transmitter_tick
  <2>0. /\ UNCHANGED <<client, trig, wasPressed>>
        /\ pull' = IF PulseBegins THEN 0 ELSE pull
    BY <1>2 DEF transmitter_tick, recordPulse
  <2>1. ~(txEnable' /\ txState' = "init_st")
    BY <1>2 DEF transmitter_tick, Tx!transmitter_tick, Tx!vars, Tx!TypeOK,
                Tx!tickIdle, Tx!tickStart, Tx!tickEnd, Tx!tickToggle, Tx!tickStay
  <2>2. CASE PulseBegins
    <3>1. txEnable /\ txState = "init_st"
      BY <2>2, PulseStart DEF PulseBegins
    <3>2. QED BY <2>0, <2>1, <3>1 DEF PullInv, trig
  <2>3. CASE ~PulseBegins
    BY <2>0, <2>1, <2>3 DEF PullInv, trig
  <2>4. QED BY <2>2, <2>3
<1>3. CASE trigger_tick
  BY <1>3, PullInvTick
<1>4. CASE poll \/ run
  <2>1. /\ UNCHANGED <<client, trig, pulls, isrPc>>
        /\ client \in TriggerClients => UNCHANGED tx
    BY <1>4 DEF poll, run, goto, isr, ClientInv, TriggerClients
  <2>2. QED BY <2>1 DEF PullInv, trig, pulls, tx
<1>5. CASE trigger_init \/ enableWrite \/ setWrite \/ quietStep \/ UNCHANGED vars
  <2>1. UNCHANGED <<client, triggerState, trigCount, txEnable, txState, pulls, isrPc>>
    BY <1>5 DEF trigger_init, enableWrite, setWrite, quietStep, vars, tx, trig, isr,
                goto, Trig!trigger_init, Trig!setEnableFlag, enableTest,
                enableAgain, setAgain, pollAgain, resetFlag, detector,
                readSwitches, setTest, exit
  <2>2. QED BY <2>1 DEF PullInv, pulls
<1>6. QED BY <1>1, <1>2, <1>3, <1>4, <1>5
          DEF Next, isr_function, mainStep, quietStep
-----------------------------------------------------------------------------
(* The square wave.                                                         *)

LEMMA Division ==
  ASSUME NEW n \in Nat, NEW p \in Nat \ {0}
  PROVE n \div p \in Nat /\ n % p \in 0 .. p - 1 /\ n = p * (n \div p) + (n % p)
OBVIOUS

\* Two multiples of p less than p apart are the same.
LEMMA Unique ==
  ASSUME NEW q \in Int, NEW p \in Nat \ {0}, NEW s \in Int, NEW d \in Int,
         d \in 1 - p .. p - 1, p * q = p * s + d
  PROVE q = s
<1>1. p * (q - s) = d
  OBVIOUS
<1>2. CASE q - s >= 1
  <2>1. p * (q - s) >= p
    BY <1>2
  <2>2. QED BY <1>1, <2>1
<1>3. CASE q - s <= -1
  <2>1. p * (q - s) <= -p
    BY <1>3
  <2>2. QED BY <1>1, <2>1
<1>4. QED BY <1>2, <1>3

\* The half period is over exactly when the count is a multiple of its length.
LEMMA HalfPeriod ==
  ASSUME NEW n \in Nat, NEW p \in Nat \ {0}
  PROVE IF (n + 1) % p = 0 THEN (n + 1) \div p = n \div p + 1
                           ELSE (n + 1) \div p = n \div p
<1>1. n \div p \in Nat /\ n % p \in 0 .. p - 1 /\ n = p * (n \div p) + (n % p)
  BY Division
<1>2. /\ (n + 1) \div p \in Nat /\ (n + 1) % p \in 0 .. p - 1
      /\ n + 1 = p * ((n + 1) \div p) + ((n + 1) % p)
  <2>1. PICK m \in Nat : m = n + 1
    OBVIOUS
  <2>2. m \div p \in Nat /\ m % p \in 0 .. p - 1 /\ m = p * (m \div p) + (m % p)
    BY Division
  <2>3. QED BY <2>1, <2>2
<1>3. CASE (n + 1) % p = 0
  <2>1. p * ((n + 1) \div p) = p * (n \div p + 1) + ((n % p) + 1 - p)
    BY <1>1, <1>2, <1>3
  <2>2. (n % p) + 1 - p \in 1 - p .. p - 1
    BY <1>1
  <2>3. (n + 1) \div p = n \div p + 1
    BY <1>1, <1>2, <2>1, <2>2, Unique
  <2>4. QED BY <1>3, <2>3
<1>4. CASE (n + 1) % p # 0
  <2>1. p * ((n + 1) \div p) = p * (n \div p) + ((n % p) + 1 - ((n + 1) % p))
    BY <1>1, <1>2
  <2>2. (n % p) + 1 - ((n + 1) % p) \in 1 - p .. p - 1
    BY <1>1, <1>2, <1>4
  <2>3. (n + 1) \div p = n \div p
    BY <1>1, <1>2, <2>1, <2>2, Unique
  <2>4. QED BY <1>4, <2>3
<1>5. QED BY <1>3, <1>4

\* A half period that is over changes its parity.
LEMMA NextParity ==
  ASSUME NEW k \in Nat
  PROVE (k + 1) % 2 = 0 <=> k % 2 # 0
OBVIOUS

LEMMA SquareWaveTick ==
  ASSUME Tx!TypeOK, Tx!PulseInv, SquareWave, Tx!transmitter_tick
  PROVE SquareWave'
<1> SUFFICES ASSUME txState' # "init_st", freqIndex' \in DOMAIN freq
             PROVE jf1' = 1 <=> (txCount' \div freq[freqIndex']) % 2 = 0
  BY DEF SquareWave, Tx!SquareWave
<1>1. freqIndex' = freqIndex
  BY TxTickInv
<1>2. freqIndex \in DOMAIN freq
  BY <1>1
<1>3. freq[freqIndex] \in Nat \ {0} /\ txCount \in Nat
  <2>1. \A f \in DOMAIN freq : freq[f] \in 1 .. 255
    BY ShotPathAssumption
  <2>2. freq[freqIndex] \in 1 .. 255
    BY <1>2, <2>1, Zenon
  <2>3. txCount \in 0 .. PULSE_LENGTH
    BY DEF Tx!TypeOK
  <2>4. txCount \in Nat
    BY <2>3, ShotPathAssumption
  <2>5. QED BY <2>2, <2>4
<1>4. Tx!halfPeriods = {freq[freqIndex]}
  BY <1>2 DEF Tx!halfPeriods
<1>5. CASE Tx!tickIdle
  BY <1>5 DEF Tx!tickIdle, Tx!vars
<1>6. CASE Tx!tickStart
  <2>1. jf1' = 1 /\ txCount' = 0
    BY <1>6 DEF Tx!tickStart
  <2>2. 0 \div freq[freqIndex] = 0 /\ 0 % 2 = 0
    <3>1. PICK p \in Nat \ {0} : p = freq[freqIndex]
      BY <1>3
    <3>2. 0 \div p = 0 /\ 0 % 2 = 0
      OBVIOUS
    <3>3. QED BY <3>1, <3>2
  <2>3. QED BY <1>1, <2>1, <2>2
<1>7. CASE Tx!tickEnd
  BY <1>7 DEF Tx!tickEnd
<1>8. CASE Tx!tickToggle \/ Tx!tickStay
  <2>1. txState # "init_st" /\ txCount' = txCount + 1
    BY <1>8 DEF Tx!tickToggle, Tx!tickStay
  <2>2. jf1 = 1 <=> (txCount \div freq[freqIndex]) % 2 = 0
    BY <1>2, <2>1 DEF SquareWave, Tx!SquareWave
  <2>3. txCount \div freq[freqIndex] \in Nat
    BY <1>3, Division
  <2>4. CASE Tx!tickToggle
    <3>1. (txCount + 1) % freq[freqIndex] = 0
      BY <1>3, <1>4, <2>1, <2>4 DEF Tx!tickToggle, Tx!mayToggle
    <3>2. (txCount + 1) \div freq[freqIndex] = txCount \div freq[freqIndex] + 1
      BY <1>3, <3>1, HalfPeriod
    <3>3. jf1' = 1 <=> jf1 # 1
      BY <2>1, <2>4 DEF Tx!tickToggle, Tx!TypeOK, Tx!PulseInv
    <3>4. (txCount \div freq[freqIndex] + 1) % 2 = 0
          <=> (txCount \div freq[freqIndex]) % 2 # 0
      BY <2>3, NextParity
    <3>5. QED BY <1>1, <2>1, <2>2, <3>2, <3>3, <3>4
  <2>5. CASE Tx!tickStay
    <3>1. (txCount + 1) % freq[freqIndex] # 0
      BY <1>3, <1>4, <2>1, <2>5 DEF Tx!tickStay, Tx!mayStay
    <3>2. (txCount + 1) \div freq[freqIndex] = txCount \div freq[freqIndex]
      BY <1>3, <3>1, HalfPeriod
    <3>3. jf1' = jf1
      BY <2>5 DEF Tx!tickStay
    <3>4. QED BY <1>1, <2>1, <2>2, <3>2, <3>3
  <2>6. QED BY <1>8, <2>4, <2>5
<1>9. QED BY <1>5, <1>6, <1>7, <1>8 DEF Tx!transmitter_tick

LEMMA SquareWaveStep ==
  ASSUME Tx!TypeOK, Tx!PulseInv, SetInv, SquareWave, [Next]_vars
  PROVE SquareWave'
<1>1. CASE txEnable' = TRUE /\ UNCHANGED <<txState, txCount, freqIndex, jf1>>
  BY <1>1 DEF SquareWave, Tx!SquareWave
<1>2. CASE Tx!transmitter_tick
  BY <1>2, SquareWaveTick
<1>3. CASE setWrite
  BY <1>3 DEF setWrite, goto, SetInv, SquareWave, Tx!SquareWave
<1>4. CASE UNCHANGED tx
  BY <1>4 DEF tx, SquareWave, Tx!SquareWave
<1>5. QED BY <1>1, <1>2, <1>3, <1>4, TxAction
-----------------------------------------------------------------------------
LEMMA InitInv == Init => IInv
<1> SUFFICES ASSUME Init
             PROVE IInv
  OBVIOUS
<1>1. Tx!TypeOK /\ Tx!PulseInv
  <2>1. /\ txState = "init_st" /\ txEnable = FALSE /\ freqIndex = 0 /\ jf1 = 0
        /\ 0 # 1 /\ 0 \in 0 .. 255
    BY DEF Init, Tx!Init
  <2>2. txCount \in 0 .. PULSE_LENGTH
    BY PulseLength DEF Init, Tx!Init
  <2>3. QED BY <2>1, <2>2, Zenon DEF Tx!TypeOK, Tx!PulseInv
<1>2. Trig!TypeOK
  <2>1. /\ triggerState = "init_st" /\ trigEnable = FALSE
        /\ ignoreGunInput = FALSE
    BY DEF Init, Trig!Init
  <2>2. trigCount \in 0 .. DEBOUNCE_TIME
    BY ShotPathAssumption DEF Init, Trig!Init
  <2>3. QED BY <2>1, <2>2, Zenon DEF Trig!TypeOK
<1>3. OwnTypes
  <2>1. /\ client \in Clients /\ gun \in BOOLEAN /\ btn0 \in BOOLEAN
        /\ isrPc = "none" /\ isrFlagGlobal = 0 /\ mainRan = TRUE
        /\ mainPc \in {"init", "poll"} /\ switchValue = 0
        /\ wasPressed = FALSE
    BY DEF Init
  <2>2. pull \in 0 .. DEBOUNCE_TIME + 1
    BY ShotPathAssumption DEF Init
  <2>3. QED BY <2>1, <2>2, Zenon DEF OwnTypes
<1>4. Control
  BY DEF Init, Tx!Init, Trig!Init, Control, IsrInv, ClientInv, SetInv, EnableInv,
         TrigInv, PullInv, TriggerClients
<1>5. SquareWave
  BY DEF Init, Tx!Init, SquareWave, Tx!SquareWave
<1>6. QED BY <1>1, <1>2, <1>3, <1>4, <1>5 DEF IInv, TypeOK, OwnTypes

LEMMA NextInv == IInv /\ [Next]_vars => IInv'
<1> SUFFICES ASSUME IInv, [Next]_vars
             PROVE IInv'
  OBVIOUS
<1>1. Tx!TypeOK /\ Tx!PulseInv /\ Trig!TypeOK /\ OwnTypes
  BY DEF IInv, TypeOK, OwnTypes
<1>2. /\ IsrInv /\ ClientInv /\ SetInv /\ EnableInv /\ TrigInv /\ PullInv
      /\ SquareWave
  BY DEF IInv, Control
<1>3. Tx!TypeOK' /\ Tx!PulseInv'
  BY <1>1, TxInv DEF OwnTypes
<1>4. Trig!TypeOK' /\ OwnTypes'
  BY <1>1, TrigType, OwnTypesStep
<1>5. Control'
  BY <1>1, <1>2, IsrInvStep, ClientInvStep, SetInvStep, EnableInvStep, TrigInvStep,
     PullInvStep
     DEF Control
<1>6. SquareWave'
  BY <1>1, <1>2, SquareWaveStep
<1>7. QED BY <1>3, <1>4, <1>5, <1>6 DEF IInv, TypeOK, OwnTypes

THEOREM Invariance == Spec => []IInv
BY InitInv, NextInv, PTL DEF Spec

\* Every variable of the shot path stays in its range in every execution.
THEOREM TypeCorrect == Spec => []TypeOK
<1>1. IInv => TypeOK
  BY DEF IInv
<1>2. QED BY <1>1, Invariance, PTL

\* transmitter.c:92-105: an idle transmitter has the laser off, and one that is
\* out of init_st is seen running.
THEOREM LaserOff == Spec => []LaserOffWhenIdle
<1>1. IInv => LaserOffWhenIdle
  BY DEF IInv, LaserOffWhenIdle
<1>2. QED BY <1>1, Invariance, PTL

\* transmitter.c:92-110: every half period of every pulse has its full length.
THEOREM Square == Spec => []SquareWave
<1>1. IInv => SquareWave
  BY DEF IInv
<1>2. QED BY <1>1, Invariance, PTL

\* transmitter.c:61-64, isr.c:77-80: main's test and write of the frequency
\* never straddle the start of a pulse.
THEOREM FrequencyStays == Spec => FrequencyFixed
<1>1. IInv /\ [Next]_vars => [txState # "init_st" => freqIndex' = freqIndex]_(Tx!vars)
  <2> SUFFICES ASSUME IInv, [Next]_vars, txState # "init_st"
               PROVE freqIndex' = freqIndex
    OBVIOUS
  <2>1. Tx!TypeOK /\ Tx!PulseInv /\ SetInv
    BY DEF IInv, TypeOK, Control
  <2>2. CASE Tx!transmitter_tick
    BY <2>1, <2>2, TxTickInv
  <2>3. CASE setWrite
    BY <2>1, <2>3 DEF setWrite, goto, SetInv
  <2>4. CASE \/ txEnable' = TRUE /\ UNCHANGED <<txState, txCount, freqIndex, jf1>>
             \/ UNCHANGED tx
    BY <2>4 DEF tx
  <2>5. QED BY <2>2, <2>3, <2>4, TxAction
<1>2. QED BY <1>1, Invariance, PTL DEF Spec, FrequencyFixed, Tx!FrequencyFixed

\* trigger.c:48-51, 83-95: the trigger never runs a running transmitter.
THEOREM ShotsAreApart == Spec => ShotFindsTransmitterIdle
<1>1. IInv /\ [Next]_vars
      => [triggerState = "press_st" /\ triggerState' = "waitRelease_st"
            => ~txEnable /\ txEnable']_vars
  <2> SUFFICES ASSUME IInv, [Next]_vars, triggerState = "press_st",
                      triggerState' = "waitRelease_st"
               PROVE ~txEnable /\ txEnable'
    OBVIOUS
  <2>1. ~txEnable
    BY DEF IInv, Control, TrigInv
  <2>2. CASE trigger_tick
    <3>1. Trig!tickShoot
      BY <2>2 DEF trigger_tick, Trig!trigger_tick, Trig!trigger, Trig!tickWait,
                  Trig!tickListen, Trig!tickPressed, Trig!tickDebounce,
                  Trig!tickReleased, Trig!tickDone, Trig!goto
    <3>2. txEnable' = TRUE
      BY <3>1 DEF Trig!tickShoot
    <3>3. QED BY <2>1, <3>2
  <2>3. CASE ~trigger_tick
    <3>1. triggerState' = triggerState
      BY <2>3 DEF Next, isr_function, mainStep, vars, trig, timerIsr,
                  transmitter_tick, trigger_init, Trig!trigger_init, enableTest,
                  enableWrite, Trig!setEnableFlag, enableAgain, setAgain, pollAgain,
                  poll, resetFlag, detector, readSwitches, setTest, setWrite, run,
                  exit
    <3>2. QED BY <3>1
  <2>4. QED BY <2>1, <2>2, <2>3
<1>2. QED BY <1>1, Invariance, PTL DEF Spec, ShotFindsTransmitterIdle

\* trigger.c:83-108, transmitter.c:85-105: every pulse the trigger gives has been
\* preceded by a pull of its own, a debounce time earlier.
THEOREM PullBeforePulse == Spec => PulseComesFromPull
<1>1. IInv /\ [Next]_vars
      => [PulseBegins /\ client \in {"shooterMode", "trigger_runTest"}
            => pull = DEBOUNCE_TIME + 1]_vars
  BY PulseStart DEF IInv, Control, PullInv, TriggerClients, PulseBegins
<1>2. QED BY <1>1, Invariance, PTL DEF Spec, PulseComesFromPull

\* transmitter.c:48-115: a pulse is PULSE_LENGTH ticks long, and running a
\* running transmitter changes nothing.
THEOREM PulseRefines == Spec => PulseImplementsTimer
<1>1. Init => Tx!Timer!Init
  BY DEF Init, Tx!Init, Tx!Timer!Init, Tx!remaining
<1>2. IInv /\ [Next]_vars
      => [Tx!Timer!Next]_<<Tx!remaining, txState # "init_st">>
  BY TxStep DEF IInv, TypeOK
<1>3. QED
  BY <1>1, <1>2, Invariance, PTL
     DEF Spec, PulseImplementsTimer, Tx!ImplementsTimer, Tx!Timer!Spec, Tx!Timer!vars
=============================================================================

---------------------------- MODULE Transmitter ----------------------------
(***************************************************************************)
(* transmitter.c: once run, the transmitter drives JF-1 with a square wave *)
(* of the chosen frequency for PULSE_LENGTH ticks and stops by itself.     *)
(* transmitter_tick() is called by isr_function(), the rest by the main    *)
(* program and, for transmitter_run(), also by trigger_tick().             *)
(***************************************************************************)
EXTENDS Naturals

CONSTANTS PULSE_LENGTH,  \* 20000 ticks in the code
          freq,          \* half periods in ticks, by frequency number
          BeyondFreq     \* what the bytes behind the array freq may hold

VARIABLES txState, txEnable, txCount, freqIndex,
          jf1  \* value last written to TRANSMITTER_OUTPUT_PIN

vars == <<txState, txEnable, txCount, freqIndex, jf1>>

Init ==
  /\ txState = "init_st" /\ txEnable = FALSE /\ txCount = 0
  /\ freqIndex = 0 /\ jf1 = 0

\* The write of transmitter_setFrequencyNumber(); freqIndex is a uint8_t.  Its
\* test of transmitter_running() is a step of its own in ShotPath.
setFreqIndex(number) == freqIndex' = number % 256

transmitter_run == txEnable' = TRUE /\ UNCHANGED <<txState, txCount, freqIndex, jf1>>

transmitter_running == txEnable

\* freq[freqIndex]; an index behind the array reads whatever is there.
halfPeriods == IF freqIndex \in DOMAIN freq THEN {freq[freqIndex]} ELSE BeyondFreq

\* Whether the pin may toggle (stay) at a count; % 0 is undefined behaviour.
mayToggle(n) == 0 \in halfPeriods \/ \E p \in halfPeriods \ {0} : n % p = 0
mayStay(n) == 0 \in halfPeriods \/ \E p \in halfPeriods \ {0} : n % p # 0

\* transmitter_tick, one definition for each way through its two switches.
tickIdle == txState = "init_st" /\ ~txEnable /\ UNCHANGED vars

\* A slip: the count of the last pulse is kept.
tickStartKeepingCount ==
  /\ txState = "init_st" /\ txEnable
  /\ txState' = "high_st" /\ jf1' = 1
  /\ UNCHANGED <<txEnable, txCount, freqIndex>>

tickStart ==
  /\ txState = "init_st" /\ txEnable
  /\ txState' = "high_st" /\ jf1' = 1
  /\ txCount' = 0
  /\ UNCHANGED <<txEnable, freqIndex>>

\* A slip: only low_st ends the pulse by switching the pin off.
tickEndAsIs ==
  /\ txState # "init_st" /\ txCount + 1 = PULSE_LENGTH
  /\ txCount' = PULSE_LENGTH
  /\ txEnable' = FALSE
  /\ txState' = "init_st"
  /\ UNCHANGED <<freqIndex, jf1>>

\* A slip: the transmitter stays enabled.
tickEndEnabled ==
  /\ txState # "init_st" /\ txCount + 1 = PULSE_LENGTH
  /\ txCount' = PULSE_LENGTH
  /\ txState' = "init_st" /\ jf1' = 0
  /\ UNCHANGED <<freqIndex, txEnable>>

\* In low_st the pin is 0 already.
tickEnd ==
  /\ txState # "init_st" /\ txCount + 1 = PULSE_LENGTH
  /\ txCount' = PULSE_LENGTH
  /\ txEnable' = FALSE
  /\ txState' = "init_st" /\ jf1' = 0
  /\ UNCHANGED freqIndex

tickToggle ==
  /\ txState # "init_st" /\ txCount + 1 # PULSE_LENGTH
  /\ txCount' = txCount + 1
  /\ mayToggle(txCount')
  /\ IF txState = "high_st" THEN txState' = "low_st" /\ jf1' = 0
                            ELSE txState' = "high_st" /\ jf1' = 1
  /\ UNCHANGED <<txEnable, freqIndex>>

tickStay ==
  /\ txState # "init_st" /\ txCount + 1 # PULSE_LENGTH
  /\ txCount' = txCount + 1
  /\ mayStay(txCount')
  /\ UNCHANGED <<txState, txEnable, freqIndex, jf1>>

transmitter_tick == tickIdle \/ tickStart \/ tickEnd \/ tickToggle \/ tickStay

-----------------------------------------------------------------------------
TypeOK ==
  /\ txState \in {"init_st", "high_st", "low_st"}
  /\ txEnable \in BOOLEAN
  /\ txCount \in 0 .. PULSE_LENGTH
  /\ freqIndex \in 0 .. 255
  /\ jf1 \in {0, 1}

\* The pin is high exactly in high_st, so an idle transmitter never leaves it
\* lit, and a transmitter that is out of init_st is enabled and has ticks left.
PulseInv ==
  /\ jf1 = 1 <=> txState = "high_st"
  /\ txState # "init_st" => txEnable /\ txCount < PULSE_LENGTH

\* During a pulse of a valid frequency number the pin is high in the even half
\* periods and low in the odd ones: no half period is cut or stretched, from
\* the first to the last. (transmitter.c:92-110)
SquareWave ==
  txState # "init_st" /\ freqIndex \in DOMAIN freq =>
    (jf1 = 1 <=> (txCount \div freq[freqIndex]) % 2 = 0)

\* The frequency of a pulse is the one it started with.
FrequencyFixed == [][txState # "init_st" => freqIndex' = freqIndex]_vars

remaining == IF ~txEnable THEN 0
             ELSE IF txState = "init_st" THEN PULSE_LENGTH + 1
             ELSE PULSE_LENGTH - txCount

Timer == INSTANCE OneShotTimer WITH Duration <- PULSE_LENGTH,
                                    output <- txState # "init_st"

\* A pulse lasts exactly PULSE_LENGTH ticks, whatever the frequency, and a
\* transmitter_run() during the pulse neither restarts nor prolongs it.
ImplementsTimer == Timer!Spec
=============================================================================

# TLA+ models of the laser-tag firmware

TLA+ models, TLC checks and TLAPS proofs for the C program in
`src/ECEN390_Student_SW_0.2/Consolidated_330_SW` (ECEN 390, a bare-metal Zynq
board). Paths below are relative to `src/laserTag/` in that directory, and
`supportFiles/` is its sibling of `src/`. The other directories of the
repository are older exercises, Eclipse metadata, and generated board support.

The program is one endless main loop and one timer interrupt every 10 us, on
one core. Nothing is locked; shared variables are plain statics, and the only
tool against races is masking the ARM interrupts. So the questions asked here
are: what can an interrupt between two particular statements do, what does a
counter or index do at its limit, and which of the software timers can be cut
short, prolonged or left on.

## 1. Inventory

| part | state | operations | talks to |
|---|---|---|---|
| ADC buffer (`isr.c`) | `indexIn`, `indexOut`, `elementCount`, `data` | `adcBufferInit`, `addDataToAdcBuffer` (ISR), `isr_removeDataFromAdcBuffer`, `isr_adcBufferElementCount` (main) | shared by ISR and `detector()` |
| ISR (`supportFiles/interrupts.c`, `isr.c`) | `interrupts_isrFlagGlobal`, IRQ mask | `timerIsr` -> `isr_function`: sample, transmitter, hit LED, lockout, trigger, in this order; then the flag is raised | everything |
| Transmitter (`transmitter.c`) | state, enable flag, `count`, `freqIndex`, pin JF-1 | `run`, `running`, `setFrequencyNumber`, `tick` | run by the trigger's tick or by main |
| Trigger (`trigger.c`) | state, enable flag, debounce count, `ignoreGunInput` | `init`, `enable`, `tick` | reads the gun and btn0, runs the transmitter |
| Lockout timer (`lockoutTimer.c`) | state, enable flag, count | `init`, `start`, `running`, `tick` | started by main at start-up and by `detector()` |
| Hit LED timer (`hitLedTimer.c`) | state, enable flag, count, LED pin | `init`, `start`, `running`, `setLed`, `tick` | started by `detector()` |
| Detector (`detector.c`) | `sampleCount`, `sortedPower`, hit flag, hit counts | `detector`, `sort`, `computeHit`, `hitDetected`, `clearHit`, `getHitCounts` | drains the ADC buffer, feeds the filters, starts both timers |
| Filters (`filter.c`) | x, y, z and power queues, `currentPowerValue` | `init`, `addNewInput`, `firFilter`, `iirFilter`, `computePower`, `getNormalizedPowerValues` | queues; called by `detector()` |
| Queue (`queue.c`) | ring of `size + 1` slots | `init`, `push`, `pop`, `overwritePush`, `readElementAt`, `elementCount` | filters |
| Main (`main.c`) | local variables | `shooterMode`, `continuousPowerMode`; the module tests are clients too | everything |
| Interval timers (`supportFiles/intervalTimer.c`) | three 64-bit counters, each in two registers, and their control registers | `initAll`, `reset`, `start`, `stop`, `get64BitCounterValue` | ISR (timer 0) and main (1 and 2); read by the statistics |
| Set-up and statistics (`main.c`, `supportFiles/interrupts.c`) | interrupt mask and status, `isrInvocationCount`, `countInterruptsViaInterruptsIsrFlag`, heart beat | the calls before each mode's loop, `timerIsr`, `printRunTimeStatistics` | everything |
| Global timer, circular buffer, buttons, switches, LEDs, MIO (`supportFiles/`) | registers, or a ring | reads, writes | main, or nothing |
| TFT display, histogram | pixels | drawing | main; long, so the ISR runs many times meanwhile |

What makes each part correct:

* ADC buffer: it is a FIFO that drops the oldest sample; `elementCount` never
  falls behind the values there are.
* Drain: no sample is lost, doubled, reordered or invented; the
  `elementCount--` of main and the `elementCount++` of the ISR do not collide;
  no wakeup is lost; `detector()` returns although samples keep coming; what a
  drain cut short leaves behind is taken up later.
* Timers, transmitter: a started timer runs for exactly its length and then its
  output is off, wherever the start falls between two ticks.
* Trigger and transmitter: a debounced pull gives one pulse of one frequency, and
  there is no pulse without a pull of its own;
  nothing changes a pulse in progress.
* Hits: at least a lockout apart, each from a measurement over the threshold,
  each counted, shown and lit.
* Queue: a FIFO of exactly the size asked for, when read through its accessors.
* Filters: their outputs are those of the difference equations in `filter.h`,
  on every tenth sample; the incremental power does not drift away from the
  energy of the outputs; queues are initialised before their use.
* Detector: the sort sorts, and a hit is a channel with more than `FUDGE_FACTOR`
  times the median power; the game does not begin with the hit of a test.
* Interval timers: each is a stopwatch, and reading a running one gives a value
  it had meanwhile.
* Set-up and statistics: what a mode sets up for the ISR is set up before the
  first one; what is printed fits together.

The hard behaviour is interleaving of ISR and main (test-then-write sequences
such as `trigger_enable` and `transmitter_setFrequencyNumber`, read-modify-write
of `elementCount`, two timers started in two steps), limits (buffer overflow,
wrap-around, table index), flags that outlive what they stood for, and liveness
under an interrupt that never stops. There is no persistence, no message loss
and no second core. `PROJECT.json` lists each hazard with its line.

## 2. Modules

| module | models | role |
|---|---|---|
| `AdcBuffer` | the circular buffer of `isr.c`, both operations atomic | component, checked within `AdcDrain`; refines `BoundedFifo` |
| `BoundedFifo` | what the ADC buffer promises | abstract |
| `AdcDrain` | `timerIsr` against the main loop and the `for` loop of `detector()`, access by access | composes `AdcBuffer` with ISR and main; refines `AdcBuffer` and `BoundedFifo` |
| `OneShotTimer` | what a timer ticked by the ISR promises | abstract |
| `Transmitter`, `Trigger` | `transmitter.c`, `trigger.c` | operations, used by `ShotPath` |
| `ShotPath`, `MC_ShotPath` | both ticks in ISR order against four main programs | composition |
| `LockoutTimer`, `HitLedTimer` | `lockoutTimer.c`, `hitLedTimer.c` | operations, used by `HitPath` |
| `HitPath` | detector's decisions, both timers, both modes | composition |
| `Queue` | `queue.c` as operators on a `queue_t` | operators |
| `QueueFifo` | one queue under any sequence of calls | component; refines `BoundedQueue` |
| `BoundedQueue` | what `queue.h` promises | abstract |
| `Detector` | sort, threshold and hit flag of `detector.c` for any power values | component |
| `Sums` | a loop that sums up an array | operator, used by the next two |
| `Filter` | the computations of `filter.c` on the queues of `Queue` | operators |
| `DifferenceEquation` | what `filter.h` says the two filter stages compute | abstract |
| `FilterChain`, `MC_FilterChain` | from a sample to a hit, and what the tests at power-up leave behind | composes `Filter` and `Detector`; refines `DifferenceEquation` |
| `IntervalTimer` | `intervalTimer.c` and the counters it drives, register by register | component |
| `Stopwatch` | what the users of an interval timer expect | abstract |
| `RunTime` | `main()` around its parts: set-up, timer interrupt, poll loop, statistics | composes three interval timers; refines `Stopwatch` |
| `AdcBuffer_proofs`, `AdcDrain_proofs`, `ShotPath_proofs`, `HitPath_proofs`, `QueueFifo_proofs`, `Detector_proofs`, `FilterChain_proofs`, `RunTime_proofs` | | theorems |

Definitions have the names of the C functions and variables wherever they can;
a state of a `switch` is a string with the name of its enumerator. Where two
components have a variable of the same name a prefix tells them apart
(`txEnable`, `trigEnable`). `PROJECT.json` maps each definition to its lines.
Definitions that a comment calls a slip are plausible mistakes in the operation
they stand beside; no specification uses them. Put in place of the operation,
each makes TLC refute the property `PROJECT.json` names with it, which is how we
know the property can fail.

### How steps correspond to code

*One core.* The main program cannot run while an ISR does, so an ISR is one
step, or a few steps during which main stands still (`ShotPath`: the order of
the two tick calls is itself in question there). Main, on the other hand, may be
interrupted before any access to shared memory, so its functions are taken
apart at these accesses, and the interrupt mask decides whether an ISR may come.

*`AdcDrain`.* `mainPc` walks through `poll`, `reset`, `query`, `loop`, `take`,
`load`, `store`, `enable`, `process`, the accesses listed at the head of the
module. `elementCount--` is a load and a store. `armIntsEnabled` is cleared by
`interrupts_disableArmInts` and set by `interrupts_enableArmInts`. Samples are
numbers given by the ADC in order, so that a lost or doubled sample shows. The
hit that ends `detector()` early is a choice.

*`ShotPath`.* `client`, chosen initially, is the main program: `shooterMode`,
`continuousPowerMode`, `trigger_runTest` or `transmitter_runTest`. A test of
`transmitter_running()` and the write it guards are two steps. Gun and btn0 take
new values before every ISR. A frequency number beyond the table reads one of
`BeyondFreq`, and a half period of 0 may or may not toggle the pin (division by
zero is undefined). `pull` and `wasPressed` are no program variables: they
remember, for one property, how long ago the first pull since the last pulse was.

*`HitPath`.* Whether a power computation exceeds the threshold
(`overThreshold`), and how many computations a call of `detector()` makes, are
choices. `busy` stands for the long stretches (filters, sort, display) during
which many ISRs pass. The loop of `detector.c:123-128` always finds the
strongest channel, because `sortedPower` is sorted from the values it is
compared with; its `return` leaves `detector()`, and `countHit` says just that.

*`QueueFifo`.* Queues are touched by the main loop only, so a call is a step.
The contents are read the way a caller reads them, through
`queue_elementCount` and `queue_readElementAt`.

*`FilterChain`.* Everything from `filter_addNewInput` to the threshold runs in
the main program and shares nothing with the ISR, so each call, and each turn of
the loop over the channels, is a step. The run begins after the filter test that
`main()` calls, goes through `detector_runTest()` with its forced power values,
and enters a mode. There `detector()` is called (`callDetector`), handles any
number of samples, and returns (`detectorReturns`), or returns at once from a hit
outside a lockout, in the middle of whatever it had to do; what a drain leaves
undone is the next one's. `TestPower`, the second data set of `detector_runTest`,
is a constant of which the model assumes what `detector.c:187` prints, that
nothing in it should be a hit. `FilterTest` says which filter test came first: the one
`main()` calls gives the power queues no storage, `filter_runTestDJs()`, which
nothing calls any more, does. A push to a queue without storage (a write through
a null pointer, indices modulo 0) is taken to change nothing else, and a power
computed from one becomes any of `Garbage`.

*`IntervalTimer`.* A control register is the set of its bits that matter here:
`UDT0` (count down) and `ENT0` (count). `intervalTimer_reset` is one step,
because its first write to the control register stops the timer. The four
register reads of `intervalTimer_get64BitCounterValue` are steps, with any
number of clock pulses between them. The clock stops before a 64-bit counter
would wrap (5849 years at 100 MHz). `before` is no program variable; it
remembers the counter at the call, for the property.

*`RunTime`.* `SetUp` is the list of calls each mode makes; the steps that matter
to the timers and interrupts act, the others only count as made. The ISR has an
entry and an exit, between which the clock runs on and main stands still.
`pending` is the interrupt status of the private timer: it is raised from the
moment the timer is started, is seen when the mask opens, and an expiry during
the ISR is lost when the ISR clears the status.

### What is abstracted

Sample values (except their identity in `AdcDrain`), filter results in
`HitPath`, the rounding of doubles in `FilterChain` (they are integers there, so
sums are exact), the display and all
printing. `detector_tick` is empty. Buttons other than the ones that decide a
step are left out; btn3 is the `exit` action, possible whenever the loop
condition is evaluated. Shared flags are read at every access: the accessors are
in other translation units than their callers, so the compiler cannot keep
`enableFlag`, which is not `volatile`, in a register; a build with link-time
inlining would be outside these models.

## 3. What is checked

A property is listed where it is checked; its comment in the module says which
lines it is about.

| run | question | bounds |
|---|---|---|
| `adc_drain` | Is the buffer, taken apart access by access, still a drop-oldest FIFO with a counter that covers it, and can the ISR harm a drain, or a drain the flow of samples? | 4 slots, decimation 2, 6 sample numbers |
| `shot_path` | Are pulls, pulses and frequencies right under all clients? | pulse 8, half periods 2 and 3, debounce 2, switches 0-2 |
| `hit_path` | Are hits apart, fresh and reported, and the timers exact? | lockout and LED 5 ticks, 2 channels |
| `queue` | Is a queue read through its accessors a FIFO? | size 3, 2 values |
| `filter` | Do rings, coefficients, decimation, sort and threshold compute what they should, across drains, and do the power-up tests leave no hit? | 4 channels, 3 FIR, 3 + 2 IIR coefficients, power window 3, decimation 2, 8 samples |
| `runtime` | Are set-up, timers, interrupt counts and statistics consistent in both modes? | registers of 3 values, 3 interrupts, heart beat 1 |
| `adc_count`, `shot_responsive`, `hit_led_race`, `hit_count`, `hit_stale`, `filter_power` | Does a statement of a comment hold? It does not; see section 5 | as above |

Why the bounds suffice for what they are meant to show:

* Buffers. 4 slots hold three values: empty, full, wrapped, overflowing in the
  middle of a drain and a counter ahead of the values all occur, and more slots
  add no new relation between two indices. The theorems below cover every size.
  6 sample numbers are more than twice what the buffer keeps, so reuse of a
  number cannot be mistaken for order. The decimation of 2 gives both outcomes
  of the test in `process`.
* Shot path. The pulse (8) is longer than two debounces and the four steps
  around them (2 * 2 + 3), so the trigger can be back in `init_st` during a
  pulse, as on the board (20000 against 2 * 5000 ticks), and can also be held longer
  than a pulse. Half periods of 2 and 3 do and do not divide the pulse. Switch
  value 2 is behind the table.
* Filters. Four channels are the fewest with two different middles and something
  on both sides of them; the forced powers of the first data set take every
  combination of three values, equal ones included, so the sort sees every order
  of them. Every coefficient of a stage differs from the others, so no two
  elements can be exchanged without a trace, except in input that is all zero.
  8 samples at a decimation of 2 give 4 outputs: every ring (of 3 or 4 slots)
  passes its seam.
* Run time. Registers of 3 values carry several times within a run; 3 interrupts
  are enough for one before, one in and one after the work of a turn of the loop.
  Both modes, and timers that an earlier program left running or with a value.
* Hit path. The code has both times equal (50000); the race of the two timers
  depends on that, so the model has them equal too.

Checked of the ADC sample path: until the first overflow every value removed
was there and is the next in order (`NoPhantomSample`, `SamplesInOrder`); after
one, a drain is handed at most one default 0, as its last (`PhantomIsLast`); the
masked removal implements the atomic one (`RemovalIsAtomic`), and with it the
drop-oldest FIFO (`ImplementsFifo`); main never waits with the flag down while a
completed drain left something (`NothingLeftWaiting`). `CounterCoversValues` is
what holds of `elementCount`: it is the number of values, or one more.
That it may be one more is against the comments, which is the run `adc_count`
(section 5).

Checked of the shot path: `FrequencyFixed` and `SquareWave` hold although main
tests and writes in two steps, because the transmitter is ticked before the
trigger: a pulse the trigger starts between test and write begins one ISR
later, after the write. With the order of the ticks exchanged it fails, which
one of the slips shows. `PulseComesFromPull` counts from the pull to the pulse:
when the trigger is what runs the transmitter (`shooterMode`, `trigger_runTest`),
each pulse begins a full debounce time or more after a pull that no earlier
pulse used up. The argument also needs that an ISR is shorter than its
period, so that main gets a step between two ISRs (`mainRan`); the same holds
of `ShotFindsTransmitterIdle`.

Checked of the filters: `ImplementsDifferenceEquation`, the queues as windows of
the signals, however the samples are divided between drains and wherever a hit
cuts one short; `GameStartsWithoutHit`, the hit that the first data set of
`detector_runTest()` provokes is gone when a mode is entered, though no mode clears
the flag. No run claims what the power *is*: in the program as it stands the
power queues have no storage (`filter_power`, section 5), so a power is any of
`Garbage`. What can be said of the incremental computation by itself, for queues
that are full, is a theorem (`PowerDoesNotDrift`).

Checked of the run time: `SetUpPrecedesIsr` holds although the private timer
runs, and its interrupt waits, before the set-up is complete, because the mask
opens last. It is about order: what a mode sets up for the ISR comes before the
first ISR. It does not say that a mode sets up everything its ISR ticks, and
`continuousPowerMode` does not (section 5). `StatisticsAreConsistent`: no time shown is more than the
running time, although that is read first and runs on. `intervalTimer_initAll`
leaves out the last timer; that `intervalTimer_reset(2)` follows is what makes it
right, as the slip `setUpNoReset` shows. `ImplementsStopwatch` needs that
`intervalTimer_start` overwrites the count-down bit that `intervalTimer_init`
sets. The times of ISR and main loop may add up to more than the whole: main's
timer counts on while the ISR runs.

### Liveness and fairness

* The private timer interrupts forever while interrupts are enabled: weak
  fairness of `timerIsr` (`isr_function`).
* The main program is never blocked for good and an ISR ends before the next
  one is due: weak fairness of `mainStep`, strong in `ShotPath`, where an ISR
  in progress disables it again and again.
* In `HitPath`, `detector()` returns: strong fairness of the step that ends the
  sampling. That is what `DrainTerminates` shows of `AdcDrain`, where it
  follows from weak fairness alone, the loop being over a snapshot.
* None of `exit` (a button), of a hit, or of a pull.

Under these: a drain ends, what waits in the buffer is taken up by main, a
debounced press becomes a pulse, the laser and the LED go off, a hit is reported. Leaving a mode
masks the interrupts for good (`main.c:226`), and with them the ticks, so these
promise nothing after `exit`; `done` is a real end, the reason why deadlock is
not checked in those runs. `ValuesAreTakenUp` demands a removal by main, after
a drain that a hit cut short as well; being overwritten by the ISR does not count.

## 4. What is proved

The proofs hold for every value of the constants allowed by the `ASSUME` of the
module. TLC agreed to each invariant first.

**ADC buffer** (`AdcBuffer_proofs`; at least two slots, samples are numbers from
0 to any bound). `BufferTypeCorrect`: the ranges and `CountCoversValues` together are
inductive; the counter alone is not in its range without being tied to the
indices, since a removal could take it below 0. `BufferImplementsFifo`: with `Contents`, the values between
the indices, as the abstract queue, each step is a step of `BoundedFifo`. The
work is in two facts about slots: moving `indexOut` shifts all slot numbers by
one (`ShiftedSlot`), and no value is in the slot written next (`SlotsKept`).

**Queue** (`QueueFifo_proofs`; size at least 1). The lemmas are about any
`queue_t` whose counter is the distance of its indices (`Sound`), so
`queue_overwritePush`, a pop followed by a push, needs no proof about slots of
its own. `TypeCorrect`, `Agreement` (counter, indices, `queueFull` and
`queue_empty` agree) and `QueueRefines` follow from `IInv`.

**Shot path** (`ShotPath_proofs`; every pulse length, debounce time, table of
half periods, set of switch values and set of clients). The safety properties
are not inductive: one has to know what the one ISR between a test and its write
can have done. `SetInv` says that at the write no pulse has begun, and if the
transmitter has been run, then by an ISR that is over and ticked the transmitter
before; `EnableInv` says the same of `trigger_enable`; `TrigInv` ties an enabled
trigger to an idle transmitter; `PullInv` ties the debounce count to the pull it counts from;
`IsrInv` and `ClientInv` are what these rest on.
From this `IInv` follow `TypeCorrect`, `LaserOff`, `Square`, `FrequencyStays`,
`ShotsAreApart`, `PullBeforePulse`, and `PulseRefines`: the transmitter
implements `OneShotTimer`. `Square` needs small facts about `%` (`HalfPeriod`),
stated as lemmas.

**Hit path** (`HitPath_proofs`; every lockout and LED time). `SinceInv`: the
ticks since the last start and the ticks the lockout still has to run add up to
`LOCKOUT_TIME + 1`; `OffInv`: the lockout is off from main's look at it to the
start that follows, as nobody else starts it. Hence `Spaced`. `ClearInv`, the
flag is down whenever a hit is looked for in `shooterMode`, gives `Fresh`.
`LockoutRefines` and `LedRefines`: both timers implement `OneShotTimer`.

**ADC drain** (`AdcDrain_proofs`; every buffer size, decimation and number of
samples). The invariant goes through main's accesses: interrupts are masked
exactly from `take` to `enable` (`MaskInv`); the counter is the number of values
or one more, and one above that while a removal is in progress (`CountInv`); the
snapshot never exceeds it (`LeftInv`); with the flag down the snapshot covers all
values (`FlagInv`). From it `TypeCorrect`, `SnapshotCovered`,
`OnePhantomPerDrain`, `NoLostWakeup`, and `MaskMakesAtomic`: taken apart access
by access, the masked removal implements the removal of `AdcBuffer`. That carries
over what is proved of `AdcBuffer`: `CounterCovers`, and `DrainImplementsFifo`,
each step of the drain being one of the buffer or none. `InOrder`
needs to know what is in the buffer and not only how much. `OrderInv`: as long as
nothing was overwritten, the value main removed last, the values in the buffer
from the oldest on (`Age` is the place of a slot behind the out index) and the
last sample of the ADC are consecutive, also between the accesses of a removal.

**Detector** (`Detector_proofs`; every even number of channels, every fudge
factor, all integer powers). `SortInv`: the first `i` places are in order and the
whole is the power values rearranged. One turn of the insertion sort is a
rearrangement (`SourceIsBijection`, `InsertPermutes`) and keeps the order
(`InsertOrders`); hence `SortSorts`. `ThresholdIsMedian`: in an ascending
rearrangement the value at `MEDIAN_INDEX` is the lower median, found by counting
the places before and after it (`FirstPlaces`), and medians are unique
(`MedianUnique`).

**Filters** (`FilterChain_proofs`; filters of every length, any coefficients,
every decimation, number of channels, size of the power queues and number of
samples). What a loop computes has to be proved by induction on its turns, and
the library's induction theorems take the claim as an operator, which the provers
cannot instantiate. The claims here are therefore sets of numbers: `Induction`
says that a set with 0 and with the successor of each of its members holds every
natural, from the well-founded order of Nat (`LeastElement`). With it:

* of the loop `sum += term[i]` (`total`), that it exists, steps, and is the same
  from the other end, or without its first term (`TotalStep`, `TotalReversed`,
  `TotalShifted`);
* of the loops that fill a queue, the queue after each push (`Filled`,
  `FilledStep`, `PushedIsFilled`), so after the last one it is full and reads as
  the value everywhere (`FilledQueueFull`), for one push a place and for two.

A push to a full queue moves every element one place down, wherever the seam of
the ring is (`FullQueuePush`); so the x, y and z queues stay full from their
fill on (`QueueInv`), and a filter never reads a slot that no signal value is in.
With where the program is (`StageInv`) and the sort's invariant, which nothing
in the filters touches, this is `ChainInv`, which is inductive; from it
`ChainTypeCorrect`, `ChainSortIsRight` and `ChainHitIsOverMedian` follow.
`ChainImplementsDifferenceEquation`: the window of a queue after a push is the
window one turn later (`WindowPush`), and the code's sum over it is the
equation's from its other end (`WeighIsSum`). `TestsLeaveNoHit`: during the second
data set the powers are `TestPower`, the flag is down from the clear before it on
and, the sort being right, the threshold is that of the lower median, over which
nothing stands out (`QuietInv`). `PowerDoesNotDrift` is about `filter.c:161` and
`174-177` alone, over any sequence of outputs pushed to a full power queue: a push
takes one square out of the energy and brings one in, the same that the code
subtracts and adds (`EnergyPush`), so power and energy stay as far apart as they
were, by `Induction` on the number of outputs.

**Interval timers** (in `RunTime_proofs`; every register size).
`CoherentRead`, for any number of clock pulses between two register reads, on the
assumption that the 64-bit counter does not run out and nobody resets the timer
during the read. `ReadInv` says how the halves read so far relate to the counter.

**Run time** (`RunTime_proofs`; every register size, heart-beat period and number
of interrupts). `TimersAreRead`: the program uses the timers as `CoherentRead`
assumes, so the read is coherent. `StatisticsFit`: the running-time counter is
never behind the other two from its start on, since it is started last and they
never count without it (`SetUpTimers`, `TotalAhead`), and what was read of it
first is at least what is in the others, which have stopped (`TotalRead`).
`SetUpComesFirst`, `CountedOnce` (the flag stands for an interrupt not counted
yet), `HeartBeats` (heart-beat counter plus interrupts is a multiple of the
period), `TypeCorrect`, `TimersAreStopwatches`.

Proved but in no run's list: the type invariants of `AdcBuffer` and `QueueFifo`
(TLC checks the first within that of `AdcDrain`), `LaserOff`, `HeartBeats` and
`PowerDoesNotDrift`.

Only model-checked: the liveness properties (`DrainTerminates`,
`ValuesAreTakenUp`, `PressShoots`, `PinGoesLow`, `LedGoesOff`, `HitIsReported`),
which rest on fairness and `ENABLED` and are out of the prover's reach. Every
other property of a passing run has its theorem. That the theorems about filters
are about integers and not doubles is an abstraction (section 2): rounding is
outside both the checks and the proofs.

## 5. Where code and comments disagree

Each of these has a run that TLC ends with a counterexample.

* `adc_count`: `isr.c:22` and `isr.h:16` call `elementCount` the number of values in
  the buffer. It is counted up to the number of slots, one more than the buffer
  keeps, so after the first overflow it is one too high for good, and
  `detector()` may be handed a default 0 as the last sample of a drain.
* `shot_responsive`: `main.c:179` makes the trigger responsive, once. The
  release of the first shot takes the flag back: one shot per game.
* `hit_led_race`: an ISR between `lockoutTimer_start()` and
  `hitLedTimer_start()` makes the lockout end one tick before the LED; a hit in
  that tick finds the LED running and gets no light of its own.
* `hit_count`: `detector.c:126` returns before the hit is counted.
* `hit_stale`: `continuousPowerMode` never clears the hit flag, so every
  computation outside a lockout is taken for a hit.
* `filter_power`: `filter.h:28` says that `filter_init()` initialises everything
  the filters need. It does not call `initPowerQueues()`, and nobody else does:
  the power queues are used without storage.

Seen while modelling, without a run:

* `continuousPowerMode` never calls `hitLedTimer_init` and `trigger_init`, although
  its ISR ticks both (`isr.c:78-80`) and a hit starts the LED timer
  (`detector.c:119`) on a pin that nobody has configured; `hitLedTimer.h:11` says
  "Need to init things." The calls only configure pins and decide whether the
  gun is ignored, so both state machines begin in their static initial states as
  they do in `shooterMode`, and the trigger is never enabled.
* `main.c:221` says frequencies are 0 to 9; the four switches give up to 15, and
  10 to 15 read behind `freq`. `ShotPath` includes such a value.
* `transmitter.c:58` says that a new frequency takes effect after the current
  pulse, where the code forgets the request (its callers repeat it).
* `trigger.c:32` says that the gun is ignored when the gun input is high at
  initialisation; `trigger_init` ignores it also when only btn0 is held.
* `detector_runTest` leaves its test data in `currentPowerValue`, which no later
  initialisation resets.
* `filter.h:51-52` says that `filter_computePower` computes the power of the values
  in a queue. Incrementally it subtracts the oldest value while that is still in
  the queue, so it follows one output less than the sum from scratch.
* `detector_init` and each mode both call `filter_init`: its queues are allocated
  twice and the first storage is lost.
* `interrupts_setPrivateTimerPrescalerValue` (`interrupts.c:78`) writes the
  prescaler into the load register; nothing calls it.
* `interrupts.c:63` calls `privateTimerTicksPerHeartbeat` the ticks per toggle of
  the heart beat; the LED toggles every `privateTimerTicksPerHeartbeat + 1`.
* `intervalTimer.c:81` says "up count" over a write of the count-down bit (87).
* `buttons_readGpioRegister` (`buttons.c:40`) adds a byte offset to a word
  pointer, and `buttons_init` and `switches_init` return success when the value
  read back is *not* the one written. Nothing in the modes looks at the result.

## 6. Not modelled

* `circularBuffer.c`, `globalTimer.c`, `intervalTimer_test`, `resetAll` and
  `getLower32BitCounterValue`, `interrupts_setPrivateTimerPrescalerValue`: called
  by nothing in the program, so there is no state or call sequence of the program
  to model them in. `interrupts_setPrivateTimerLoadValue` is called once, with a
  constant, by `interrupts_initAll` (279): that the period of the interrupt never
  changes is all the models need of it. (`globalTimer.c` reads its counter by the protocol of
  `IntervalTimer`.)
* The SysMon interrupt: its end-of-conversion source is never enabled, so
  `sysMonIsr` never runs.
* `interrupts_initAll` in detail: a straight sequence of driver calls with error
  returns; its result is not looked at. `RunTime` has it as one call.
* Floating-point rounding, overflow and NaN in the filters: TLC and TLAPS have
  integers. `filter_getNormalizedPowerValues` only feeds the display.
* The module tests beyond what they leave behind for the game or do as clients:
  the golden data of `filter.c`, the chain of queues of `queue_runTest`.
* The TFT and GFX libraries and the histogram (output only), register-level code
  of buttons, switches, LEDs and MIO (stateless), and the generated board support
  package and drivers of Xilinx, which are by far the largest part of the
  repository's C lines and hold none of the program's own logic.

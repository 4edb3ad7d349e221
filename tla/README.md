# Verification of the multi-channel voltage source firmware

TLA+ models of the firmware in `src/` (an ESP32 that drives four AD5761R DACs
and one AD7172-2 ADC on a shared SPI bus, commanded over USB), TLC runs on small
instances of them, and theorems checked by TLAPS.

## 1. The system

| part | source | state | operations |
|---|---|---|---|
| entry point | `main/app_main.cpp` | the two queues | creates queues and tasks |
| input task | `components/app/task_comms.cpp` | one `UserCmd` record, the time of the last line | read a line, parse, enqueue; after 2.5 s of silence send OFF to every channel, every 20 ms |
| log task | same | - | take a sample record, print it |
| coordinator | `components/app/coordinator.cpp` | device handles, the `Channel` array | initialise; for ever: drain commands, poll the ADC, run every channel |
| channel | `components/app/channel.cpp` | mode, STEADY and SWEEP parameters, calibration, data rate | `init`, `update` (five modes), `steady_run`, `sweep_run`, `stop`, `compute_and_send_current` |
| calibration record | same, flash (NVS) | one record per channel | load at boot, checked update, commit |
| ADC driver | `components/drivers/adc` | register cache, device structure, channel map, checksum mode | initialisation, setters, channel enable, modes, data read |
| DAC driver | `components/drivers/dac` | settings | control register, write-and-update, resets, readback, pins |
| SPI layer | `components/no_os/no_os_spi.c`, `components/platform` | bus table, chip selects, bus clock | init, transfer, lists of transfers, remove |
| utilities | `components/no_os/no_os_util.c` | - | fields and masks, fractions, wide arithmetic, byte order |
| GPIO, allocation | `components/no_os` | - | vendored; the GPIO calls of the DAC driver are commented out, allocation forwards to `malloc` |

How they interact: the input task and the coordinator share `user_cmd_queue`,
the coordinator and the log task share `data_queue`; both have depth 4, every
send has a timeout of 0 and no caller looks at the result. The coordinator is
the only task that touches the hardware. The channels share the ADC: a sample
carries the number of its input in a status byte, by which the coordinator
dispatches it. The DACs, the ADC and the flash survive a reset of the chip.

What is hard: the sweep advances by a flag that an ADC sample sets and the run
loop clears; a command may replace a run at any point of it; a calibration of
one ADC input disables the others; queues drop silently; the parser reuses one
record for every line; a reset finds the outputs energised.

What makes the parts correct:

* input task: a well-formed line is enqueued as what it says; a malformed one
  does nothing; silence stops every channel.
* coordinator and channels: an idle channel holds 0 V; a running channel is
  converted; a sweep stays within a step of its range, moves one step at a time
  and ends; a STEADY run holds its voltage, for its own duration, and ends.
* calibration record: what is in use and in flash is within tolerance.
* ADC driver: the driver's picture of the channel map is the chip's; a
  calibration is not disturbed by the other inputs and not cut short; the ADC
  converts again afterwards; a read that fails never dispatches a sample from
  before the poll loop began; a disturbed read is refused. An initialisation that reports success has set every register,
  and every later write carries all fields of its register as last set; driver
  and chip agree on how long a frame is, and the device structure tells what is
  in the chip, although a write may fail or be dropped by the chip.
* DAC driver: after a call that succeeds the part obeys every setting, each put
  whole and in its place in one control word; a readback returns what was asked
  for; the boot ends at 0 V in the right range.
* SPI: one slave is selected at a time; the clock can only be at rest at the
  wrong level in the first message of a call; a bus lives as long as it has
  slaves; a list of transfers that returns 0 has gone out to its last message.
* utilities: the checksum is the polynomial remainder; a fraction comes out in
  lowest terms or not at all; a field put into a register comes out again.

## 2. The modules

| module | models | remarks |
|---|---|---|
| `Board` | the number of channels | shared by all modules about channels |
| `TaskComms` | `task_comms.hpp`, the queues, `log_task` | commands and records are records; a queued command carries the member of `param` its mode selects |
| `CommandSource` | what the input task promises the queue | abstract: any command of a set, then OFF rounds when silent |
| `UserCmdTask` | the parser | the union word by word; refines `CommandSource` |
| `DacCode` | `voltage_to_bin` | millivolts; truncation, and wrap to 16 bits |
| `AdcInputs` | the ADC as the channels see it | abstract: every operation is one step; with `AdcFaults` its writes may fail |
| `Channel` | `channel.cpp` | one operator per handler |
| `Coordinator` | `coordinator.cpp` | one action per pass of each of its loops |
| `Firmware` | the tasks, the ADC, the clock and resets together | the system's properties are here |
| `AdcDriver` | channel map, modes, waits and reads of `ad717x.c`, a register access at a time | handlers are scripts of driver calls, the chip runs between them, inputs are enabled and disabled one per step; refines `AdcInputs` |
| `AdcRegisters` | `AD717X_Init`, the setters, the register writes of the handlers, `ad717x_single_read`, `AD717X_remove` | the same scripts, every register bit by bit, with the error handling of each call |
| `Crc8` | the checksums of `ad717x.c` | a byte is the set of its bits; the bit loop against polynomial division |
| `NoOsUtil` | `no_os_util.c` | masks and wide arithmetic as operators, Euclid's loop as a state machine |
| `DacDriver` | `ad5761r.c` and the boot sequence of one DAC | settings, the control word packed of them bit by bit, and what the part reads in it |
| `SpiBus` | `no_os_spi.c`, `no_os_esp32_spi.c` | the bus table and the pins, a transfer in four steps of which two may fail, lists of transfers |
| `MC*` | - | constants for the runs; no definition of a model is replaced. `MCWords` puts `Crc8` and `NoOsUtil` side by side |
| `FirmwareProofs`, `FirmwareSafetyProofs`, `UserCmdTaskProofs`, `AdcDriverProofs`, `AdcRegistersProofs`, `DacDriverProofs`, `SpiBusProofs`, `WordsProofs` | - | theorems, section 6 |

`Firmware` EXTENDS `Coordinator` EXTENDS `Channel` EXTENDS `TaskComms` and
`AdcInputs`; `Firmware` also EXTENDS `CommandSource`. Two abstract modules make
the composition small enough to check: `CommandSource` stands for the parser and
`AdcInputs` for the register accesses of the ADC driver. Each of them is shown
to be what the detailed module does (`ImplementsSource`, `ImplementsInputs`).
The SPI layer, the DAC driver and the registers of the ADC are checked by
themselves; `Channel` uses of them that a write of the DAC takes effect or fails,
`AdcDriver` that a call which succeeds has changed the fields it names and no
others, which is what `AdcRegisters` states.

Definitions named "Mutant of ..." are wrong versions of the definition that
follows; no specification uses them. They document for each property a mistake
it would catch, and can be put in place of the right definition by hand.

### State and actions against the code

* `mode[c]`, `steady[c]`, `sweep[c]`, `cal[c]` are the members of the same name
  of `Channel` (`steady_params_`, `sweep_params_`, `current_sense_data_`).
  `finish_time_` is kept as `left`, the time from now to it, so that the clock
  is not a counter; it is negative once the time has passed. `dac[c]` is the
  code in the DAC of the channel, `nvs[c]` its record in flash.
* `pc` and `idx` say where `Coordinator::run` (or `init`) is. One action is one
  pass of a loop: `Drain` one command with the whole of `Channel::update`,
  `Dispatch` one sample with `compute_and_send_current`, `Run` one channel with
  `steady_run` or `sweep_run`. Between passes everything else may happen: input
  task, log task, conversions (`Sampling`), time (`Tick`), reset (`Reboot`).
* Handlers are atomic in `Firmware`. The coordinator is the only task that
  touches a channel, so all that can come between two statements of a handler
  is the ADC and the sends of the input task. That the ADC may come between two
  register accesses makes no difference as long as transfers succeed is what
  `ImplementsInputs` shows; the input task only appends to a queue that a
  handler does not read.
* `XQueueSend` drops when the queue is full; `DacAfter` keeps the old code when
  the transfer fails; `SetChannelStatus`, `InputsAfter` and `ChangeOdr` leave
  the ADC as it was, or an input disabled, when a write to it fails;
  `UpdateCalibration` keeps the old flash record when one of the three flash
  calls fails. These are the results the code ignores.

### Abstractions

* Voltages are whole millivolts, currents are represented by the code that drove
  them, and the rounding of the floats is left out: `VoltageToBin` truncates the
  exact quotient. Out of range the C conversion is undefined; the outcomes kept
  are those of the compiled code (wrap to 16 bits, 0 for a negative number).
* Parsed numbers are integers; `NaN` is one value that the tolerance check
  refuses. Channel ids are those of channels: neither the parser
  (`task_comms.cpp:57`) nor `Coordinator::run` checks them, and what an id of no
  channel does is outside the model.
* `single_sweep_steps_` and `done` are written and never read; left out. What the
  log task prints is left out; that it takes a record from the queue is not.
* A register of the ADC is, in `AdcRegisters`, the set of its bits that are 1,
  three times: in the cache, in the chip and as the device structure has it. In
  `AdcDriver` only the fields that decide about conversions remain, each set by
  the call that writes it.
* A garbled transfer is a transfer that fails. `Crc8` covers what the checksum
  of a read catches. With the checksum on the chip drops a disturbed write, of
  which the driver does not hear: `MaxLost` such writes in `AdcRegisters`.
* The words of `NoOsUtil` have `HalfBits` bits (double words twice as many) in
  place of 32 and 64, and bytes have `ByteSize` bits in place of 8.
* What fails at the ADC is split between two models. `Firmware` has its writes
  fail (`AdcFaults`), which can leave an input disabled or a rate as it was; a
  handler stays one step. Reads that fail, of the status or of a sample, and the
  steps within a handler are in `AdcDriver`, as is a failing write of the mode.
* The settings of the DAC are packed and read back by the fields of the data
  sheet (`Obeyed`), with the masks and shifts of `ad5761r.h`.
* STEADY's unit, stored in the low byte of `R_gain`, may make any number of it.
* The watchdog is only present as `Reboot`, at any step.

## 3. What the runs check

Every bound is a constant in the `.cfg`, or a set in the MC module.

| run | cfg | distinct states | shows |
|---|---|---|---|
| `one_channel` | `MCOneChannel` | 2,223,517 | every kind of command to one channel, in any order of commands, samples, time, failing writes to flash and to the ADC and one reset: an idle channel is at 0 V (`IdleSafe`), sweeps stay in bounds and do not jump (`SweepBounded`, `SweepNoJump`), the calibration is in tolerance (`CalInTolerance`), a timer is of its own run (`TimerOfThisRun`) |
| `two_channels` | `MCTwoChannels` | 423,529 | a sweep on one channel while the other runs, stops and calibrates: running channels stay converted (`RunningConverting`), STEADY outputs hold (`SteadyHolds`) |
| `link_loss` | `MCLinkLoss` | 62,349 | liveness: silence stops every channel (`LinkLossStops`) although a timed run stops by itself meanwhile; a timed run ends (`SteadyEnds`) |
| `sweep_ends` | `MCSweepEnds` | 74,660 | liveness: a sweep ends although the other channel is calibrated meanwhile (`SweepEnds`) |
| `parser` | `MCParser` | 207,467 | well-formed lines are enqueued as what they say after any other lines, complete, cut short or malformed (`WellFormedUnmixed`); the parser implements `CommandSource` |
| `adc_driver` | `MCAdcDriver` | 331,328 | three channels, every order of handlers, conversions and end of calibration, with and without bus faults and waits that run out: `MapMatchesChip`, `OffsetAlone`, `BackToContinuous`, `DispatchedOfThisPoll`, `CalibrationNotCut`, the refinement of `AdcInputs`, and that handlers return |
| `adc_registers` | `MCAdcRegisters` | 3,269,747 | the registers of the ADC through the initialisation and any sequence of handlers, a failure at any transfer and one write dropped by the chip: success of the initialisation means that every field is as configured (`ReadyWhenOk`), driver and chip agree on checksum and data length (`FrameAgrees`), the device structure is in the chip (`StructureIsCurrent`), a write carries every field as last set (`WriteCarriesAll`) |
| `words` | `MCWords` | 1,072,248 | the checksum is the polynomial remainder (`CrcIsRemainder`) and refuses every burst of up to 8 bits at every place of a short message (`OnlyCleanAccepted`); on all words of 4 bits fractions are reduced (`FractionReduced`), wide products and quotients exact (`WideProductExact`), fields and swapped bytes read back (`FieldRoundTrip`, `SwapTurnsOrder`) |
| `dac_driver` | `MCDacDriver` | 893,764 | every order of setters, data writes, resets, readbacks, pin calls and removal, with and without failing frames, each bit of the control register: `SettingsMatch`, `ReadbackCurrent`, `BootedAtZero` |
| `spi_bus` | `MCSpiBus` | 14,623 | the five devices, two of them on one bus number, one with a number out of range, lists of up to three messages; failing initialisations, transfers and extra transactions ahead of them: `BusCounted`, `SelectedAlone`, `ClockAtRest`, `ListToItsEnd` |
| `stop_faults` | `MCStopFaults` | violation | finding 1 |
| `malformed` | `MCMalformed` | violation | finding 2 |

### Bounds

* Commands per behaviour (`MaxCmds`): 2 in each run. Two is what every hazard
  about commands needs: one that starts a run and one that replaces, stops or
  disturbs it; the parser needs a line that leaves something behind (not
  bounded: such lines enqueue nothing) and one that is enqueued.
* Queue depths are 1 or 2 instead of 4, so that full queues happen. `CmdDepth`
  must not be smaller than the number of channels for `LinkLossStops`: with a
  shallower queue the OFF of the last channel could be lost in every round. The
  firmware has 4 and 4.
* One or two channels instead of 4: channels only meet at the ADC and at the
  queues, and two do. The ADC driver runs with three, since the calibration of
  one input handles the others one by one.
* Ranges of one and a half steps reach every comparison of the sweep, in and
  beyond the range. Units of 2 to 5 ticks are more than the loop needs for one
  pass, so the finish time falls in any place of it.
* One reset: a second one meets nothing the first has not left behind.
* `MaxPolls` is 2 instead of 9999: one poll that is not the last, and the last.
* `MCRates` are a rate of the table, the default, and one that is not in the
  table, the three ways the lookup of a rate can end.
* `AdcRegisters` has two channels, the least in which the channel registers
  differ; `MaxLost` is 1: a second dropped write leaves the chip as the first.
* `MaxMessages` is 3: a list can fail at its first, an inner and its last message.
* `HalfBits` is 4 and `ByteSize` 2: the halves, the carries between them and the
  bytes of a word all exist, and every pair of words is tried.
* `MCMessages` are a command and one or two bytes of data; the CRC is linear in
  the message, so that an error in the loop shows in short messages. Longer ones
  are the matter of the theorems of section 6.
* `MCDacDriver` varies three of the settings: two ranges, which differ in every
  bit, two clear voltages, and the flag next to them in the control word. The
  others keep their configured values; the theorems are about all of them.
* `AdcFaults` is `TRUE` in `one_channel` only. `RunningConverting` and the
  liveness of a sweep are lost with it, and rightly so: an input whose enabling
  failed is not converted, and nobody looks at the result (section 4).

### Fairness

`FairSpec` of `Firmware` asks for

* weak fairness of each action of a task: the scheduler of FreeRTOS runs the
  three tasks, none of which waits for another with a lock;
* strong fairness of `EndDrain` and `EndPoll`. A drain loop ends when a tick has
  passed without a command, a poll loop when a read finds no sample. Both can be
  kept from it only by a command, or a sample, in every pass for ever; commands
  come from a person or a script over USB, samples at 10 per second by default;
* strong fairness of `Sampling(c)`: the sequencer of the ADC takes the enabled
  inputs in turn. The liveness runs have `Overrun = FALSE`, which is the same
  assumption seen from the other side: a sample is read before the next is in;
* weak fairness of `Tick`; with `Urgent = TRUE` a command that waits in the queue
  is handled within the tick, since the coordinator waits for it there.

Nothing is assumed of the host: `HostAlive`, `HostCommand` and `HostSilent` are
not fair, and `LinkLossStops` leaves room for a host that comes back.
`HandlersReturn` in `AdcDriver` has weak fairness of the driver's own steps
(the coordinator is scheduled) and none of the chip.

## 4. Findings

Two statements of the documentation are refuted by a run:

1. `stop_faults`: "Drop DAC to 0 V, mark channel OFF" (`channel.hpp:77`).
   `stop()` ignores the result of the DAC write (`channel.cpp:152`). In TLC's
   trace a STEADY run has brought the output to 1 V when an OFF comes; the write
   fails, and the channel is IDLE with its output still at 1 V. Later OFF
   commands skip it because it is IDLE (`channel.cpp:52`). The half-scale code a
   reset leaves counts as 0 V here, so that a failing write at boot is not taken
   for this.
2. `malformed`: "Malformed lines are dropped silently." (`task_comms.hpp:121`). A
   line with a channel and an unknown keyword, or STEADY with an unknown unit,
   falls through to the send at `task_comms.cpp:124` and enqueues what earlier
   lines left in the record, under the new channel number.

Other differences between text and code were met while modelling. They follow
from a line or two of code and have no run:

* The final record of a run (`channel.hpp:77`) is lost when `data_queue` is full
  (`channel.cpp:160`).
* The record of a sweep sample carries the voltage of the next step, not the one
  at which the sample was taken (`channel.hpp:70`): `sweep_run` advances
  `present_volt` right after the write.
* A sweep whose step does not divide its range overshoots the range by less
  than a step (`task_comms.hpp:46-47`); `SweepBounded` states what does hold.
* Voltages are not clamped (`ReadMe.md:76`); out of range the code wraps.
* The tolerance of the reference is 1 % in the code, 0.5 % in a comment
  (`channel.hpp:28`).
* A failed read of the ADC leaves the last sample in the cache and the caller,
  which ignores the result, dispatches it again (`ad717x.c:611`); reads that go
  on failing keep the loop going. Before the first good read it is the 0 of the
  register table that is dispatched, to channel 0. What remains true is that the
  repeated sample is one of this poll loop (`DispatchedOfThisPoll`): the loop has
  ended only on a cache that said "not ready". `ImplementsInputs` assumes
  transfers that succeed.
* The result of enabling an ADC input is ignored (`channel.cpp:70`, `:77`): after
  a failing write the channel runs without samples, and its sweep never ends.
  `RunningConverting` is claimed without such failures.
* "This sets the correct SCLK idle level" (`no_os_esp32_spi.c:66`): not when the
  extra transaction fails, whose result is ignored (line 69). The slave is then
  selected with the clock at the level of the other mode. `ClockAtRest` confines
  it to the first message of a call.
* `ad5761r_set_daisy_chain_en_dis` stores the setting before it writes it
  (`ad5761r.c:187`). After a failing write a readback is allowed on a part whose
  SDO is off, and reports success with nothing read; `ReadbackCurrent` excepts
  this case and no other.
* "Returns 0 for success or negative error code" (`ad717x.c:779`): in the table
  loop of `AD717X_Init` the error of a write ends the loop and is then
  overwritten (`ad717x.c:834`); `ReadyWhenOk` of `AdcRegisters` states what is
  set all the same.
* The two condition queries of the DAC driver read back in one frame what needs
  two (`ad5761r.c:441` against `:146`); `GetCondition` models them and no
  property is stated of the answer.
* `no_os_mul_u64_u32_div` goes wrong when the product of the low halves does not
  fit 32 bits: `high` counts the upper half of `low_low` a second time and misses
  the carry. `WideProductExact` states it for smaller products. Nothing in the
  firmware calls it.
* `no_os_rational_best_approximation` returns 0/0 when the reduced fraction
  exceeds its limits; the comment above it promises the best approximation.
* `no_os_spi.h` allows NULL buffers and leaves it to `cs_change` whether the chip
  select goes up after a message; `no_os_spi_transfer` refuses the one with
  -EINVAL and, with this backend, always releases the chip select.
* The write and the list of transfers lock the mutex of the bus; the list calls
  the write while it holds it. It is harmless as the mutexes are empty functions.

## 5. What is not modelled

* The GPIO layer and the allocator of `no_os`: forwarding code without state; no
  GPIO descriptor exists in this firmware, so that the pin functions of the DAC
  driver only ever refuse, which is how they are modelled.
* The utilities that are one expression: counts of bits, searches (but the first
  set bit), `find_closest`, plain division, conversion of strings, sign extension.
* The DMA variants and the abort of the SPI layer: with this backend they return
  -ENOSYS and change nothing.
* The branches of `ad717x.c` for other parts than the AD7172-2 (the inputs of the
  AD411x, data registers of 16 and 32 bits).
* The build output and configuration.
* Time inside a handler: the task watchdog, the length of a wait for the ADC.
* The rounding of floats, the current formula, the text of the output.
* Priorities, stacks and core pinning of the tasks: any interleaving is allowed,
  which includes those the scheduler would not produce.
* Channel ids of no channel, as said above.

## 6. What is proved

Every safety property that a passing run checks, action properties and the two
refinements included, is also a theorem. The theorems hold for any number of
channels, queue depths, sets of commands or lines, tick lengths, widths of words,
lengths of messages and, unless stated, with every fault switched on. The
constants are only assumed to be of their types (the named `ASSUME`s).

| theorem | module | statement | beyond typing it needs |
|---|---|---|---|
| `TypeCorrect` | `FirmwareProofs` | `TypeOK`: queues stay within their depth, every DAC holds a 16-bit code | - |
| `CodesRise`, `ZeroVolts` | same | within twice the reference `voltage_to_bin` does not wrap, and a higher voltage never gets a lower code; 0 V is 32767 for every reference | - |
| `IdleIsSafe` | `FirmwareSafetyProofs` | `IdleSafe` | `~DacFaults` |
| `RunningIsConverting` | same | `RunningConverting` | `~AdcFaults` |
| `CalStaysInTolerance` | same | `CalInTolerance` | - |
| `TimerIsOfThisRun` | same | `TimerOfThisRun` | - |
| `SweepStaysBounded` | same | `SweepBounded` | commands with a positive step and a range that is not negative |
| `SweepsDoNotJump` | same | `SweepNoJump` | `~DacFaults`; commands as above with range and step within 4950 mV together |
| `SteadyRunsHold` | same | `SteadyHolds` | `~DacFaults`; no calibration commands |
| `ParserTypeCorrect`, `LinesAreUnmixed` | `UserCmdTaskProofs` | `TypeOK`, `WellFormedUnmixed` of the parser | - |
| `ParserIsSource` | same | the parser implements `CommandSource` | - |
| `MapIsTheChip`, `SamplesAreOfThisPoll` | `AdcDriverProofs` | `MapMatchesChip`, `DispatchedOfThisPoll` | - |
| `OffsetHasTheAdc`, `HandlersRestoreMode` | same | `OffsetAlone`, `BackToContinuous` | no bus faults (in the statement) |
| `CalibrationsComplete` | same | `CalibrationNotCut` | no bus faults, enough polls (in the statement) |
| `DriverImplementsInputs` | same | the driver implements `AdcInputs` | no bus faults (in the statement) |
| `RegistersTypeCorrect`, `WritesCarryAll` | `AdcRegistersProofs` | types; `WriteCarriesAll` | - |
| `StructureMatches`, `FramesAgree` | same | `StructureIsCurrent`, `FrameAgrees` | no dropped write (in the statement) |
| `ReadyOnSuccess` | same | `ReadyWhenOk` | no dropped write (in the statement) |
| `DacTypeCorrect`, `SettersWriteAll`, `ReadbackIsCurrent` | `DacDriverProofs` | `TypeOK`, `SettingsMatch`, `ReadbackCurrent` of `DacDriver` | - |
| `BootIsSound` | same | `BootedAtZero` | no transfer faults (in the statement) |
| `SlavesAreCounted`, `TransfersAreAlone`, `RestIsConfined`, `ListsRunToTheirEnd` | `SpiBusProofs` | `BusCounted`, `SelectedAlone`, `ClockAtRest`, `ListToItsEnd` | `Slaves` finite |
| `FractionsAreReduced`, `WideProductsAreExact`, `FieldsRoundTrip`, `SwapsTurnTheOrder` | `WordsProofs` | `FractionReduced`, `WideProductExact`, `FieldRoundTrip`, `SwapTurnsOrder` | - |
| `ChecksumIsRemainder`, `OnlyCleanIsAccepted` | same | `CrcIsRemainder`, `OnlyCleanAccepted` | bursts of at most 8 bits |

The arguments:

* `TypeOK` of `Firmware` is inductive by itself. The lemmas go handler by
  handler (`HandlerType` is what each keeps), then action by action.
* `IdleSafe` is not inductive: until `Coordinator::run` is reached the outputs
  are what the reset found. `OutputInv` adds that no channel runs before that
  and that the initialisation has brought every channel it has passed to 0 V.
  It carries `RunningConverting` along: `Stop` clears the mode and the enable
  bit together, and without failing writes a calibration gives back the inputs
  it took (`InputsAfter`).
* `CodesRise`: the quotient with its remainder is bounded on both sides by the
  range (`QuotientOf`), and each code is below the next voltage's dividend.
* `CalInTolerance` and `TimerOfThisRun` are inductive with `TypeOK`.
* `SweepBounded` needs `SweepInv`: step and range keep their signs from the
  queue to the sweep, so that every element of the queue is sound. Then each
  branch of `Advance` is linear arithmetic.
* `SweepNoJump` is a property of steps, but a step can only be judged against
  what the DAC holds. `JumpInv` says that it holds the code, under some reference
  within tolerance (calibrations come in between), of a voltage within a step of
  the next one. Codes are bounded from both sides by linear functions of voltage
  and reference; the `+ 2` of `MaxMove` is what three truncated quotients cost.
* `SteadyHolds` needs `HoldInv`: no calibration is queued, so the code a run
  wrote when it started is the code of its voltage as long as it runs.
* Parser: the record is shared by all lines, but every word of it is a number
  some line put there, and the words a well-formed line reads are those it has
  just written. Each step then maps to one of `CommandSource` or a stutter.
* `AdcDriver`: the place in the script of a handler (`Place`) determines the
  calls that are left and the mode and enable bits of the chip, and that RDY is
  high while a calibration runs; so a wait cannot see the RDY of a conversion
  that came before it. `PollInv` says of the cache that between two poll loops it
  says "not ready", or still has the 0 it was set up with.
* `ImplementsInputs`: `AdcInputs` changes enable bits and rates at once, at the
  beginning of a handler. The refinement therefore shows of each register what it
  will hold when the script is done (`AtEnd`: the value of the last call of the
  script that sets it, or the present one). A call leaves that value alone; the
  beginning of a handler changes it as `AdcInputs` says; a calibration, which
  puts a script of its own in front of the rest, gives back the inputs it took.
  The sample is hidden while a script is left. `Unread` says what may be in the
  data register, so that none of an input that was disabled shows at the end.
* `AdcRegisters`: the cache holds every field as it was last asked for, the masks
  of the fields of a register are disjoint, and a reset of the cache only comes
  as the first call of the initialisation.
* The other three properties of `AdcRegisters` relate cache, chip, structure and
  what is left of the script; none of them is inductive by itself. `Stage` says
  which calls can be left: the first three one by one, then calls of the
  initialisation or of a handler. `Agree`: a field differs from the structure
  only if its write failed in a handler, and then each later write sets it again.
  `Framed`: from the call on that reads back the checksum mode, the interface
  register of the chip is the cached one. `Owed`: of every field not yet as
  configured, and of every register whose cache is not in the chip, a write is
  left whose failure the initialisation reports. A script that ends with success
  owes nothing, which is `ReadyWhenOk`; the table loop that breaks off skips only
  writes that a later one repeats.
* `NoOsUtil`: the common divisors of the two registers of Euclid's loop are those
  of its arguments, so what it ends with divides both and is the greatest to.
  The division keeps `LongDivision`: the product is the divisor times the
  quotient so far, plus the remainder shifted over the bits of the low word that
  are to come, plus these; and the remainder is below the divisor. Byte orders and fields rest on the uniqueness of quotient and
  remainder, and on what the recursive readers give for every length.
* `Crc8`: the register is linear in the bits (`Linear`), so that the difference
  of the CRCs of a message and a disturbed one is the CRC of the burst. It gets a
  bit at the first flip, near the low end of the register; for the next seven
  bits that bit only moves up, and when it reaches the top the burst is over, and
  a register that is not 0 never becomes 0 by itself. The exclusive or of the
  bytes differs in the bit of the first flip, as no other flip within 8 bits has
  the same place in its byte. A message with its CRC sums up to 0, because the
  CRC is shifted out bit by bit. That the register is the remainder: at every bit
  the polynomial that is being divided is the register, shifted to where the loop
  is, and the bits to come.
* The provers cannot instantiate a theorem that takes an operator, which rules
  out the induction theorems of the library; what a recursive function gives is
  proved with the least index at which it would not (`Least`, from the well-foundedness of the
  natural numbers, and `Upwards`). `Recursion` shows that a function with a given
  start and step exists, which is what a recursive definition asks for.
* `DacDriver`: `BootInv` records what the boot has established after each of its
  steps, `ReadbackInv` that between its two frames the part has the register
  asked for on SDO and the call has not succeeded yet. That the part obeys the
  word of the settings (`WordsObeyed`) goes field by field: `PlacedBits` says
  where the bits of a number go, `CtrlWordHas` which bits of the word are of
  which setting, and `BitsOf` puts a number together again.
* `SpiBus`: `PinInv` ties the step of a transfer to the active slave and the
  slave to a descriptor. `ClockAtRest` needs that a message that went out leaves
  the clock at its slave's level, and that a list goes on only after one that
  did. The count of a bus follows from the cardinality of the
  descriptors with one more or one less.

Only model-checked: the liveness properties `LinkLossStops`, `SteadyEnds`,
`SweepEnds` and `HandlersReturn`. They rest on fairness, that is on `ENABLED`,
which the prover does not handle. For the same reason `ParserIsSource` and
`DriverImplementsInputs` are refinements of initial states and steps, without
fairness, as the two abstract modules promise none.

## 7. Plan

Done: the firmware as a whole, its two abstract interfaces with their
refinements, the drivers down to registers and pins, the SPI layer, the
utilities with something to get wrong, the theorems above.

Nothing but liveness is left to prove of the properties as they stand.

Next, to model:

1. the coordinator's boot in the detail of its calls, composed of `AdcRegisters`,
   `DacDriver` and `SpiBus`, to show that a failure at any of them leaves the
   descriptors consistent;
2. the path of one sweep as a whole: the sequence of voltages written, in closed
   form from range and step, against the steps of `SweepRun`;
3. an abstract channel (idle, running, stopping) that `Firmware` implements.

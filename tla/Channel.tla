------------------------------- MODULE Channel -------------------------------
(* The per-channel state machine (channel.cpp, channel.hpp): one AD5761R     *)
(* output and one input of the shared AD7172-2 per channel.  Handlers are    *)
(* operators over one channel `c`; Coordinator.tla decides when they run.    *)
EXTENDS TaskComms, AdcInputs

CONSTANTS
  UnitTicks,   \* UnitTicks[u]: length of a MIN .. MONTH in clock ticks
  DacFaults,   \* a write to a DAC may fail; no caller looks at the result
  NvsFaults    \* opening, writing or committing the NVS record may fail

ASSUME UnitTicksAssumption ==
         UnitTicks \in [TimeUnit \ {"INF"} -> Nat \ {0}]
ASSUME FaultsAssumption == DacFaults \in BOOLEAN /\ NvsFaults \in BOOLEAN

(* A number that compares with nothing; what atof makes of "nan".            *)
NaN == -1

VARIABLES
  mode,         \* mode[c]
  steady,       \* steady[c]: the parameters of the STEADY run
  sweep,        \* sweep[c]: the parameters and position of the SWEEP run
  cal,          \* cal[c]: current_sense_data_, the calibration in use
  nvs,          \* nvs[c]: the calibration record in flash, or NoRecord
  dac           \* dac[c]: the code the DAC of c holds

channelVars == <<mode, steady, sweep, cal, nvs, dac, adcEn, filterOdr, adcData>>

SteadyParams == [initialized : BOOLEAN, timer_en : BOOLEAN, voltage : Int,
                 duration : Int, left : Int]
SweepParams  == [phase : {"FIRST", "SECOND", "THIRD"}, range : Int,
                 step_size : Int, voltage : Int, next_step_rdy : BOOLEAN]
Calibration  == [r_1k : Int, r_gain : Int, dac_vref : Nat \ {0}]
NoRecord     == [r_1k |-> 0, r_gain |-> 0, dac_vref |-> 0]

CalDefault  == [r_1k |-> 1000, r_gain |-> 401, dac_vref |-> 2500]

ChannelTypeOK ==
  /\ mode \in [Channels -> RunModes \cup {"IDLE"}]
  /\ steady \in [Channels -> SteadyParams]
  /\ sweep \in [Channels -> SweepParams]
  /\ cal \in [Channels -> Calibration]
  /\ nvs \in [Channels -> Calibration \cup {NoRecord}]
  /\ dac \in [Channels -> DacCodes]
  /\ InputsTypeOK

-----------------------------------------------------------------------------
(* Pure parts of the handlers.                                               *)

(* The tolerance checks of set_calibration, 1 % of the nominal value each.   *)
WithinPercent(x, nominal) == 99 * nominal <= 100 * x /\ 100 * x <= 101 * nominal

(* Mutant of CalAccepted: the reference is not checked.                      *)
CalAcceptedNoVref(cmd) ==
  /\ NaN \notin {cmd.R_1k, cmd.R_gain, cmd.dac_vref}
  /\ WithinPercent(cmd.R_1k, CalDefault.r_1k)
  /\ WithinPercent(cmd.R_gain, CalDefault.r_gain)

CalAccepted(cmd) ==
  /\ NaN \notin {cmd.R_1k, cmd.R_gain, cmd.dac_vref}
  /\ WithinPercent(cmd.R_1k, CalDefault.r_1k)
  /\ WithinPercent(cmd.R_gain, CalDefault.r_gain)
  /\ WithinPercent(cmd.dac_vref, CalDefault.dac_vref)

CalOf(cmd) ==
  [r_1k |-> cmd.R_1k, r_gain |-> cmd.R_gain, dac_vref |-> cmd.dac_vref]

(* time_to_us: the timer is armed for the four real units and no other; the  *)
(* old duration stays in place when it is not.                               *)
TimeToUs(old, cmd) ==
  IF cmd.time_unit = "INF"
  THEN [old EXCEPT !.timer_en = FALSE]
  ELSE [old EXCEPT !.timer_en = TRUE,
                   !.duration = cmd.duration * UnitTicks[cmd.time_unit]]

(* Mutant of SteadyConfig: a restarted run is taken for one already started. *)
SteadyConfigStarted(old, cmd) == [TimeToUs(old, cmd) EXCEPT !.voltage = cmd.voltage]

(* The run a STEADY command asks for: steady_run has to start it.            *)
SteadyConfig(old, cmd) ==
  [TimeToUs(old, cmd) EXCEPT !.voltage = cmd.voltage, !.initialized = FALSE]

(* Mutant of Expired: the pass of the loop must meet the finish time.        *)
ExpiredOnTheDot(s) == s.timer_en /\ s.left = 0

(* The finish time has passed.                                               *)
Expired(s) == s.timer_en /\ s.left < 0

(* Mutant of SetSweepConfig: the sweep starts at its lower end.              *)
SetSweepConfigAtBottom(cmd) ==
  [phase |-> "FIRST", range |-> cmd.range, step_size |-> cmd.step_size,
   voltage |-> -cmd.range, next_step_rdy |-> FALSE]

SetSweepConfig(cmd) ==
  [phase |-> "FIRST", range |-> cmd.range, step_size |-> cmd.step_size,
   voltage |-> 0, next_step_rdy |-> FALSE]

(* The position after the voltage s.voltage has been written: the next       *)
(* voltage, or a change of phase at the same voltage.  SweepOver holds when  *)
(* sweep_run stops instead.                                                  *)
SweepOver(s) == s.phase = "THIRD" /\ s.voltage >= 0

(* Mutant of Advance: the upper end is taken for inside the range.           *)
AdvanceInclusive(s) ==
  CASE s.phase = "FIRST" /\ s.voltage <= s.range ->
         [s EXCEPT !.voltage = @ + s.step_size]
    [] s.phase = "FIRST" /\ s.voltage > s.range ->
         [s EXCEPT !.phase = "SECOND"]
    [] s.phase = "SECOND" /\ s.voltage > -s.range ->
         [s EXCEPT !.voltage = @ - s.step_size]
    [] s.phase = "SECOND" /\ s.voltage <= -s.range ->
         [s EXCEPT !.phase = "THIRD"]
    [] s.phase = "THIRD" ->
         [s EXCEPT !.voltage = @ + s.step_size]

Advance(s) ==
  CASE s.phase = "FIRST" /\ s.voltage < s.range ->
         [s EXCEPT !.voltage = @ + s.step_size]
    [] s.phase = "FIRST" /\ s.voltage >= s.range ->
         [s EXCEPT !.phase = "SECOND"]
    [] s.phase = "SECOND" /\ s.voltage > -s.range ->
         [s EXCEPT !.voltage = @ - s.step_size]
    [] s.phase = "SECOND" /\ s.voltage <= -s.range ->
         [s EXCEPT !.phase = "THIRD"]
    [] s.phase = "THIRD" ->
         [s EXCEPT !.voltage = @ + s.step_size]

-----------------------------------------------------------------------------
(* load_calibration: the record in flash, or the defaults when there is none *)
(* or it cannot be read.                                                     *)
Loadable(c) ==
  {IF nvs[c] = NoRecord THEN CalDefault ELSE nvs[c]}
    \cup (IF NvsFaults THEN {CalDefault} ELSE {})

(* ad5761r_write_update_dac_register: what the DAC of c may hold after a     *)
(* write of voltage v when it held one of the codes `held` before: the code  *)
(* of v, or what it held when the transfer fails.                            *)
DacAfter(c, held, v) ==
  VoltageToBin(v, cal[c].dac_vref) \cup (IF DacFaults THEN held ELSE {})

DacSet(c, codes) == \E code \in codes : dac' = [dac EXCEPT ![c] = code]

SendRecord(rec) == data_queue' = XQueueSend(data_queue, LogDepth, rec)

(* stop() when the DAC holds one of the codes `held`: 0 V, IDLE, a final     *)
(* record, the ADC input disabled.                                           *)
Stop(c, held) ==
  /\ DacSet(c, DacAfter(c, held, 0))
  /\ mode' = [mode EXCEPT ![c] = "IDLE"]
  /\ SendRecord([channel_id |-> c, mode |-> "IDLE", voltage |-> 0, current |-> 0])
  /\ SetChannelStatus(c, FALSE)

-----------------------------------------------------------------------------
(* update(cmd), one operator per mode of the command.                        *)

(* Mutant of UpdateIdle: the mode is switched without stop().                *)
UpdateIdleSoft(c) ==
  /\ mode' = [mode EXCEPT ![c] = "IDLE"]
  /\ UNCHANGED <<steady, sweep, cal, nvs, dac, adcEn, filterOdr, adcData, data_queue>>

UpdateIdle(c) ==
  /\ IF mode[c] # "IDLE" THEN Stop(c, {dac[c]})
     ELSE UNCHANGED <<dac, mode, data_queue, adcEn>>
  /\ UNCHANGED <<steady, sweep, cal, nvs, filterOdr, adcData>>

(* The calibration takes effect in RAM before it is written to flash; any    *)
(* of the three flash operations may fail, which ends the handler.           *)
UpdateCalibration(c, cmd) ==
  /\ IF CalAccepted(cmd)
     THEN /\ cal' = [cal EXCEPT ![c] = CalOf(cmd)]
          /\ \/ nvs' = [nvs EXCEPT ![c] = CalOf(cmd)]
             \/ NvsFaults /\ nvs' = nvs
     ELSE UNCHANGED <<cal, nvs>>
  /\ UNCHANGED <<mode, steady, sweep, dac, adcEn, filterOdr, adcData, data_queue>>

UpdateOdr(c, cmd) ==
  /\ ChangeOdr(c, cmd.odr_setting, dac[c])
  /\ UNCHANGED <<mode, steady, sweep, cal, nvs, dac, data_queue>>

UpdateSweep(c, cmd) ==
  /\ mode' = [mode EXCEPT ![c] = "SWEEP"]
  /\ SetChannelStatus(c, TRUE)
  /\ sweep' = [sweep EXCEPT ![c] = SetSweepConfig(cmd)]
  /\ UNCHANGED <<steady, cal, nvs, dac, filterOdr, adcData, data_queue>>

(* A run that is restarted keeps its old finish time until steady_run.       *)
UpdateSteady(c, cmd) ==
  /\ mode' = [mode EXCEPT ![c] = "STEADY"]
  /\ SetChannelStatus(c, TRUE)
  /\ steady' = [steady EXCEPT ![c] = SteadyConfig(@, cmd)]
  /\ UNCHANGED <<sweep, cal, nvs, dac, filterOdr, adcData, data_queue>>

Update(c, cmd) ==
  \/ cmd.mode = "IDLE"        /\ UpdateIdle(c)
  \/ cmd.mode = "CALIBRATION" /\ UpdateCalibration(c, cmd)
  \/ cmd.mode = "ODR"         /\ UpdateOdr(c, cmd)
  \/ cmd.mode = "SWEEP"       /\ UpdateSweep(c, cmd)
  \/ cmd.mode = "STEADY"      /\ UpdateSteady(c, cmd)

-----------------------------------------------------------------------------
(* init(), after a full reset of the DAC: calibration, 0 V, an ADC           *)
(* calibration, the ADC input disabled.  When transfers fail the DAC keeps   *)
(* the code it is reset to, or the one it held before.                       *)
ChannelInit(c) ==
  /\ \E k \in Loadable(c) :
       /\ cal' = [cal EXCEPT ![c] = k]
       /\ \E code \in VoltageToBin(0, k.dac_vref)
                       \cup (IF DacFaults THEN {dac[c], HalfScale} ELSE {}) :
            dac' = [dac EXCEPT ![c] = code]
  /\ CalibrateAndDisable(c, dac'[c])
  /\ UNCHANGED <<mode, steady, sweep, nvs, filterOdr>>

(* steady_run: the first pass of a run drives the DAC and starts the timer,  *)
(* a pass after the finish time stops the channel.  `left` is the time from  *)
(* now to finish_time_, negative once it has passed.                         *)
SteadyRun(c) ==
  LET first == ~steady[c].initialized
      s     == IF ~first THEN steady[c]
               ELSE [steady[c] EXCEPT
                       !.initialized = TRUE,
                       !.left = IF steady[c].timer_en THEN steady[c].duration
                                ELSE @]
      held  == IF first THEN DacAfter(c, {dac[c]}, s.voltage) ELSE {dac[c]}
  IN  /\ steady' = [steady EXCEPT ![c] = s]
      /\ IF Expired(s)
         THEN Stop(c, held)
         ELSE DacSet(c, held) /\ UNCHANGED <<mode, data_queue, adcEn>>
      /\ UNCHANGED <<sweep, cal, nvs, filterOdr, adcData>>

(* sweep_run: nothing until a sample of the last step is in; then write the  *)
(* voltage of the step and move on, or stop after the last one.              *)
SweepRun(c) ==
  LET s    == [sweep[c] EXCEPT !.next_step_rdy = FALSE]
      held == DacAfter(c, {dac[c]}, s.voltage)
  IN  /\ \/ /\ ~sweep[c].next_step_rdy
            /\ UNCHANGED <<sweep, dac, mode, data_queue, adcEn>>
         \/ /\ sweep[c].next_step_rdy
            /\ ~SweepOver(s)
            /\ sweep' = [sweep EXCEPT ![c] = Advance(s)]
            /\ DacSet(c, held)
            /\ UNCHANGED <<mode, data_queue, adcEn>>
         \/ /\ sweep[c].next_step_rdy
            /\ SweepOver(s)
            /\ sweep' = [sweep EXCEPT ![c] = s]
            /\ Stop(c, held)
      /\ UNCHANGED <<steady, cal, nvs, filterOdr, adcData>>

(* compute_and_send_current for a sample of channel c: nothing on an idle    *)
(* channel; otherwise a record, and a sweep may take its next step.          *)
ComputeAndSendCurrent(c, code) ==
  /\ IF mode[c] = "IDLE" THEN UNCHANGED data_queue
     ELSE SendRecord([channel_id |-> c, mode |-> mode[c], current |-> code,
                      voltage |-> IF mode[c] = "SWEEP" THEN sweep[c].voltage
                                  ELSE steady[c].voltage])
  /\ sweep' = IF mode[c] = "SWEEP"
              THEN [sweep EXCEPT ![c].next_step_rdy = TRUE] ELSE sweep
  /\ UNCHANGED <<mode, steady, cal, nvs, dac, adcEn, filterOdr>>
=============================================================================

------------------------- MODULE FirmwareSafetyProofs -------------------------
(* The safety invariants of Firmware, for every value of the constants.      *)
EXTENDS FirmwareProofs

(* The parts of the ADC inputs stand for their definitions throughout.       *)
USE DEF InputsTypeOK, SetChannelStatus, InputsAfter, ChangeOdr, CalibrateAndDisable, Converts

-----------------------------------------------------------------------------
(* An idle channel is at 0 V, unless writes to the DACs fail, and a running  *)
(* one is being converted, unless writes to the ADC fail.  Neither is        *)
(* inductive alone: before the loop starts every channel is idle, and the    *)
(* initialisation has brought the channels behind it to 0 V.                 *)

ChannelSafe(c) ==
  /\ mode[c] = "IDLE" /\ ~DacFaults => dac[c] = ZeroCode
  /\ mode[c] \in RunModes /\ ~AdcFaults => adcEn[c]

OutputInv ==
  /\ ~Booted => \A c \in Channels : mode[c] = "IDLE"
  /\ pc = "adc" => idx = 0
  /\ pc = "channels" /\ ~DacFaults =>
       \A c \in Channels : c < idx => dac[c] = ZeroCode
  /\ Booted => \A c \in Channels : ChannelSafe(c)

AllSafe == \A c \in Channels : ChannelSafe(c)

LEMMA StopSafe ==
  ASSUME ChannelTypeOK, AllSafe,
         NEW c \in Channels, NEW held, Stop(c, held)
  PROVE  AllSafe'
  <1>1. cal[c].dac_vref \in Nat \ {0}
    BY DEF ChannelTypeOK, Calibration
  <1>2. ~DacFaults => DacAfter(c, held, 0) = {ZeroCode}
    BY <1>1, ZeroVolts DEF DacAfter
  <1>3. ~DacFaults => dac' = [dac EXCEPT ![c] = ZeroCode]
    BY <1>2 DEF Stop, DacSet
  <1>4. \A d \in Channels \ {c} : dac'[d] = dac[d]
    BY DEF Stop, DacSet, ChannelTypeOK
  <1>5. QED
    BY <1>3, <1>4 DEF Stop, AllSafe, ChannelSafe, ChannelTypeOK, RunModes

(* Writing the output of a channel that keeps running.                       *)
LEMMA DriveSafe ==
  ASSUME ChannelTypeOK, AllSafe, NEW c \in Channels, NEW codes, DacSet(c, codes),
         mode[c] \in RunModes, UNCHANGED <<mode, adcEn>>
  PROVE  AllSafe'
  BY DEF DacSet, AllSafe, ChannelSafe, ChannelTypeOK, RunModes

LEMMA KeepSafe ==
  ASSUME AllSafe, UNCHANGED <<mode, dac, adcEn>>
  PROVE  AllSafe'
  BY DEF AllSafe, ChannelSafe

LEMMA UpdateSafe ==
  ASSUME ChannelTypeOK, AllSafe, NEW c \in Channels, NEW cmd, Update(c, cmd)
  PROVE  AllSafe'
  <1>1. CASE UpdateIdle(c)
    BY <1>1, StopSafe, KeepSafe DEF UpdateIdle
  <1>2. CASE UpdateCalibration(c, cmd)
    BY <1>2, KeepSafe DEF UpdateCalibration
  <1>3. CASE UpdateOdr(c, cmd)
    BY <1>3 DEF UpdateOdr, AdcInternalCalibration, AllSafe, ChannelSafe, ChannelTypeOK
  <1>4. CASE UpdateSweep(c, cmd)
    BY <1>4 DEF UpdateSweep, AllSafe, ChannelSafe, ChannelTypeOK, RunModes
  <1>5. CASE UpdateSteady(c, cmd)
    BY <1>5 DEF UpdateSteady, AllSafe, ChannelSafe, ChannelTypeOK, RunModes
  <1>6. QED
    BY <1>1, <1>2, <1>3, <1>4, <1>5 DEF Update

LEMMA RunSafe ==
  ASSUME ChannelTypeOK, AllSafe, NEW c \in Channels,
         \/ mode[c] = "STEADY" /\ SteadyRun(c)
         \/ mode[c] = "SWEEP" /\ SweepRun(c)
         \/ mode[c] = "IDLE" /\ UNCHANGED <<channelVars, data_queue>>
  PROVE  AllSafe'
  <1>1. CASE mode[c] = "STEADY" /\ SteadyRun(c)
    <2>1. PICK held : \/ Stop(c, held)
                      \/ DacSet(c, held) /\ UNCHANGED <<mode, data_queue, adcEn>>
      BY <1>1 DEF SteadyRun
    <2>2. QED
      BY <1>1, <2>1, StopSafe, DriveSafe DEF RunModes
  <1>2. CASE mode[c] = "SWEEP" /\ SweepRun(c)
    <2>1. PICK held : \/ Stop(c, held)
                      \/ DacSet(c, held) /\ UNCHANGED <<mode, data_queue, adcEn>>
                      \/ UNCHANGED <<sweep, dac, mode, data_queue, adcEn>>
      BY <1>2 DEF SweepRun
    <2>2. QED
      BY <1>2, <2>1, StopSafe, DriveSafe, KeepSafe DEF RunModes
  <1>3. CASE UNCHANGED <<channelVars, data_queue>>
    BY <1>3, KeepSafe DEF channelVars
  <1>4. QED
    BY <1>1, <1>2, <1>3

LEMMA OutputInvInit == Init => OutputInv
  BY DEF Init, CoordinatorInit, OutputInv, Booted, ChannelSafe, RunModes

LEMMA OutputInvNext ==
  ASSUME TypeOK, OutputInv, [Next]_vars
  PROVE  OutputInv'
  <1>1. ChannelTypeOK /\ CoordinatorTypeOK
    BY DEF TypeOK
  <1>2. ASSUME UNCHANGED <<mode, dac, adcEn, pc, idx>>
        PROVE  OutputInv'
    BY <1>2 DEF OutputInv, ChannelSafe, Booted
  <1>3. CASE HostCommand \/ HostAlive \/ HostSilent \/ FloodOff \/ Log \/ UNCHANGED vars \/ Tick
    BY <1>2, <1>3 DEF HostCommand, HostAlive, HostSilent, FloodOff, Log, Tick, channelVars,
                      coordinatorVars, vars
  <1>4. CASE \E c \in Channels : Sampling(c)
    BY <1>2, <1>4 DEF Sampling, Convert
  <1>5. CASE BootAdc
    BY <1>1, <1>5 DEF BootAdc, InitAdc, OutputInv, Booted, CoordinatorTypeOK, Channels
  <1>6. CASE BootFails
    BY <1>6 DEF BootFails, InitFails, channelVars, OutputInv, Booted
  <1>7. CASE BootChannel
    <2>1. /\ pc = "channels" /\ idx \in Channels
          /\ \A c \in Channels : mode[c] = "IDLE" /\ (~DacFaults /\ c < idx => dac[c] = ZeroCode)
          /\ mode' = mode
      BY <1>1, <1>7 DEF BootChannel, InitChannel, ChannelInit, OutputInv, Booted,
         CoordinatorTypeOK
    <2>2. \A k \in Loadable(idx) : k.dac_vref \in Nat \ {0}
      BY <1>1, <2>1 DEF Loadable, ChannelTypeOK, Calibration, CalDefault
    <2>3. ~DacFaults => dac' = [dac EXCEPT ![idx] = ZeroCode]
      BY <1>7, <2>2, ZeroVolts DEF BootChannel, InitChannel, ChannelInit
    <2>4. ~DacFaults => \A c \in Channels : c < idx + 1 => dac'[c] = ZeroCode
      <3>1. SUFFICES ASSUME ~DacFaults, NEW c \in Channels, c < idx + 1
                     PROVE  dac'[c] = ZeroCode
        OBVIOUS
      <3>2. dac' = [dac EXCEPT ![idx] = ZeroCode] /\ dac \in [Channels -> DacCodes]
        BY <1>1, <2>3, <3>1 DEF ChannelTypeOK
      <3>3. c < idx => dac[c] = ZeroCode
        BY <2>1, <3>1
      <3>4. c < idx \/ c = idx
        BY <2>1, <3>1 DEF Channels
      <3>5. QED
        BY <2>1, <3>2, <3>3, <3>4
    <2>5. CASE idx + 1 < NumChannels
      BY <1>7, <2>1, <2>4, <2>5 DEF BootChannel, InitChannel, OutputInv, Booted
    <2>6. CASE ~(idx + 1 < NumChannels)
      <3>1. \A c \in Channels : c < idx + 1
        BY <2>1, <2>6, NumChannelsAssumption DEF Channels
      <3>2. pc' = "drain"
        BY <1>7, <2>6 DEF BootChannel, InitChannel
      <3>3. QED
        BY <2>1, <2>4, <3>1, <3>2 DEF OutputInv, Booted, ChannelSafe, RunModes
    <2>7. QED
      BY <2>5, <2>6
  <1>8. CASE Drain \/ EndDrain \/ Dispatch \/ EndPoll \/ Run
    <2>1. Booted /\ AllSafe
      BY <1>8 DEF Drain, DrainCmd, EndDrain, DrainDone, Dispatch, PollSample, EndPoll,
                  PollDone, Run, RunChannel, OutputInv, Booted, AllSafe
    <2>2. pc' \in {"drain", "poll", "run"}
      BY <1>8 DEF Drain, DrainCmd, EndDrain, DrainDone, Dispatch, PollSample, EndPoll,
                  PollDone, Run, RunChannel
    <2>3. AllSafe'
      <3>1. CASE Drain
        <4>1. Head(user_cmd_queue) \in UserCmd
          BY <3>1, ReceiveType, DepthAssumption DEF Drain, DrainCmd, TypeOK, CommsTypeOK
        <4>2. Head(user_cmd_queue).channel_id \in Channels
          BY <4>1, CmdByMode
        <4>3. QED
          BY <1>1, <2>1, <3>1, <4>2, UpdateSafe DEF Drain, DrainCmd
      <3>2. CASE Run
        BY <1>1, <2>1, <3>2, RunSafe DEF Run, RunChannel, CoordinatorTypeOK
      <3>3. CASE EndDrain \/ Dispatch \/ EndPoll
        BY <2>1, <3>3, KeepSafe DEF EndDrain, DrainDone, Dispatch, PollSample,
           ComputeAndSendCurrent, EndPoll, PollDone, channelVars
      <3>4. QED
        BY <1>8, <3>1, <3>2, <3>3
    <2>4. QED
      BY <2>2, <2>3 DEF OutputInv, Booted, AllSafe
  <1>9. CASE Reboot
    BY <1>9 DEF Reboot, RamReset, OutputInv, Booted
  <1>10. QED
    BY <1>3, <1>4, <1>5, <1>6, <1>7, <1>8, <1>9 DEF Next

(* An idle channel holds 0 V, when writes to the DACs do not fail.           *)
THEOREM IdleIsSafe ==
  ASSUME ~DacFaults
  PROVE  Spec => []IdleSafe
  <1>1. TypeOK /\ OutputInv /\ [Next]_vars => OutputInv'
    BY OutputInvNext
  <1>2. OutputInv => IdleSafe
    BY DEF OutputInv, IdleSafe, ChannelSafe
  <1>3. QED
    BY <1>1, <1>2, OutputInvInit, TypeCorrect, PTL DEF Spec

(* A running channel has its ADC input enabled, when writes to the ADC do    *)
(* not fail.                                                                 *)
THEOREM RunningIsConverting ==
  ASSUME ~AdcFaults
  PROVE  Spec => []RunningConverting
  <1>1. TypeOK /\ OutputInv /\ [Next]_vars => OutputInv'
    BY OutputInvNext
  <1>2. OutputInv => RunningConverting
    BY DEF OutputInv, RunningConverting, ChannelSafe, RunModes
  <1>3. QED
    BY <1>1, <1>2, OutputInvInit, TypeCorrect, PTL DEF Spec

-----------------------------------------------------------------------------
(* The calibrations in RAM and in flash.                                     *)

LEMMA CalInToleranceInit == Init => CalInTolerance
  BY DEF Init, CoordinatorInit, CalInTolerance, InTolerance, WithinPercent, CalDefault

LEMMA CalInToleranceNext ==
  ASSUME TypeOK, CalInTolerance, [Next]_vars
  PROVE  CalInTolerance'
  <1>1. InTolerance(CalDefault)
    BY DEF InTolerance, WithinPercent, CalDefault
  <1>2. ASSUME UNCHANGED <<cal, nvs>>
        PROVE  CalInTolerance'
    BY <1>2 DEF CalInTolerance
  <1>3. CASE BootChannel
    <2>1. PICK k \in Loadable(idx) : cal' = [cal EXCEPT ![idx] = k] /\ nvs' = nvs
      BY <1>3 DEF BootChannel, InitChannel, ChannelInit
    <2>2. InTolerance(k)
      BY <1>1 DEF Loadable, CalInTolerance, TypeOK, CoordinatorTypeOK
    <2>3. QED
      BY <2>1, <2>2 DEF CalInTolerance, TypeOK, ChannelTypeOK, CoordinatorTypeOK
  <1>4. CASE Drain
    <2> DEFINE cmd == Head(user_cmd_queue)
               c   == cmd.channel_id
    <2>1. cmd \in UserCmd
      BY <1>4, ReceiveType, DepthAssumption DEF Drain, DrainCmd, TypeOK, CommsTypeOK
    <2>2. Update(c, cmd)
      BY <1>4 DEF Drain, DrainCmd
    <2> HIDE DEF cmd
    <2>3. CASE cmd.mode = "CALIBRATION" /\ UpdateCalibration(c, cmd)
      <3>1. cmd \in CalCmd
        BY <2>1, <2>3, CmdByMode
      <3>2. CASE CalAccepted(cmd)
        <4>1. InTolerance(CalOf(cmd))
          BY <3>1, <3>2, AcceptedIsCalibration
        <4>2. cal' = [cal EXCEPT ![c] = CalOf(cmd)]
              /\ (nvs' = [nvs EXCEPT ![c] = CalOf(cmd)] \/ nvs' = nvs)
          BY <2>3, <3>2 DEF UpdateCalibration
        <4>3. QED
          BY <4>1, <4>2 DEF CalInTolerance, TypeOK, ChannelTypeOK
      <3>3. CASE ~CalAccepted(cmd)
        BY <1>2, <2>3, <3>3 DEF UpdateCalibration
      <3>4. QED
        BY <3>2, <3>3
    <2>4. CASE UpdateIdle(c) \/ UpdateOdr(c, cmd) \/ UpdateSweep(c, cmd) \/ UpdateSteady(c, cmd)
      BY <1>2, <2>4 DEF UpdateIdle, UpdateOdr, UpdateSweep, UpdateSteady
    <2>5. QED
      BY <2>2, <2>3, <2>4 DEF Update
  <1>5. CASE Reboot
    BY <1>1, <1>5 DEF Reboot, RamReset, CalInTolerance
  <1>6. CASE BootAdc
    BY <1>6 DEF BootAdc, InitAdc, NvsInit, CalInTolerance
  <1>7. CASE Run
    BY <1>2, <1>7 DEF Run, RunChannel, SteadyRun, SweepRun, channelVars
  <1>8. CASE \/ HostCommand \/ HostAlive \/ HostSilent \/ FloodOff \/ Log \/ BootFails
             \/ EndDrain \/ Dispatch \/ EndPoll \/ Tick \/ UNCHANGED vars
             \/ \E c \in Channels : Sampling(c)
    BY <1>2, <1>8 DEF HostCommand, HostAlive, HostSilent, FloodOff, Log, BootFails,
       InitFails, EndDrain, DrainDone, Dispatch, PollSample, ComputeAndSendCurrent,
       EndPoll, PollDone, Tick, Sampling, Convert, channelVars, vars
  <1>9. QED
    BY <1>3, <1>4, <1>5, <1>6, <1>7, <1>8 DEF Next

(* The calibration in use and the one the next boot loads are in tolerance.  *)
THEOREM CalStaysInTolerance == Spec => []CalInTolerance
  BY CalInToleranceInit, CalInToleranceNext, TypeCorrect, PTL DEF Spec

-----------------------------------------------------------------------------
(* The timer of a STEADY run.                                                *)

LEMMA TimerInit == Init => TimerOfThisRun
  BY DEF Init, CoordinatorInit, TimerOfThisRun

(* A command always leaves a run to be started; the pass that starts it arms *)
(* the timer with the duration of this run; the clock only counts down.      *)
LEMMA TimerNext ==
  ASSUME TypeOK, TimerOfThisRun, [Next]_vars
  PROVE  TimerOfThisRun'
  <1>1. /\ steady \in [Channels -> SteadyParams]
        /\ mode \in [Channels -> RunModes \cup {"IDLE"}]
        /\ idx \in Channels
    BY DEF TypeOK, ChannelTypeOK, CoordinatorTypeOK
  <1>2. ASSUME UNCHANGED <<mode, steady>>
        PROVE  TimerOfThisRun'
    BY <1>2 DEF TimerOfThisRun
  <1>3. ASSUME NEW c \in Channels, UNCHANGED steady,
               mode' = [mode EXCEPT ![c] = "IDLE"] \/ mode' = [mode EXCEPT ![c] = "SWEEP"]
        PROVE  TimerOfThisRun'
    BY <1>1, <1>3 DEF TimerOfThisRun
  <1>4. CASE Drain
    <2> DEFINE cmd == Head(user_cmd_queue)
               c   == cmd.channel_id
    <2>1. cmd \in UserCmd
      BY <1>4, ReceiveType, DepthAssumption DEF Drain, DrainCmd, TypeOK, CommsTypeOK
    <2>2. Update(c, cmd)
      BY <1>4 DEF Drain, DrainCmd
    <2>3. c \in Channels
      BY <2>1 DEF UserCmd, SteadyCmd, SweepCmd, CalCmd, OdrCmd, OffCmd
    <2> HIDE DEF cmd
    <2>4. CASE UpdateIdle(c)
      BY <1>2, <1>3, <2>3, <2>4 DEF UpdateIdle, Stop
    <2>5. CASE UpdateCalibration(c, cmd) \/ UpdateOdr(c, cmd)
      BY <1>2, <2>5 DEF UpdateCalibration, UpdateOdr
    <2>6. CASE UpdateSweep(c, cmd)
      BY <1>3, <2>3, <2>6 DEF UpdateSweep
    <2>7. CASE UpdateSteady(c, cmd)
      <3>1. ~SteadyConfig(steady[c], cmd).initialized
        BY <1>1, <2>3 DEF SteadyConfig, TimeToUs, SteadyParams
      <3>2. QED
        BY <1>1, <2>3, <2>7, <3>1 DEF UpdateSteady, TimerOfThisRun
    <2>8. QED
      BY <2>2, <2>4, <2>5, <2>6, <2>7 DEF Update
  <1>5. CASE Run
    <2>1. CASE SteadyRun(idx)
      <3>1. steady'[idx].initialized /\ steady'[idx].timer_en =>
              \/ steady'[idx] = steady[idx] /\ steady[idx].initialized
              \/ steady'[idx].left = steady'[idx].duration
        BY <1>1, <2>1 DEF SteadyRun, SteadyParams
      <3>2. \A d \in Channels : d # idx => steady'[d] = steady[d]
        BY <1>1, <2>1 DEF SteadyRun
      <3>3. \A d \in Channels : mode'[d] = mode[d] \/ mode'[d] = "IDLE"
        BY <1>1, <2>1 DEF SteadyRun, Stop
      <3>4. steady' \in [Channels -> SteadyParams]
        BY NextType DEF TypeOK, ChannelTypeOK
      <3>5. QED
        BY <1>1, <3>1, <3>2, <3>3, <3>4, <1>5, <2>1 DEF TimerOfThisRun, SteadyParams
    <2>2. CASE SweepRun(idx)
      BY <1>1, <1>2, <1>3, <2>2 DEF SweepRun, Stop
    <2>3. QED
      BY <1>2, <1>5, <2>1, <2>2 DEF Run, RunChannel, channelVars
  <1>6. CASE Tick
    <2>1. ASSUME NEW d \in Channels
          PROVE  /\ steady'[d].initialized = steady[d].initialized
                 /\ steady'[d].timer_en = steady[d].timer_en
                 /\ steady'[d].duration = steady[d].duration
                 /\ steady'[d].left <= steady[d].left
      <3>1. steady[d] \in SteadyParams
        BY <1>1
      <3>2. steady'[d] = [steady[d] EXCEPT !.left = IF @ < 0 THEN @ ELSE @ - 1]
        BY <1>6 DEF Tick, TimerTick
      <3>3. QED
        BY <3>1, <3>2 DEF SteadyParams
    <2>2. \A d \in Channels : steady[d] \in SteadyParams /\ steady'[d] \in SteadyParams
      BY <1>1, NextType DEF TypeOK, ChannelTypeOK
    <2>3. mode' = mode
      BY <1>6 DEF Tick
    <2>4. QED
      BY <2>1, <2>2, <2>3 DEF TimerOfThisRun, SteadyParams
  <1>7. CASE Reboot
    BY <1>7 DEF Reboot, RamReset, TimerOfThisRun
  <1>8. CASE \/ HostCommand \/ HostAlive \/ HostSilent \/ FloodOff \/ Log \/ BootAdc
             \/ BootChannel \/ BootFails \/ EndDrain \/ Dispatch \/ EndPoll
             \/ UNCHANGED vars \/ \E c \in Channels : Sampling(c)
    BY <1>2, <1>8 DEF HostCommand, HostAlive, HostSilent, FloodOff, Log, BootAdc, InitAdc,
       BootChannel, InitChannel, ChannelInit, BootFails, InitFails, EndDrain, DrainDone,
       Dispatch, PollSample, ComputeAndSendCurrent, EndPoll, PollDone, Sampling, Convert,
       channelVars, vars
  <1>9. QED
    BY <1>4, <1>5, <1>6, <1>7, <1>8 DEF Next

(* What is left of a STEADY run is never more than its own duration.         *)
THEOREM TimerIsOfThisRun == Spec => []TimerOfThisRun
  BY TimerInit, TimerNext, TypeCorrect, PTL DEF Spec

-----------------------------------------------------------------------------
(* The sweep.  The bounds are inductive once the commands carry a positive   *)
(* step and a range that is not negative, which they do from the host to     *)
(* the queue and from the queue to the channel.                              *)

SoundSweep(cmd) == cmd.mode = "SWEEP" => cmd.range >= 0 /\ cmd.step_size > 0

SoundCmd == {cmd \in UserCmd : SoundSweep(cmd)}

WithinRange(s) ==
  /\ s.range >= 0
  /\ s.step_size > 0
  /\ s.phase = "FIRST" => 0 <= s.voltage
  /\ s.phase \in {"FIRST", "SECOND"} => s.voltage < s.range + s.step_size
  /\ s.phase \in {"SECOND", "THIRD"} => s.voltage > -s.range - s.step_size
  /\ s.phase = "THIRD" => s.voltage < s.step_size

SweepInv ==
  /\ user_cmd_queue \in Seq(SoundCmd)
  /\ \A c \in Channels : mode[c] = "SWEEP" => WithinRange(sweep[c])

LEMMA FreshSweep ==
  ASSUME NEW cmd \in SweepCmd, cmd.range >= 0, cmd.step_size > 0
  PROVE  WithinRange(SetSweepConfig(cmd))
  BY DEF SetSweepConfig, WithinRange, SweepCmd

LEMMA AdvanceWithinRange ==
  ASSUME NEW s \in SweepParams, WithinRange(s), ~SweepOver(s)
  PROVE  WithinRange(Advance(s))
  <1>1. CASE s.phase = "FIRST"
    BY <1>1 DEF SweepParams, WithinRange, Advance
  <1>2. CASE s.phase = "SECOND"
    BY <1>2 DEF SweepParams, WithinRange, Advance
  <1>3. CASE s.phase = "THIRD"
    BY <1>3 DEF SweepParams, WithinRange, Advance, SweepOver
  <1>4. QED
    BY <1>1, <1>2, <1>3 DEF SweepParams

(* Marking a sample as seen, or as taken, does not move the sweep.           *)
LEMMA FlagWithinRange ==
  ASSUME NEW s \in SweepParams, WithinRange(s), NEW flag \in BOOLEAN
  PROVE  WithinRange([s EXCEPT !.next_step_rdy = flag])
  BY DEF SweepParams, WithinRange

LEMMA SweepInvNext ==
  ASSUME \A cmd \in Commands : SoundSweep(cmd), TypeOK, SweepInv, [Next]_vars
  PROVE  SweepInv'
  <1>1. /\ sweep \in [Channels -> SweepParams]
        /\ mode \in [Channels -> RunModes \cup {"IDLE"}]
        /\ CmdDepth \in Nat /\ Len(user_cmd_queue) <= CmdDepth
    BY DepthAssumption DEF TypeOK, ChannelTypeOK, CommsTypeOK
  <1>2. ASSUME UNCHANGED <<mode, sweep>> PROVE
        \A c \in Channels : mode'[c] = "SWEEP" => WithinRange(sweep'[c])
    BY <1>2 DEF SweepInv
  <1>3. ASSUME UNCHANGED <<user_cmd_queue, mode, sweep>> PROVE SweepInv'
    BY <1>3 DEF SweepInv
  <1>4. CASE HostCommand
    <2>1. PICK cmd \in Commands : Offer(cmd)
      BY <1>4 DEF HostCommand
    <2>2. cmd \in SoundCmd
      BY CommandsAssumption DEF SoundCmd
    <2>3. user_cmd_queue' \in Seq(SoundCmd)
      BY <1>1, <2>1, <2>2, SendType DEF Offer, SweepInv
    <2>4. QED
      BY <1>2, <1>4, <2>3 DEF HostCommand, channelVars, SweepInv
  <1>5. CASE FloodOff
    <2> DEFINE off == [channel_id |-> floodNext, mode |-> "IDLE"]
    <2>1. off \in SoundCmd
      BY DEF SoundCmd, SoundSweep, UserCmd, OffCmd, TypeOK, SourceTypeOK
    <2>2. user_cmd_queue' \in Seq(SoundCmd)
      BY <1>1, <1>5, <2>1, SendType DEF FloodOff, SendOff, SweepInv
    <2>3. QED
      BY <1>2, <1>5, <2>2 DEF FloodOff, channelVars, SweepInv
  <1>6. CASE Drain
    <2> DEFINE cmd == Head(user_cmd_queue)
               c   == cmd.channel_id
    <2>1. cmd \in SoundCmd /\ user_cmd_queue' \in Seq(SoundCmd)
      BY <1>1, <1>6, ReceiveType DEF Drain, DrainCmd, SweepInv
    <2>2. cmd \in UserCmd /\ SoundSweep(cmd)
      BY <2>1 DEF SoundCmd
    <2>3. Update(c, cmd)
      BY <1>6 DEF Drain, DrainCmd
    <2> HIDE DEF cmd
    <2>4. c \in Channels
      BY <2>2, CmdByMode
    <2>5. CASE cmd.mode = "SWEEP" /\ UpdateSweep(c, cmd)
      <3>1. WithinRange(SetSweepConfig(cmd))
        BY <2>2, <2>5, CmdByMode, FreshSweep DEF SoundSweep
      <3>2. sweep' = [sweep EXCEPT ![c] = SetSweepConfig(cmd)]
            /\ mode' = [mode EXCEPT ![c] = "SWEEP"]
        BY <2>5 DEF UpdateSweep
      <3>3. QED
        BY <1>1, <2>1, <2>4, <3>1, <3>2 DEF SweepInv
    <2>6. CASE UpdateSteady(c, cmd)
      BY <1>1, <2>1, <2>6 DEF UpdateSteady, SweepInv
    <2>7. CASE UpdateIdle(c)
      BY <1>1, <1>2, <2>1, <2>7 DEF UpdateIdle, Stop, SweepInv
    <2>8. CASE UpdateCalibration(c, cmd) \/ UpdateOdr(c, cmd)
      BY <1>2, <2>1, <2>8 DEF UpdateCalibration, UpdateOdr, SweepInv
    <2>9. QED
      BY <2>3, <2>5, <2>6, <2>7, <2>8 DEF Update
  <1>7. CASE Dispatch
    <2> DEFINE c == adcData.ch_num
    <2>1. /\ user_cmd_queue' = user_cmd_queue /\ mode' = mode
          /\ sweep' = IF mode[c] = "SWEEP"
                      THEN [sweep EXCEPT ![c].next_step_rdy = TRUE] ELSE sweep
      BY <1>7 DEF Dispatch, PollSample, ComputeAndSendCurrent
    <2>2. QED
      BY <1>1, <2>1, FlagWithinRange DEF SweepInv
  <1>8. CASE Run
    <2> DEFINE s == [sweep[idx] EXCEPT !.next_step_rdy = FALSE]
    <2>1. user_cmd_queue' = user_cmd_queue /\ idx \in Channels
      BY <1>8 DEF Run, RunChannel, TypeOK, CoordinatorTypeOK
    <2>2. CASE mode[idx] = "SWEEP" /\ SweepRun(idx)
      <3>1. s \in SweepParams
        BY <1>1, <2>1 DEF SweepParams
      <3>2. WithinRange(s)
        BY <1>1, <2>1, <2>2, FlagWithinRange DEF SweepInv
      <3>3. CASE UNCHANGED <<sweep, dac, mode, data_queue, adcEn>>
        BY <1>3, <2>1, <3>3
      <3>4. CASE /\ ~SweepOver(s) /\ sweep' = [sweep EXCEPT ![idx] = Advance(s)]
                 /\ mode' = mode
        <4>1. WithinRange(Advance(s))
          BY <3>1, <3>2, <3>4, AdvanceWithinRange
        <4>2. QED
          BY <1>1, <2>1, <3>4, <4>1 DEF SweepInv
      <3>5. CASE /\ sweep' = [sweep EXCEPT ![idx] = s]
                 /\ mode' = [mode EXCEPT ![idx] = "IDLE"]
        BY <1>1, <2>1, <3>5 DEF SweepInv
      <3>6. QED
        BY <2>2, <3>3, <3>4, <3>5 DEF SweepRun, Stop
    <2>3. CASE mode[idx] = "STEADY" /\ SteadyRun(idx)
      <3>1. sweep' = sweep /\ (mode' = mode \/ mode' = [mode EXCEPT ![idx] = "IDLE"])
        BY <2>3 DEF SteadyRun, Stop
      <3>2. QED
        BY <1>1, <2>1, <3>1 DEF SweepInv
    <2>4. CASE UNCHANGED <<channelVars, data_queue>>
      BY <1>3, <2>1, <2>4 DEF channelVars
    <2>5. QED
      BY <1>8, <2>2, <2>3, <2>4 DEF Run, RunChannel
  <1>9. CASE Reboot
    <2>1. user_cmd_queue' = <<>> /\ mode' = [c \in Channels |-> "IDLE"]
      BY <1>9 DEF Reboot, RamReset
    <2>2. QED
      BY <2>1 DEF SweepInv
  <1>10. CASE \/ HostAlive \/ HostSilent \/ Log \/ BootAdc \/ BootChannel \/ BootFails
              \/ EndDrain \/ EndPoll \/ Tick \/ UNCHANGED vars
              \/ \E c \in Channels : Sampling(c)
    BY <1>3, <1>10 DEF HostAlive, HostSilent, commsVars, Log, BootAdc, InitAdc, BootChannel,
       InitChannel,
       ChannelInit, BootFails, InitFails, EndDrain, DrainDone, EndPoll, PollDone, Tick, Sampling,
       Convert, channelVars, vars
  <1>11. QED
    BY <1>4, <1>5, <1>6, <1>7, <1>8, <1>9, <1>10 DEF Next

(* A sweep turns around within one step of its range and ends within one     *)
(* step of 0, for every positive step and every range.                       *)
THEOREM SweepStaysBounded ==
  ASSUME \A cmd \in Commands : SoundSweep(cmd)
  PROVE  Spec => []SweepBounded
  <1>1. Init => SweepInv
    BY DEF Init, CommsInit, CoordinatorInit, SweepInv
  <1>2. TypeOK /\ SweepInv /\ [Next]_vars => SweepInv'
    BY SweepInvNext
  <1>3. SweepInv => SweepBounded
    BY DEF SweepInv, SweepBounded, WithinRange
  <1>4. QED
    BY <1>1, <1>2, <1>3, TypeCorrect, PTL DEF Spec

-----------------------------------------------------------------------------
(* The output of a STEADY run.  Without calibrations the reference of a      *)
(* channel is that of its initialisation, when no channel runs.              *)

QuietCmd == {cmd \in UserCmd : cmd.mode # "CALIBRATION"}

Holding(c) == mode[c] = "STEADY" /\ steady[c].initialized =>
  dac[c] \in VoltageToBin(steady[c].voltage, cal[c].dac_vref)

HoldInv ==
  /\ user_cmd_queue \in Seq(QuietCmd)
  /\ \A c \in Channels : Holding(c)

(* What happens to one channel leaves the others as they are.                *)
LEMMA HoldingElsewhere ==
  ASSUME ChannelTypeOK, \A c \in Channels : Holding(c), NEW c \in Channels, Holding(c)',
         NEW m, NEW s, NEW codes,
         mode' = mode \/ mode' = [mode EXCEPT ![c] = m],
         steady' = steady \/ steady' = [steady EXCEPT ![c] = s],
         dac' = dac \/ DacSet(c, codes),
         cal' = cal
  PROVE  \A d \in Channels : Holding(d)'
  <1>1. ASSUME NEW d \in Channels, d # c
        PROVE  mode'[d] = mode[d] /\ steady'[d] = steady[d] /\ dac'[d] = dac[d]
    BY <1>1 DEF ChannelTypeOK, DacSet
  <1>2. ASSUME NEW d \in Channels, d # c PROVE Holding(d)'
    BY <1>1, <1>2 DEF Holding
  <1>3. QED
    BY <1>2

LEMMA StopHolding ==
  ASSUME ChannelTypeOK, NEW c \in Channels, NEW held, Stop(c, held)
  PROVE  Holding(c)'
  BY DEF Stop, Holding, ChannelTypeOK

LEMMA HoldInvNext ==
  ASSUME ~DacFaults, \A cmd \in Commands : cmd.mode # "CALIBRATION",
         TypeOK, OutputInv, HoldInv, [Next]_vars
  PROVE  HoldInv'
  <1>1. /\ ChannelTypeOK
        /\ CmdDepth \in Nat /\ Len(user_cmd_queue) <= CmdDepth
    BY DepthAssumption DEF TypeOK, CommsTypeOK
  <1>2. ASSUME UNCHANGED <<mode, steady, dac, cal>>
        PROVE  \A c \in Channels : Holding(c)'
    BY <1>2 DEF HoldInv, Holding
  <1>3. CASE HostCommand
    <2>1. PICK cmd \in Commands : Offer(cmd)
      BY <1>3 DEF HostCommand
    <2>2. cmd \in QuietCmd
      BY CommandsAssumption DEF QuietCmd
    <2>3. user_cmd_queue' \in Seq(QuietCmd)
      BY <1>1, <2>1, <2>2, SendType DEF Offer, HoldInv
    <2>4. QED
      BY <1>2, <1>3, <2>3 DEF HostCommand, channelVars, HoldInv
  <1>4. CASE FloodOff
    <2> DEFINE off == [channel_id |-> floodNext, mode |-> "IDLE"]
    <2>1. off \in QuietCmd
      BY DEF QuietCmd, UserCmd, OffCmd, TypeOK, SourceTypeOK
    <2>2. user_cmd_queue' \in Seq(QuietCmd)
      BY <1>1, <1>4, <2>1, SendType DEF FloodOff, SendOff, HoldInv
    <2>3. QED
      BY <1>2, <1>4, <2>2 DEF FloodOff, channelVars, HoldInv
  <1>5. CASE Drain
    <2> DEFINE cmd == Head(user_cmd_queue)
    <2>1. cmd \in QuietCmd /\ user_cmd_queue' \in Seq(QuietCmd)
      BY <1>1, <1>5, ReceiveType DEF Drain, DrainCmd, HoldInv
    <2>2. cmd \in UserCmd /\ cmd.mode # "CALIBRATION"
      BY <2>1 DEF QuietCmd
    <2>3. Update(cmd.channel_id, cmd)
      BY <1>5 DEF Drain, DrainCmd
    <2> HIDE DEF cmd
    <2>4. PICK c \in Channels : c = cmd.channel_id
      BY <2>2, CmdByMode
    <2>7. Update(c, cmd)
      BY <2>3, <2>4
    <2>5. \A d \in Channels : Holding(d)'
      <3>1. CASE UpdateIdle(c)
        <4>1. CASE Stop(c, {dac[c]})
          <5>1. Holding(c)'
            BY <1>1, <2>4, <4>1, StopHolding
          <5>2. /\ mode' = [mode EXCEPT ![c] = "IDLE"] /\ steady' = steady /\ cal' = cal
                /\ DacSet(c, DacAfter(c, {dac[c]}, 0))
            BY <3>1, <4>1 DEF UpdateIdle, Stop
          <5>3. QED
            BY <1>1, <2>4, <5>1, <5>2, HoldingElsewhere DEF HoldInv
        <4>2. QED
          BY <1>2, <3>1, <4>1 DEF UpdateIdle
      <3>2. CASE UpdateOdr(c, cmd)
        BY <1>2, <3>2 DEF UpdateOdr
      <3>3. CASE UpdateSweep(c, cmd)
        <4>1. /\ mode' = [mode EXCEPT ![c] = "SWEEP"] /\ steady' = steady /\ cal' = cal
              /\ dac' = dac
          BY <3>3 DEF UpdateSweep
        <4>2. Holding(c)'
          BY <1>1, <2>4, <4>1 DEF Holding, ChannelTypeOK
        <4>3. QED
          BY <1>1, <2>4, <4>1, <4>2, HoldingElsewhere DEF HoldInv
      <3>4. CASE UpdateSteady(c, cmd)
        <4>1. /\ mode' = [mode EXCEPT ![c] = "STEADY"] /\ cal' = cal /\ dac' = dac
              /\ steady' = [steady EXCEPT ![c] = SteadyConfig(steady[c], cmd)]
          BY <3>4 DEF UpdateSteady
        <4>2. ~SteadyConfig(steady[c], cmd).initialized
          BY <1>1, <2>4 DEF SteadyConfig, TimeToUs, SteadyParams, ChannelTypeOK
        <4>3. Holding(c)'
          BY <1>1, <2>4, <4>1, <4>2 DEF Holding, ChannelTypeOK
        <4>4. QED
          BY <1>1, <2>4, <4>1, <4>3, HoldingElsewhere DEF HoldInv
      <3>5. QED
        BY <2>2, <2>7, <3>1, <3>2, <3>3, <3>4 DEF Update
    <2>6. QED
      BY <2>1, <2>5 DEF HoldInv
  <1>6. CASE Run
    <2>1. user_cmd_queue' = user_cmd_queue
      BY <1>6 DEF Run, RunChannel
    <2>6. PICK i \in Channels : i = idx
      BY <1>6 DEF Run, RunChannel, TypeOK, CoordinatorTypeOK
    <2>2. CASE mode[i] = "STEADY" /\ SteadyRun(i)
      <3> DEFINE old  == steady[i]
                 s    == IF old.initialized THEN old
                         ELSE [old EXCEPT !.initialized = TRUE,
                                          !.left = IF old.timer_en THEN old.duration ELSE @]
                 held == IF old.initialized THEN {dac[i]}
                         ELSE DacAfter(i, {dac[i]}, s.voltage)
      <3>1. /\ steady' = [steady EXCEPT ![i] = s] /\ cal' = cal
            /\ \/ Stop(i, held)
               \/ DacSet(i, held) /\ mode' = mode
        BY <2>2 DEF SteadyRun
      <3>2. old \in SteadyParams
        BY <1>1, <2>1, <2>6 DEF ChannelTypeOK
      <3>3. held \subseteq VoltageToBin(s.voltage, cal[i].dac_vref)
        <4>1. CASE old.initialized
          BY <2>1, <2>6, <2>2, <4>1 DEF HoldInv, Holding
        <4>2. CASE ~old.initialized
          BY <4>2 DEF DacAfter
        <4>3. QED
          BY <4>1, <4>2
      <3> HIDE DEF s, held
      <3>4. CASE Stop(i, held)
        <4>1. Holding(i)'
          BY <1>1, <2>1, <2>6, <3>4, StopHolding
        <4>2. mode' = [mode EXCEPT ![i] = "IDLE"] /\ DacSet(i, DacAfter(i, held, 0))
          BY <3>4 DEF Stop
        <4>3. \A d \in Channels : Holding(d)'
          BY <1>1, <2>1, <2>6, <3>1, <4>1, <4>2, HoldingElsewhere DEF HoldInv
        <4>4. QED
          BY <2>1, <2>6, <4>3 DEF HoldInv
      <3>5. CASE DacSet(i, held) /\ mode' = mode
        <4>1. steady'[i] = s /\ dac'[i] \in held
          BY <1>1, <2>1, <2>6, <3>1, <3>5 DEF DacSet, ChannelTypeOK
        <4>2. Holding(i)'
          BY <3>1, <3>3, <4>1 DEF Holding
        <4>3. \A d \in Channels : Holding(d)'
          BY <1>1, <2>1, <2>6, <3>1, <3>5, <4>2, HoldingElsewhere DEF HoldInv
        <4>4. QED
          BY <2>1, <2>6, <4>3 DEF HoldInv
      <3>6. QED
        BY <3>1, <3>4, <3>5
    <2>3. CASE mode[i] = "SWEEP" /\ SweepRun(i)
      <3>1. PICK codes : /\ dac' = dac \/ DacSet(i, codes)
                         /\ mode' = mode \/ mode' = [mode EXCEPT ![i] = "IDLE"]
                         /\ steady' = steady /\ cal' = cal
        BY <2>3 DEF SweepRun, Stop
      <3>2. Holding(i)'
        BY <1>1, <2>1, <2>6, <2>3, <3>1 DEF Holding, ChannelTypeOK
      <3>3. \A d \in Channels : Holding(d)'
        BY <1>1, <2>1, <2>6, <3>1, <3>2, HoldingElsewhere DEF HoldInv
      <3>4. QED
        BY <2>1, <2>6, <3>3 DEF HoldInv
    <2>4. CASE UNCHANGED <<channelVars, data_queue>>
      BY <1>2, <2>1, <2>4 DEF channelVars, HoldInv
    <2>5. QED
      BY <1>6, <2>6, <2>2, <2>3, <2>4 DEF Run, RunChannel
  <1>7. CASE Tick
    <2>1. ASSUME NEW d \in Channels
          PROVE  /\ steady'[d].initialized = steady[d].initialized
                 /\ steady'[d].voltage = steady[d].voltage
      <3>1. steady[d] \in SteadyParams
        BY <1>1 DEF ChannelTypeOK
      <3>2. steady'[d] = [steady[d] EXCEPT !.left = IF @ < 0 THEN @ ELSE @ - 1]
        BY <1>7 DEF Tick, TimerTick
      <3>3. QED
        BY <3>1, <3>2 DEF SteadyParams
    <2>2. UNCHANGED <<mode, dac, cal, user_cmd_queue>>
      BY <1>7 DEF Tick, commsVars
    <2>3. QED
      BY <2>1, <2>2 DEF HoldInv, Holding
  <1>8. CASE BootChannel
    <2>1. user_cmd_queue' = user_cmd_queue /\ \A c \in Channels : mode'[c] = "IDLE"
      BY <1>8 DEF BootChannel, InitChannel, ChannelInit, OutputInv, Booted
    <2>2. QED
      BY <2>1 DEF HoldInv, Holding
  <1>9. CASE Reboot
    <2>1. user_cmd_queue' = <<>> /\ mode' = [c \in Channels |-> "IDLE"]
      BY <1>9 DEF Reboot, RamReset
    <2>2. QED
      BY <2>1 DEF HoldInv, Holding
  <1>10. CASE \/ HostAlive \/ HostSilent \/ Log \/ BootAdc \/ BootFails \/ EndDrain
              \/ Dispatch \/ EndPoll \/ UNCHANGED vars \/ \E c \in Channels : Sampling(c)
    <2>1. UNCHANGED <<mode, steady, dac, cal, user_cmd_queue>>
      BY <1>10 DEF HostAlive, HostSilent, commsVars, Log, BootAdc, InitAdc, BootFails, InitFails,
         EndDrain, DrainDone, Dispatch, PollSample, ComputeAndSendCurrent, EndPoll, PollDone,
         Sampling, Convert, channelVars, vars
    <2>2. QED
      BY <1>2, <2>1 DEF HoldInv
  <1>11. QED
    BY <1>3, <1>4, <1>5, <1>6, <1>7, <1>8, <1>9, <1>10 DEF Next

(* The output of a STEADY run is the voltage of the run, when writes to the  *)
(* DACs do not fail and no calibration is sent.                              *)
THEOREM SteadyRunsHold ==
  ASSUME ~DacFaults, \A cmd \in Commands : cmd.mode # "CALIBRATION"
  PROVE  Spec => []SteadyHolds
  <1>1. Init => HoldInv
    BY DEF Init, CommsInit, CoordinatorInit, HoldInv, Holding
  <1>2. TypeOK /\ OutputInv /\ [Next]_vars => OutputInv'
    BY OutputInvNext
  <1>3. TypeOK /\ OutputInv /\ HoldInv /\ [Next]_vars => HoldInv'
    BY HoldInvNext
  <1>4. HoldInv => SteadyHolds
    BY DEF HoldInv, Holding, SteadyHolds
  <1>5. QED
    BY <1>1, <1>2, <1>3, <1>4, OutputInvInit, TypeCorrect, PTL DEF Spec

-----------------------------------------------------------------------------
(* The moves of a sweep.  The last voltage written is not kept, but it is no *)
(* more than a step from the next one, and the DAC holds its code under some *)
(* reference within tolerance.                                               *)

References == 2475 .. 2525

SmallSweep(cmd) == cmd.mode = "SWEEP" => cmd.range + cmd.step_size <= 4950

SmallCmd == {cmd \in UserCmd : SmallSweep(cmd)}

Top(s) == s.range + s.step_size

Driven(code, s) ==
  \E v \in -Top(s) .. Top(s), vref \in References :
    /\ s.voltage - v \in -s.step_size .. s.step_size
    /\ code \in VoltageToBin(v, vref)

Near(code, s) ==
  /\ Top(s) <= 4950
  /\ s.voltage = 0 \/ Driven(code, s)

JumpInv ==
  /\ user_cmd_queue \in Seq(SmallCmd)
  /\ \A c \in Channels : mode[c] = "SWEEP" => Near(dac[c], sweep[c])

(* In range the code of v is one number q, and 65535 * v lies between the    *)
(* multiples of 2 * q - 65535 and its successor: linear in q, whatever the   *)
(* reference.                                                                *)
Between(v, q) ==
  /\ v >= 0 => 4950 * (2 * q - 65535) <= 65535 * v /\ 65535 * v < 5050 * (2 * q - 65533)
  /\ v < 0  => 5050 * (2 * q - 65535) <= 65535 * v /\ 65535 * v < 4950 * (2 * q - 65533)

LEMMA QuotientBounds ==
  ASSUME NEW n \in Int, NEW d \in Nat \ {0}
  PROVE  n \div d \in Int /\ (n \div d) * d <= n /\ n < (n \div d) * d + d
  OBVIOUS

LEMMA ScaledBounds ==
  ASSUME NEW v \in Int, NEW vref \in References, NEW q \in Int,
         q * (4 * vref) <= (v + 2 * vref) * 65535,
         (v + 2 * vref) * 65535 < q * (4 * vref) + 4 * vref
  PROVE  Between(v, q)
  <1> DEFINE e == 2 * q - 65535
  <1>1. /\ e \in Int /\ vref \in Int /\ 2475 <= vref /\ vref <= 2525
        /\ 2 * q - 65533 = e + 2
    BY DEF References
  <1>2. q * (4 * vref) - 65535 * (2 * vref) = 2 * (vref * e)
    BY <1>1
  <1>3. (v + 2 * vref) * 65535 = 65535 * v + 65535 * (2 * vref)
    BY <1>1
  <1>4. 2 * (vref * e) <= 65535 * v /\ 65535 * v < 2 * (vref * (e + 2))
    <2>1. vref * (e + 2) = vref * e + 2 * vref
      BY <1>1
    <2>2. vref * e \in Int /\ q * (4 * vref) \in Int /\ (v + 2 * vref) * 65535 \in Int
      BY <1>1
    <2> QED
      BY <1>1, <1>2, <1>3, <2>1, <2>2
  <1>5. ASSUME NEW x \in Int
        PROVE  /\ x >= 0 => 2475 * x <= vref * x /\ vref * x <= 2525 * x
               /\ x < 0 => 2525 * x <= vref * x /\ vref * x <= 2475 * x
    BY <1>1
  <1> HIDE DEF e
  <1>6. vref * e \in Int /\ vref * (e + 2) \in Int /\ e + 2 \in Int
    BY <1>1
  <1>7. CASE v >= 0
    BY <1>1, <1>4, <1>5, <1>6, <1>7 DEF Between, e
  <1>8. CASE v < 0
    BY <1>1, <1>4, <1>5, <1>6, <1>8 DEF Between, e
  <1> QED
    BY <1>7, <1>8

(* A voltage that any reference can reach has a code in range.               *)
LEMMA CodeInRange ==
  ASSUME NEW v \in Int, NEW q \in Int, Between(v, q), -4950 <= v, v <= 4950
  PROVE  0 <= q /\ q <= 65535
<1>1. CASE v >= 0
  <2>1. 4950 * (2 * q - 65535) <= 65535 * v /\ 65535 * v < 5050 * (2 * q - 65533)
    BY <1>1 DEF Between
  <2>2. 0 <= q
    BY <1>1, <2>1
  <2>3. 4950 * (2 * q - 65535) <= 65535 * 4950
    BY <2>1
  <2>4. 2 * q - 65535 <= 65535
    BY <2>3
  <2>5. q <= 65535
    BY <2>4
  <2> QED
    BY <2>2, <2>5
<1>2. CASE v < 0
  <2>1. 5050 * (2 * q - 65535) <= 65535 * v /\ 65535 * v < 4950 * (2 * q - 65533)
    BY <1>2 DEF Between
  <2>2. 0 <= 65535 * 4950 + 65535 * v
    OBVIOUS
  <2>4. 0 < 4950 * 65535 + 4950 * (2 * q - 65533)
    BY <2>1, <2>2
  <2>5. 0 < 65535 + (2 * q - 65533)
    BY <2>4
  <2>6. 0 <= q
    BY <2>5
  <2>3. q <= 65535
    BY <1>2, <2>1
  <2> QED
    BY <2>6, <2>3
<1> QED
  BY <1>1, <1>2

LEMMA CodeBounds ==
  ASSUME NEW v \in Int, -4950 <= v, v <= 4950, NEW vref \in References
  PROVE  \E q \in DacCodes : VoltageToBin(v, vref) = {q} /\ Between(v, q)
  <1> DEFINE n == (v + 2 * vref) * 65535
             d == 4 * vref
             q == n \div d
  <1>1. vref \in Nat \ {0} /\ 2475 <= vref /\ d \in Nat \ {0} /\ v \in Int
    BY DEF References
  <1>2. n \in Int /\ 0 <= n /\ n <= 65535 * d
    BY <1>1
  <1>4. RawCode(v, vref) = q
    BY <1>2 DEF RawCode
  <1> HIDE DEF n, d
  <1>3. q \in Int /\ q * d <= n /\ n < q * d + d
    BY <1>1, <1>2, QuotientBounds
  <1> HIDE DEF q
  <1>5. Between(v, q)
    BY <1>1, <1>3, ScaledBounds DEF n, d
  <1>6. v <= 4950 /\ -4950 <= v
    OBVIOUS
  <1>8. 0 <= q /\ q <= 65535
    BY <1>1, <1>3, <1>5, <1>6, CodeInRange
  <1>7. q \in DacCodes
    BY <1>3, <1>8, CodeType
  <1> QED
    BY <1>4, <1>5, <1>7 DEF VoltageToBin

(* Two codes of voltages a step apart, by the signs of the voltages; a, b    *)
(* and c are the truncated quotients of MaxMove.                             *)
LEMMA UpAbove ==
  ASSUME NEW u \in Int, NEW v \in Int, NEW step \in Int, NEW top \in Int,
         NEW p \in Int, NEW q \in Int, NEW a \in Int, NEW b \in Int, NEW c \in Int,
         65535 * step < 9900 * a + 9900, 65535 * top < 9900 * b + 9900,
         10100 * c <= 65535 * top,
         65535 * u < 5050 * (2 * p - 65533), 4950 * (2 * q - 65535) <= 65535 * v,
         0 <= u, u <= top, v - u <= step
  PROVE  q - p <= a + b - c + 2
  BY SMT

LEMMA UpAcross ==
  ASSUME NEW u \in Int, NEW v \in Int, NEW step \in Int, NEW top \in Int,
         NEW p \in Int, NEW q \in Int, NEW a \in Int, NEW b \in Int, NEW c \in Int,
         65535 * step < 9900 * a + 9900, 65535 * top < 9900 * b + 9900,
         10100 * c <= 65535 * top,
         65535 * u < 4950 * (2 * p - 65533), 4950 * (2 * q - 65535) <= 65535 * v,
         u < 0, 0 <= v, 0 <= top, v - u <= step
  PROVE  q - p <= a + b - c + 2
  BY SMT

LEMMA UpBelow ==
  ASSUME NEW u \in Int, NEW v \in Int, NEW step \in Int, NEW top \in Int,
         NEW p \in Int, NEW q \in Int, NEW a \in Int, NEW b \in Int, NEW c \in Int,
         65535 * step < 9900 * a + 9900, 65535 * top < 9900 * b + 9900,
         10100 * c <= 65535 * top,
         65535 * u < 4950 * (2 * p - 65533), 5050 * (2 * q - 65535) <= 65535 * v,
         u < 0, v < 0, 0 <= v + top, v - u <= step
  PROVE  q - p <= a + b - c + 2
  BY SMT

LEMMA DownAcross ==
  ASSUME NEW u \in Int, NEW v \in Int, NEW step \in Int, NEW top \in Int,
         NEW p \in Int, NEW q \in Int, NEW a \in Int, NEW b \in Int, NEW c \in Int,
         65535 * step < 9900 * a + 9900, 65535 * top < 9900 * b + 9900,
         10100 * c <= 65535 * top,
         65535 * u < 5050 * (2 * p - 65533), 5050 * (2 * q - 65535) <= 65535 * v,
         0 <= u, v < 0, 0 <= top, 0 <= step
  PROVE  q - p <= a + b - c + 2
  BY SMT

LEMMA MoveBound ==
  ASSUME NEW u \in Int, NEW v \in Int, NEW step \in Nat, NEW top \in Nat,
         NEW p \in Int, NEW q \in Int, Between(u, p), Between(v, q),
         u <= top, 0 <= v + top, v - u <= step
  PROVE  q - p <= Move(step, top)
  <1>1. PICK a \in Int, b \in Int, c \in Int :
          /\ a = Codes(step, 2475) /\ 65535 * step < 9900 * a + 9900
          /\ b = Codes(top, 2475)  /\ 65535 * top < 9900 * b + 9900
          /\ c = Codes(top, 2525)  /\ 10100 * c <= 65535 * top
    BY DEF Codes
  <1>2. step \in Int /\ top \in Int /\ 0 <= step /\ 0 <= top
    OBVIOUS
  <1>3. q - p <= a + b - c + 2
    <2>1. CASE u >= 0 /\ v >= 0
      BY <1>1, <1>2, <2>1, UpAbove DEF Between
    <2>2. CASE u < 0 /\ v >= 0
      BY <1>1, <1>2, <2>2, UpAcross DEF Between
    <2>3. CASE u < 0 /\ v < 0
      BY <1>1, <1>2, <2>3, UpBelow DEF Between
    <2>4. CASE u >= 0 /\ v < 0
      BY <1>1, <1>2, <2>4, DownAcross DEF Between
    <2> QED
      BY <2>1, <2>2, <2>3, <2>4
  <1> QED
    BY <1>1, <1>3 DEF Move

LEMMA MoveNatural ==
  ASSUME NEW step \in Nat, NEW top \in Nat
  PROVE  Move(step, top) \in Nat
  <1>1. PICK a \in Int, b \in Int, c \in Int :
          /\ a = Codes(step, 2475) /\ 65535 * step < 9900 * a + 9900
          /\ b = Codes(top, 2475)  /\ 65535 * top < 9900 * b + 9900
          /\ c = Codes(top, 2525)  /\ 10100 * c <= 65535 * top
    BY DEF Codes
  <1>2. 0 <= a + 1 /\ c <= b + 1
    BY <1>1
  <1> QED
    BY <1>1, <1>2 DEF Move

LEMMA CodesMove ==
  ASSUME NEW v \in Int, NEW step \in Nat, NEW top \in Nat,
         v <= top, 0 <= v + top, top <= 4950,
         NEW u \in Int, u <= top, 0 <= u + top, v - u <= step, u - v <= step,
         NEW other \in References, NEW vref \in References,
         NEW old \in VoltageToBin(u, other), NEW new \in VoltageToBin(v, vref)
  PROVE  new - old \in -Move(step, top) .. Move(step, top)
  <1>1. u <= 4950 /\ v <= 4950 /\ -4950 <= u /\ -4950 <= v
    OBVIOUS
  <1>2. PICK p \in DacCodes : VoltageToBin(u, other) = {p} /\ Between(u, p)
    BY <1>1, CodeBounds
  <1>3. PICK q \in DacCodes : VoltageToBin(v, vref) = {q} /\ Between(v, q)
    BY <1>1, CodeBounds
  <1>4. old = p /\ new = q
    BY <1>2, <1>3
  <1>5. p \in Int /\ q \in Int
    BY DEF DacCodes
  <1>6. PICK m \in Int : m = Move(step, top)
    BY DEF Move, Codes
  <1>7. q - p <= m
    BY <1>2, <1>3, <1>5, <1>6, MoveBound
  <1>8. p - q <= m
    BY <1>2, <1>3, <1>5, <1>6, MoveBound
  <1>9. q - p \in -m .. m
    BY <1>5, <1>7, <1>8
  <1> QED
    BY <1>4, <1>6, <1>9

(* The write of a sweep pass: the next voltage, or 0 V.                      *)
LEMMA StepMoves ==
  ASSUME NEW s \in SweepParams, WithinRange(s), NEW old, Near(old, s),
         NEW vref \in References, NEW new \in VoltageToBin(s.voltage, vref)
  PROVE  \/ new = ZeroCode
         \/ new - old \in -Move(s.step_size, Top(s)) .. Move(s.step_size, Top(s))
  <1>1. CASE s.voltage = 0
    <2>1. vref \in Nat \ {0}
      BY DEF References
    <2> QED
      BY <1>1, <2>1, ZeroVolts
  <1>2. CASE s.voltage # 0
    <2> DEFINE v == s.voltage  step == s.step_size  top == Top(s)
    <2>1. PICK u \in -top .. top, other \in References :
            v - u \in -step .. step /\ old \in VoltageToBin(u, other)
      BY <1>2 DEF Near, Driven
    <2>2. /\ v \in Int /\ step \in Nat /\ top \in Nat
          /\ v <= top /\ 0 <= v + top /\ top <= 4950
      <3>1. /\ s.voltage \in Int /\ s.step_size \in Int /\ s.range \in Int
            /\ s.phase \in {"FIRST", "SECOND", "THIRD"}
        BY DEF SweepParams
      <3>2. s.step_size > 0 /\ s.range >= 0 /\ Top(s) = s.range + s.step_size /\ Top(s) <= 4950
        BY DEF WithinRange, Near, Top
      <3>3. s.voltage <= Top(s) /\ 0 <= s.voltage + Top(s)
        BY <3>1, <3>2 DEF WithinRange
      <3> QED
        BY <3>1, <3>2, <3>3
    <2>3. new \in VoltageToBin(v, vref)
      OBVIOUS
    <2> HIDE DEF v, step, top
    <2>4. u \in Int /\ u <= top /\ 0 <= u + top /\ v - u <= step /\ u - v <= step
      BY <2>1, <2>2
    <2>5. new - old \in -Move(step, top) .. Move(step, top)
      BY <2>1, <2>2, <2>3, <2>4, CodesMove
    <2> QED
      BY <2>5 DEF step, top
  <1> QED
    BY <1>1, <1>2

(* What happens to one channel leaves the others as they are.                *)
LEMMA NearElsewhere ==
  ASSUME ChannelTypeOK, NEW c \in Channels, NEW m, NEW s, NEW codes,
         \A d \in Channels : mode[d] = "SWEEP" => Near(dac[d], sweep[d]),
         mode' = mode \/ mode' = [mode EXCEPT ![c] = m],
         sweep' = sweep \/ sweep' = [sweep EXCEPT ![c] = s],
         dac' = dac \/ DacSet(c, codes),
         mode'[c] = "SWEEP" => Near(dac'[c], sweep'[c])
  PROVE  \A d \in Channels : mode'[d] = "SWEEP" => Near(dac'[d], sweep'[d])
  <1>1. ASSUME NEW d \in Channels, d # c
        PROVE  mode'[d] = mode[d] /\ sweep'[d] = sweep[d] /\ dac'[d] = dac[d]
    BY <1>1 DEF ChannelTypeOK, DacSet
  <1>2. QED
    BY <1>1

LEMMA FlagNear ==
  ASSUME NEW s \in SweepParams, NEW code, Near(code, s), NEW flag \in BOOLEAN
  PROVE  Near(code, [s EXCEPT !.next_step_rdy = flag])
  <1> DEFINE t == [s EXCEPT !.next_step_rdy = flag]
  <1>1. t.voltage = s.voltage /\ t.step_size = s.step_size /\ Top(t) = Top(s)
    BY DEF SweepParams, Top
  <1> HIDE DEF t
  <1>2. Near(code, t)
    BY <1>1 DEF Near, Driven
  <1> QED
    BY <1>2 DEF t

(* The voltage a pass writes is a step or less from the next one.            *)
LEMMA AdvanceNear ==
  ASSUME NEW s \in SweepParams, WithinRange(s), Top(s) <= 4950, NEW vref \in References,
         NEW code \in VoltageToBin(s.voltage, vref)
  PROVE  Near(code, Advance(s))
  <1> DEFINE t == Advance(s)
  <1>1. /\ s.voltage \in Int /\ s.step_size \in Int /\ s.range \in Int
        /\ s.phase \in {"FIRST", "SECOND", "THIRD"}
    BY DEF SweepParams
  <1>2. /\ t.step_size = s.step_size /\ Top(t) = Top(s) /\ t.voltage \in Int
        /\ t.voltage - s.voltage <= s.step_size /\ s.voltage - t.voltage <= s.step_size
    <2>1. CASE s.phase = "FIRST"
      BY <2>1 DEF SweepParams, WithinRange, Advance, Top
    <2>2. CASE s.phase = "SECOND"
      BY <2>2 DEF SweepParams, WithinRange, Advance, Top
    <2>3. CASE s.phase = "THIRD"
      BY <2>3 DEF SweepParams, WithinRange, Advance, Top
    <2> QED
      BY <1>1, <2>1, <2>2, <2>3
  <1> HIDE DEF t
  <1>3. s.step_size > 0 /\ s.range >= 0 /\ Top(s) = s.range + s.step_size
    BY DEF WithinRange, Top
  <1>4. s.voltage <= Top(s) /\ 0 <= s.voltage + Top(s)
    BY <1>1, <1>3 DEF WithinRange
  <1>5. s.voltage \in -Top(t) .. Top(t)
    BY <1>1, <1>2, <1>3, <1>4
  <1>6. t.voltage - s.voltage \in -t.step_size .. t.step_size
    BY <1>1, <1>2, <1>3
  <1>7. Driven(code, t)
    BY <1>5, <1>6 DEF Driven
  <1>8. Near(code, t)
    BY <1>2, <1>7 DEF Near
  <1> QED
    BY <1>8 DEF t

(* A pass of the run loop over a sweeping channel.                           *)
LEMMA SweepRunMoves ==
  ASSUME ChannelTypeOK, CalInTolerance, ~DacFaults, NEW c \in Channels, SweepRun(c),
         WithinRange(sweep[c]), Near(dac[c], sweep[c])
  PROVE  /\ mode' = mode \/ mode' = [mode EXCEPT ![c] = "IDLE"]
         /\ \E s : sweep' = sweep \/ sweep' = [sweep EXCEPT ![c] = s]
         /\ dac' = dac \/ \E codes : DacSet(c, codes)
         /\ mode'[c] = "IDLE" \/ Near(dac'[c], sweep'[c])
         /\ \/ dac'[c] = dac[c]
            \/ dac'[c] = ZeroCode
            \/ dac'[c] - dac[c] \in -MaxMove(c) .. MaxMove(c)
  <1> DEFINE s == [sweep[c] EXCEPT !.next_step_rdy = FALSE]
             codes == VoltageToBin(s.voltage, cal[c].dac_vref)
  <1>1. /\ sweep \in [Channels -> SweepParams] /\ sweep[c] \in SweepParams /\ s \in SweepParams
        /\ mode \in [Channels -> RunModes \cup {"IDLE"}] /\ dac \in [Channels -> DacCodes]
    BY DEF ChannelTypeOK, SweepParams
  <1>2. cal[c].dac_vref \in References
    <2>1. cal[c].dac_vref \in Nat \ {0}
      BY DEF ChannelTypeOK, Calibration
    <2>2. 99 * 2500 <= 100 * cal[c].dac_vref /\ 100 * cal[c].dac_vref <= 101 * 2500
      BY DEF CalInTolerance, InTolerance, WithinPercent, CalDefault
    <2> QED
      BY <2>1, <2>2 DEF References
  <1>3. WithinRange(s) /\ Near(dac[c], s)
    BY <1>1, FlagWithinRange, FlagNear
  <1>4. s.step_size = sweep[c].step_size /\ Top(s) = sweep[c].range + sweep[c].step_size
    BY <1>1 DEF SweepParams, Top
  <1>5. DacAfter(c, {dac[c]}, s.voltage) = codes
    BY DEF DacAfter
  <1>6. CASE UNCHANGED <<sweep, dac, mode>>
    BY <1>6
  <1>7. CASE sweep' = [sweep EXCEPT ![c] = Advance(s)] /\ DacSet(c, codes) /\ mode' = mode
    <2>1. PICK code \in codes : dac' = [dac EXCEPT ![c] = code]
      BY <1>7 DEF DacSet
    <2>2. dac'[c] = code /\ sweep'[c] = Advance(s)
      BY <1>1, <1>7, <2>1
    <2>3. Near(code, Advance(s))
      <3>1. Top(s) <= 4950
        BY <1>3 DEF Near
      <3>2. code \in VoltageToBin(s.voltage, cal[c].dac_vref)
        OBVIOUS
      <3> HIDE DEF s, codes
      <3> QED
        BY <1>1, <1>2, <1>3, <3>1, <3>2, AdvanceNear
    <2>4. \/ code = ZeroCode
          \/ code - dac[c] \in -Move(s.step_size, Top(s)) .. Move(s.step_size, Top(s))
      BY <1>1, <1>2, <1>3, StepMoves
    <2>5. MaxMove(c) = Move(s.step_size, Top(s))
      BY <1>4 DEF MaxMove
    <2> QED
      BY <1>7, <2>2, <2>3, <2>4, <2>5
  <1>8. CASE sweep' = [sweep EXCEPT ![c] = s] /\ Stop(c, codes)
    <2>1. cal[c].dac_vref \in Nat \ {0}
      BY <1>2 DEF References
    <2>2. DacAfter(c, codes, 0) = {ZeroCode}
      BY <2>1, ZeroVolts DEF DacAfter
    <2>3. /\ DacSet(c, {ZeroCode}) /\ mode' = [mode EXCEPT ![c] = "IDLE"]
          /\ dac' = [dac EXCEPT ![c] = ZeroCode]
      BY <1>8, <2>2 DEF Stop, DacSet
    <2>4. dac'[c] = ZeroCode /\ mode'[c] = "IDLE"
      BY <1>1, <2>3
    <2> QED
      BY <1>8, <2>3, <2>4
  <1> QED
    BY <1>5, <1>6, <1>7, <1>8 DEF SweepRun

LEMMA JumpInvNext ==
  ASSUME ~DacFaults, \A cmd \in Commands : SoundSweep(cmd) /\ SmallSweep(cmd),
         TypeOK, OutputInv, SweepInv, CalInTolerance, JumpInv, [Next]_vars
  PROVE  /\ JumpInv'
         /\ \A c \in Channels : mode[c] = "SWEEP" /\ Booted' =>
              \/ dac'[c] = dac[c] \/ dac'[c] = ZeroCode
              \/ dac'[c] - dac[c] \in -MaxMove(c) .. MaxMove(c)
  <1> DEFINE Moved == \A c \in Channels : mode[c] = "SWEEP" /\ Booted' =>
              \/ dac'[c] = dac[c] \/ dac'[c] = ZeroCode
              \/ dac'[c] - dac[c] \in -MaxMove(c) .. MaxMove(c)
             AllNear == \A c \in Channels : mode'[c] = "SWEEP" => Near(dac'[c], sweep'[c])
  <1>1. /\ ChannelTypeOK
        /\ sweep \in [Channels -> SweepParams] /\ dac \in [Channels -> DacCodes]
        /\ mode \in [Channels -> RunModes \cup {"IDLE"}]
        /\ CmdDepth \in Nat /\ Len(user_cmd_queue) <= CmdDepth
    BY DepthAssumption DEF TypeOK, CommsTypeOK, ChannelTypeOK
  <1>2. ASSUME UNCHANGED <<mode, sweep, dac>>
        PROVE  AllNear /\ Moved
    BY <1>2 DEF JumpInv
  <1>3. CASE HostCommand
    <2>1. PICK cmd \in Commands : Offer(cmd)
      BY <1>3 DEF HostCommand
    <2>2. cmd \in SmallCmd
      BY CommandsAssumption DEF SmallCmd
    <2>3. user_cmd_queue' \in Seq(SmallCmd)
      BY <1>1, <2>1, <2>2, SendType DEF Offer, JumpInv
    <2>4. QED
      BY <1>2, <1>3, <2>3 DEF HostCommand, channelVars, JumpInv
  <1>4. CASE FloodOff
    <2> DEFINE off == [channel_id |-> floodNext, mode |-> "IDLE"]
    <2>1. off \in SmallCmd
      BY DEF SmallCmd, SmallSweep, UserCmd, OffCmd, TypeOK, SourceTypeOK
    <2>2. user_cmd_queue' \in Seq(SmallCmd)
      BY <1>1, <1>4, <2>1, SendType DEF FloodOff, SendOff, JumpInv
    <2>3. QED
      BY <1>2, <1>4, <2>2 DEF FloodOff, channelVars, JumpInv
  <1>5. CASE Drain
    <2> DEFINE cmd == Head(user_cmd_queue)
    <2>1. cmd \in SmallCmd /\ user_cmd_queue' \in Seq(SmallCmd)
      BY <1>1, <1>5, ReceiveType DEF Drain, DrainCmd, JumpInv
    <2>2. cmd \in UserCmd /\ SmallSweep(cmd)
      BY <2>1 DEF SmallCmd
    <2>3. Update(cmd.channel_id, cmd)
      BY <1>5 DEF Drain, DrainCmd
    <2> HIDE DEF cmd
    <2>4. PICK c \in Channels : c = cmd.channel_id
      BY <2>2, CmdByMode
    <2>5. AllNear /\ Moved
      <3>1. CASE UpdateIdle(c)
        <4>1. CASE Stop(c, {dac[c]})
          <5>1. cal[c].dac_vref \in Nat \ {0}
            BY <1>1 DEF ChannelTypeOK, Calibration
          <5>2. DacAfter(c, {dac[c]}, 0) = {ZeroCode}
            BY <5>1, ZeroVolts DEF DacAfter
          <5>3. dac' = [dac EXCEPT ![c] = ZeroCode] /\ mode' = [mode EXCEPT ![c] = "IDLE"]
                /\ sweep' = sweep
            BY <3>1, <4>1, <5>2 DEF UpdateIdle, Stop, DacSet
          <5>4. Moved
            BY <1>1, <5>3
          <5>5. AllNear
            BY <1>1, <5>3 DEF JumpInv
          <5> QED
            BY <5>4, <5>5
        <4>2. QED
          BY <1>2, <3>1, <4>1 DEF UpdateIdle
      <3>2. CASE UpdateCalibration(c, cmd) \/ UpdateOdr(c, cmd)
        BY <1>2, <3>2 DEF UpdateCalibration, UpdateOdr
      <3>3. CASE cmd.mode = "SWEEP" /\ UpdateSweep(c, cmd)
        <4>1. /\ mode' = [mode EXCEPT ![c] = "SWEEP"] /\ dac' = dac
              /\ sweep' = [sweep EXCEPT ![c] = SetSweepConfig(cmd)]
          BY <3>3 DEF UpdateSweep
        <4>2. Near(dac[c], SetSweepConfig(cmd))
          BY <2>2, <3>3 DEF SetSweepConfig, Near, Top, SmallSweep
        <4>3. AllNear
          BY <1>1, <4>1, <4>2 DEF JumpInv
        <4> QED
          BY <4>1, <4>3
      <3>4. CASE UpdateSteady(c, cmd)
        <4>1. mode' = [mode EXCEPT ![c] = "STEADY"] /\ dac' = dac /\ sweep' = sweep
          BY <3>4 DEF UpdateSteady
        <4>2. AllNear
          BY <1>1, <4>1 DEF JumpInv
        <4> QED
          BY <4>1, <4>2
      <3>5. QED
        BY <2>3, <2>4, <3>1, <3>2, <3>3, <3>4 DEF Update
    <2>6. QED
      BY <2>1, <2>5 DEF JumpInv
  <1>6. CASE Dispatch
    <2>1. /\ user_cmd_queue' = user_cmd_queue /\ mode' = mode /\ dac' = dac
          /\ \/ sweep' = sweep
             \/ \E n : sweep' = [sweep EXCEPT ![n].next_step_rdy = TRUE]
      BY <1>6 DEF Dispatch, PollSample, ComputeAndSendCurrent
    <2>2. ASSUME NEW c \in Channels, mode[c] = "SWEEP" PROVE Near(dac[c], sweep'[c])
      <3>1. sweep'[c] = sweep[c] \/ sweep'[c] = [sweep[c] EXCEPT !.next_step_rdy = TRUE]
        BY <1>1, <2>1
      <3>2. sweep[c] \in SweepParams /\ Near(dac[c], sweep[c])
        BY <1>1, <2>2 DEF JumpInv
      <3> QED
        BY <3>1, <3>2, FlagNear
    <2>3. QED
      BY <2>1, <2>2 DEF JumpInv
  <1>7. CASE Run
    <2>1. user_cmd_queue' = user_cmd_queue
      BY <1>7 DEF Run, RunChannel
    <2>2. PICK i \in Channels : i = idx
      BY <1>7 DEF Run, RunChannel, TypeOK, CoordinatorTypeOK
    <2>3. CASE mode[i] = "STEADY" /\ SteadyRun(i)
      <3>1. PICK codes : /\ mode' = mode \/ mode' = [mode EXCEPT ![i] = "IDLE"]
                         /\ sweep' = sweep /\ DacSet(i, codes)
        BY <2>3 DEF SteadyRun, Stop
      <3>2. mode'[i] # "SWEEP" /\ \A c \in Channels : mode[c] = "SWEEP" => dac'[c] = dac[c]
        BY <1>1, <2>3, <3>1 DEF DacSet
      <3>3. AllNear
        BY <1>1, <3>1, <3>2, NearElsewhere DEF JumpInv
      <3> QED
        BY <2>1, <3>2, <3>3 DEF JumpInv
    <2>4. CASE mode[i] = "SWEEP" /\ SweepRun(i)
      <3>1. WithinRange(sweep[i]) /\ Near(dac[i], sweep[i])
        BY <2>4 DEF SweepInv, JumpInv
      <3>2. PICK s, codes :
              /\ mode' = mode \/ mode' = [mode EXCEPT ![i] = "IDLE"]
              /\ sweep' = sweep \/ sweep' = [sweep EXCEPT ![i] = s]
              /\ dac' = dac \/ DacSet(i, codes)
              /\ mode'[i] = "IDLE" \/ Near(dac'[i], sweep'[i])
              /\ \/ dac'[i] = dac[i] \/ dac'[i] = ZeroCode
                 \/ dac'[i] - dac[i] \in -MaxMove(i) .. MaxMove(i)
        BY <1>1, <2>4, <3>1, SweepRunMoves
      <3>3. AllNear
        BY <1>1, <3>2, NearElsewhere DEF JumpInv
      <3>4. \A c \in Channels : c # i => dac'[c] = dac[c]
        BY <1>1, <3>2 DEF DacSet
      <3> QED
        BY <2>1, <3>2, <3>3, <3>4 DEF JumpInv
    <2>5. CASE UNCHANGED <<channelVars, data_queue>>
      BY <1>2, <2>1, <2>5 DEF channelVars, JumpInv
    <2>6. QED
      BY <1>7, <2>2, <2>3, <2>4, <2>5 DEF Run, RunChannel
  <1>8. CASE BootChannel
    <2>1. user_cmd_queue' = user_cmd_queue /\ \A c \in Channels : mode[c] = "IDLE" /\ mode' = mode
      BY <1>8 DEF BootChannel, InitChannel, ChannelInit, OutputInv, Booted
    <2>2. QED
      BY <2>1 DEF JumpInv
  <1>9. CASE Reboot
    <2>1. user_cmd_queue' = <<>> /\ mode' = [c \in Channels |-> "IDLE"] /\ ~Booted'
      BY <1>9 DEF Reboot, RamReset, Booted
    <2>2. QED
      BY <2>1 DEF JumpInv
  <1>10. CASE \/ HostAlive \/ HostSilent \/ Log \/ BootAdc \/ BootFails \/ EndDrain
              \/ EndPoll \/ Tick \/ UNCHANGED vars \/ \E c \in Channels : Sampling(c)
    <2>1. UNCHANGED <<mode, sweep, dac, user_cmd_queue>>
      BY <1>10 DEF HostAlive, HostSilent, commsVars, Log, BootAdc, InitAdc, BootFails, InitFails,
         EndDrain, DrainDone, EndPoll, PollDone, Tick, Sampling, Convert, channelVars, vars
    <2>2. QED
      BY <1>2, <2>1 DEF JumpInv
  <1>11. QED
    BY <1>3, <1>4, <1>5, <1>6, <1>7, <1>8, <1>9, <1>10 DEF Next

(* A sweeping output moves by no more than a step, give or take what the     *)
(* tolerance of the calibration allows, when writes to the DACs do not fail  *)
(* and the sweeps stay within what every reference can reach.                *)
THEOREM SweepsDoNotJump ==
  ASSUME ~DacFaults, \A cmd \in Commands : SoundSweep(cmd) /\ SmallSweep(cmd)
  PROVE  Spec => SweepNoJump
  <1> DEFINE AllInv == TypeOK /\ OutputInv /\ SweepInv /\ CalInTolerance /\ JumpInv
             Moves == \A c \in Channels : mode[c] = "SWEEP" /\ Booted' =>
                        \/ dac'[c] = ZeroCode
                        \/ dac'[c] - dac[c] \in -MaxMove(c) .. MaxMove(c)
  <1>1. Init => AllInv
    BY InitType, OutputInvInit, CalInToleranceInit
       DEF Init, CommsInit, CoordinatorInit, SweepInv, JumpInv
  <1>2. AllInv /\ [Next]_vars => AllInv'
    BY NextType, OutputInvNext, SweepInvNext, CalInToleranceNext, JumpInvNext
  <1>3. ASSUME AllInv, [Next]_vars PROVE Moves
    <2> SUFFICES ASSUME NEW c \in Channels, mode[c] = "SWEEP", dac'[c] = dac[c]
                 PROVE  dac'[c] - dac[c] \in -MaxMove(c) .. MaxMove(c)
      BY <1>3, JumpInvNext
    <2>1. sweep[c] \in SweepParams /\ WithinRange(sweep[c]) /\ dac[c] \in DacCodes
      BY <1>3 DEF SweepInv, TypeOK, ChannelTypeOK
    <2>2. PICK step \in Nat, top \in Nat :
            step = sweep[c].step_size /\ top = sweep[c].range + sweep[c].step_size
      BY <2>1 DEF SweepParams, WithinRange
    <2>3. MaxMove(c) \in Nat
      <3>1. MaxMove(c) = Move(step, top)
        BY <2>2 DEF MaxMove
      <3>2. Move(step, top) \in Nat
        BY MoveNatural
      <3> QED
        BY <3>1, <3>2
    <2>4. dac'[c] - dac[c] = 0
      <3>1. PICK code \in DacCodes : code = dac[c]
        BY <2>1
      <3>2. code \in Int /\ code - code = 0
        BY DEF DacCodes
      <3> QED
        BY <3>1, <3>2
    <2> QED
      BY <2>3, <2>4
  <1>4. AllInv /\ [Next]_vars => [Moves]_vars
    BY <1>3
  <1> QED
    BY <1>1, <1>2, <1>4, PTL DEF Spec, SweepNoJump
=============================================================================

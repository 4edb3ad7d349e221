------------------------------- MODULE Firmware -------------------------------
(* The firmware as app_main starts it: the input task, the log task and the  *)
(* coordinator, run by the scheduler in any order, the ADC next to them, the *)
(* clock, and resets by the watchdog, a brownout or the reset pin.           *)
EXTENDS Coordinator, CommandSource

CONSTANTS
  MaxReboots,   \* bound on the resets in one behaviour
  Urgent        \* the coordinator handles a queued command within a tick

ASSUME FirmwareAssumption == MaxReboots \in Nat /\ Urgent \in BOOLEAN

VARIABLE reboots    \* resets so far (bound)

vars == <<commsVars, sourceVars, channelVars, coordinatorVars, reboots>>

TypeOK ==
  /\ CommsTypeOK
  /\ SourceTypeOK
  /\ ChannelTypeOK
  /\ CoordinatorTypeOK
  /\ reboots \in 0 .. MaxReboots

Init ==
  /\ CommsInit
  /\ SourceInit
  /\ CoordinatorInit
  /\ reboots = 0

-----------------------------------------------------------------------------
(* The input task and the host.                                              *)
HostCommand ==
  /\ \E cmd \in Commands : Offer(cmd)
  /\ UNCHANGED <<data_queue, channelVars, coordinatorVars, reboots>>

HostAlive ==
  /\ KeepAlive
  /\ UNCHANGED <<commsVars, channelVars, coordinatorVars, reboots>>

HostSilent ==
  /\ GoSilent
  /\ UNCHANGED <<commsVars, channelVars, coordinatorVars, reboots>>

FloodOff ==
  /\ SendOff
  /\ UNCHANGED <<data_queue, channelVars, coordinatorVars, reboots>>

Log ==
  /\ LogTask
  /\ UNCHANGED <<user_cmd_queue, sourceVars, channelVars, coordinatorVars, reboots>>

(* The coordinator.                                                          *)
Elsewhere == UNCHANGED <<sourceVars, reboots>>

BootAdc     == InitAdc /\ Elsewhere /\ UNCHANGED <<data_queue, user_cmd_queue>>
BootChannel == InitChannel /\ Elsewhere /\ UNCHANGED <<data_queue, user_cmd_queue>>
BootFails   == InitFails /\ Elsewhere /\ UNCHANGED <<data_queue, user_cmd_queue>>
Drain       == DrainCmd /\ Elsewhere
EndDrain    == DrainDone /\ Elsewhere
Dispatch    == PollSample /\ Elsewhere
EndPoll     == PollDone /\ Elsewhere
Run         == RunChannel /\ Elsewhere

(* The ADC, the clock and the reset.                                         *)
Sampling(c) ==
  Convert(c) /\ Elsewhere /\ UNCHANGED <<data_queue, user_cmd_queue>>

Tick ==
  /\ Urgent => ~(pc = "drain" /\ user_cmd_queue # <<>>)
  /\ TimerTick
  /\ SourceTick
  /\ UNCHANGED <<commsVars, silent, floodNext, cmdsLeft, mode, sweep, cal, nvs,
                 dac, adcEn, filterOdr, adcData, coordinatorVars, reboots>>

(* Every task starts afresh and every queue is created anew; the flash, the  *)
(* DACs and the ADC keep what they hold.                                     *)
Reboot ==
  /\ reboots < MaxReboots
  /\ reboots' = reboots + 1
  /\ RamReset
  /\ SourceReset
  /\ user_cmd_queue' = <<>>
  /\ data_queue' = <<>>
  /\ UNCHANGED <<cmdsLeft, nvs, dac, adcEn, filterOdr, adcData>>

Next ==
  \/ HostCommand \/ HostAlive \/ HostSilent \/ FloodOff
  \/ Log
  \/ BootAdc \/ BootChannel \/ BootFails
  \/ Drain \/ EndDrain \/ Dispatch \/ EndPoll \/ Run
  \/ \E c \in Channels : Sampling(c)
  \/ Tick
  \/ Reboot

Spec == Init /\ [][Next]_vars

(* The scheduler runs every task and the clock ticks.  A drain loop meets a  *)
(* tick without a command and a poll loop a read without a result again and  *)
(* again, since commands and results come further apart than the loops take; *)
(* the ADC's sequencer serves every enabled input in turn.                   *)
Fairness ==
  /\ WF_vars(FloodOff) /\ WF_vars(Log) /\ WF_vars(Tick)
  /\ WF_vars(BootAdc) /\ WF_vars(BootChannel)
  /\ WF_vars(Drain) /\ WF_vars(Dispatch) /\ WF_vars(Run)
  /\ SF_vars(EndDrain) /\ SF_vars(EndPoll)
  /\ \A c \in Channels : SF_vars(Sampling(c))

FairSpec == Spec /\ Fairness

-----------------------------------------------------------------------------
(* Safety.                                                                   *)

(* Once the initialisation is over a channel that is IDLE holds 0 V: it was  *)
(* initialised there, or the last thing that happened to its output was the  *)
(* write in stop().  A command, a sample or another channel's run must not   *)
(* reach the DAC of an idle channel, through any order of commands, samples, *)
(* timers and resets.                                                        *)
IdleSafe == Booted => \A c \in Channels : mode[c] = "IDLE" => dac[c] = ZeroCode

(* Without failing writes to the ADC (AdcFaults) a running channel has its   *)
(* ADC input enabled, so that its samples keep coming: no command, to it or  *)
(* to another channel, and no calibration of another input leaves it without *)
(* conversions (a sweep would hang).                                         *)
RunningConverting ==
  \A c \in Channels : mode[c] \in RunModes => adcEn[c]

(* The sweep turns around within one step of its range in both directions,   *)
(* and ends less than a step above 0, whatever the step.                     *)
SweepBounded ==
  \A c \in Channels : LET s == sweep[c] IN mode[c] = "SWEEP" =>
    /\ s.phase = "FIRST" => 0 <= s.voltage
    /\ s.phase \in {"FIRST", "SECOND"} => s.voltage < s.range + s.step_size
    /\ s.phase \in {"SECOND", "THIRD"} => s.voltage > -s.range - s.step_size
    /\ s.phase = "THIRD" => s.voltage < s.step_size

(* The calibration in use, and the one in flash that the next boot loads,    *)
(* are within tolerance, through failing flash writes and resets.            *)
InTolerance(k) ==
  /\ WithinPercent(k.r_1k, CalDefault.r_1k)
  /\ WithinPercent(k.r_gain, CalDefault.r_gain)
  /\ WithinPercent(k.dac_vref, CalDefault.dac_vref)

CalInTolerance ==
  \A c \in Channels : InTolerance(cal[c]) /\ (nvs[c] # NoRecord => InTolerance(nvs[c]))

(* The timer of a STEADY run was started by this run: what is left is never  *)
(* more than its own duration, however often the run is restarted with       *)
(* another one.                                                              *)
TimerOfThisRun ==
  \A c \in Channels : LET s == steady[c] IN
    mode[c] = "STEADY" /\ s.initialized /\ s.timer_en => s.left <= s.duration

(* While a channel stays in one STEADY run, its output is the voltage of the *)
(* run under the calibration in use; only a new calibration is not applied   *)
(* (the DAC is written once per run), so this is about runs without one.     *)
SteadyHolds ==
  \A c \in Channels : mode[c] = "STEADY" /\ steady[c].initialized =>
    dac[c] \in VoltageToBin(steady[c].voltage, cal[c].dac_vref)

(* The codes of a move of one step, and of what a recalibration within       *)
(* tolerance shifts at the ends of a sweep; 2 for the truncated quotients.   *)
Codes(v, vref) == (v * 65535) \div (4 * vref)

Move(step, top) == Codes(step, 2475) + Codes(top, 2475) - Codes(top, 2525) + 2

MaxMove(c) == Move(sweep[c].step_size, sweep[c].range + sweep[c].step_size)

(* A sweeping output moves by at most one step, plus what a recalibration    *)
(* shifts, except to 0 V, which is where a sweep starts and where stop()     *)
(* puts it: no order of samples, commands and passes of the run loop skips a *)
(* step, writes one twice as large, or drives the output with the voltage of *)
(* an earlier run.                                                           *)
SweepNoJump ==
  [][\A c \in Channels : mode[c] = "SWEEP" /\ Booted' =>
       \/ dac'[c] = ZeroCode
       \/ dac'[c] - dac[c] \in -MaxMove(c) .. MaxMove(c)]_vars

-----------------------------------------------------------------------------
(* Liveness.                                                                 *)

(* A lost link stops every channel: the OFF rounds reach the last channel in *)
(* spite of full queues, unless the host comes back.                         *)
LinkLossStops ==
  silent ~> (\A c \in Channels : mode[c] = "IDLE" /\ dac[c] = ZeroCode) \/ ~silent

(* A sweep comes to an end: the hand-over of steps and samples between the   *)
(* run loop and the ADC never gets stuck.                                    *)
SweepEnds ==
  \A c \in Channels : mode[c] = "SWEEP" ~> mode[c] # "SWEEP"

(* A STEADY run with a timer comes to an end.                                *)
SteadyEnds ==
  \A c \in Channels :
    mode[c] = "STEADY" /\ steady[c].timer_en ~>
      mode[c] # "STEADY" \/ ~steady[c].timer_en

-----------------------------------------------------------------------------
(* What the documentation says of the program.                               *)

(* "Drop DAC to 0 V, mark channel OFF" (channel.hpp:77): a channel that was  *)
(* running and is now IDLE holds 0 V, to which the code of 0 V and the one a *)
(* reset leaves are equally close.                                           *)
StopDropsOutput ==
  [][\A c \in Channels :
       Booted' /\ mode[c] \in RunModes /\ mode'[c] = "IDLE" =>
         dac'[c] \in {ZeroCode, HalfScale}]_vars
=============================================================================

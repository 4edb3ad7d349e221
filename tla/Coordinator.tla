----------------------------- MODULE Coordinator -----------------------------
(* The coordinator task (coordinator.cpp): hardware initialisation, then the *)
(* loop  drain the commands - poll the ADC - run every channel  for ever.    *)
(* The ADC converts on its own, next to the task.                            *)
EXTENDS Channel

CONSTANT InitFaults   \* a step of the initialisation may fail

ASSUME InitFaultsAssumption == InitFaults \in BOOLEAN

VARIABLES
  pc,    \* where the task is
  idx    \* the channel the init or the run loop is at

coordinatorVars == <<pc, idx>>

CoordinatorTypeOK ==
  /\ pc \in {"adc", "channels", "drain", "poll", "run", "dead"}
  /\ idx \in Channels

Booted == pc \in {"drain", "poll", "run"}

(* Memory after a reset.  The flash record, the DACs and the ADC keep theirs *)
(* until the initialisation reaches them.                                    *)
SteadyReset == [initialized |-> FALSE, timer_en |-> FALSE, voltage |-> 0,
                duration |-> 0, left |-> 0]
SweepReset  == [phase |-> "FIRST", range |-> 0, step_size |-> 0,
                voltage |-> 0, next_step_rdy |-> FALSE]

RamReset ==
  /\ mode' = [c \in Channels |-> "IDLE"]
  /\ steady' = [c \in Channels |-> SteadyReset]
  /\ sweep' = [c \in Channels |-> SweepReset]
  /\ cal' = [c \in Channels |-> CalDefault]
  /\ pc' = "adc"
  /\ idx' = 0

CoordinatorInit ==
  /\ mode = [c \in Channels |-> "IDLE"]
  /\ steady = [c \in Channels |-> SteadyReset]
  /\ sweep = [c \in Channels |-> SweepReset]
  /\ cal = [c \in Channels |-> CalDefault]
  /\ nvs = [c \in Channels |-> NoRecord]
  /\ dac = [c \in Channels |-> ZeroCode]
  /\ adcEn = [c \in Channels |-> FALSE]
  /\ filterOdr = [c \in Channels |-> OdrDefault]
  /\ adcData = NoData
  /\ pc = "adc"
  /\ idx = 0

-----------------------------------------------------------------------------
(* Coordinator::init.  A failure deletes the task: nothing drives the        *)
(* outputs any more until the next reset.                                    *)

(* nvs_init erases a flash partition it cannot use, and every record in it.  *)
NvsInit ==
  \/ nvs' = nvs
  \/ NvsFaults /\ nvs' = [c \in Channels |-> NoRecord]

(* Flash, bus and ADC: the chip is reset, every input enabled, every filter  *)
(* set to the default rate.                                                  *)
InitAdc ==
  /\ pc = "adc"
  /\ NvsInit
  /\ adcEn' = [c \in Channels |-> TRUE]
  /\ filterOdr' = [c \in Channels |-> OdrDefault]
  /\ adcData' = NoData
  /\ pc' = "channels"
  /\ UNCHANGED <<idx, mode, steady, sweep, cal, dac>>

(* One pass of the loop over the channels.                                   *)
InitChannel ==
  /\ pc = "channels"
  /\ ChannelInit(idx)
  /\ IF idx + 1 < NumChannels
     THEN idx' = idx + 1 /\ UNCHANGED pc
     ELSE idx' = 0 /\ pc' = "drain"

InitFails ==
  /\ InitFaults
  /\ pc \in {"adc", "channels"}
  /\ pc' = "dead"
  /\ UNCHANGED <<idx, channelVars>>

-----------------------------------------------------------------------------
(* Coordinator::run.                                                         *)

DrainCmd ==
  /\ pc = "drain"
  /\ user_cmd_queue # <<>>
  /\ Update(Head(user_cmd_queue).channel_id, Head(user_cmd_queue))
  /\ user_cmd_queue' = Tail(user_cmd_queue)
  /\ UNCHANGED <<pc, idx>>

(* A tick without a command ends the drain loop.                             *)
DrainDone ==
  /\ pc = "drain"
  /\ user_cmd_queue = <<>>
  /\ pc' = "poll"
  /\ UNCHANGED <<idx, channelVars, data_queue, user_cmd_queue>>

(* poll_adc_dispatch_to_channel: reading the data register clears RDY; the   *)
(* channel number in the status byte selects the channel.                    *)
PollSample ==
  /\ pc = "poll"
  /\ adcData # NoData
  /\ ComputeAndSendCurrent(adcData.ch_num, adcData.code)
  /\ adcData' = NoData
  /\ UNCHANGED <<pc, idx, user_cmd_queue>>

PollDone ==
  /\ pc = "poll"
  /\ adcData = NoData
  /\ pc' = "run"
  /\ idx' = 0
  /\ UNCHANGED <<channelVars, data_queue, user_cmd_queue>>

(* One pass of the loop over the channels.                                   *)
RunChannel ==
  /\ pc = "run"
  /\ \/ mode[idx] = "STEADY" /\ SteadyRun(idx)
     \/ mode[idx] = "SWEEP" /\ SweepRun(idx)
     \/ mode[idx] = "IDLE" /\ UNCHANGED <<channelVars, data_queue>>
  /\ IF idx + 1 < NumChannels
     THEN idx' = idx + 1 /\ UNCHANGED pc
     ELSE idx' = 0 /\ pc' = "drain"
  /\ UNCHANGED user_cmd_queue

-----------------------------------------------------------------------------
(* The ADC finishes a conversion of the current that the DAC of c drives.    *)
Convert(c) ==
  /\ Converts(c, dac[c])
  /\ UNCHANGED <<pc, idx, mode, steady, sweep, cal, nvs, dac, adcEn, filterOdr>>

(* The clock behind esp_timer_get_time advances by one.                      *)
TimerTick ==
  steady' = [c \in Channels |->
    [steady[c] EXCEPT !.left = IF @ < 0 THEN @ ELSE @ - 1]]
=============================================================================

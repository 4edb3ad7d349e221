------------------------------ MODULE TaskComms ------------------------------
(* The vocabulary the three tasks share (task_comms.hpp): the command record *)
(* the input task enqueues, the sample record the coordinator enqueues, the  *)
(* two FreeRTOS queues that carry them, and the log task that drains the     *)
(* second one.  Voltages are integers in millivolts, durations integers in   *)
(* the unit of the command, resistances integers in ohms.                    *)
EXTENDS Board, Sequences

CONSTANTS
  CmdDepth,      \* depth of user_cmd_queue
  LogDepth       \* depth of data_queue

ASSUME DepthAssumption == CmdDepth \in Nat \ {0} /\ LogDepth \in Nat \ {0}

Mode == {"SWEEP", "STEADY", "IDLE", "CALIBRATION", "ODR"}
TimeUnit == {"MIN", "HOUR", "DAY", "MONTH", "INF"}

(* The two modes in which a channel drives its output and is sampled.        *)
RunModes == {"SWEEP", "STEADY"}

(* A command.  `param` is a union in C; a reader only looks at the member    *)
(* that `mode` selects, so a queued command carries that member alone.       *)
SteadyCmd == [channel_id : Channels, mode : {"STEADY"},
              voltage : Int, duration : Int, time_unit : TimeUnit]
SweepCmd  == [channel_id : Channels, mode : {"SWEEP"},
              range : Int, step_size : Int]
CalCmd    == [channel_id : Channels, mode : {"CALIBRATION"},
              R_1k : Int, R_gain : Int, dac_vref : Int]
OdrCmd    == [channel_id : Channels, mode : {"ODR"}, odr_setting : Int]
OffCmd    == [channel_id : Channels, mode : {"IDLE"}]

UserCmd == SteadyCmd \cup SweepCmd \cup CalCmd \cup OdrCmd \cup OffCmd

(* A sample record.  `current` is what the ADC measured; across the fixed    *)
(* load it is a function of the code the DAC held during the conversion, so  *)
(* it is represented by that code.                                           *)
DataLog == [channel_id : Channels, mode : Mode, voltage : Int, current : Int]

VARIABLES
  user_cmd_queue,   \* commands, input task -> coordinator
  data_queue        \* sample records, coordinator -> log task

commsVars == <<user_cmd_queue, data_queue>>

CommsTypeOK ==
  /\ user_cmd_queue \in Seq(UserCmd)
  /\ Len(user_cmd_queue) <= CmdDepth
  /\ data_queue \in Seq(DataLog)
  /\ Len(data_queue) <= LogDepth

CommsInit ==
  /\ user_cmd_queue = <<>>
  /\ data_queue = <<>>

-----------------------------------------------------------------------------
(* xQueueSend with a timeout of 0, the only form the firmware uses: the item *)
(* is appended when there is room and otherwise dropped; no caller looks at  *)
(* the result.                                                               *)
XQueueSend(q, depth, item) ==
  IF Len(q) < depth THEN Append(q, item) ELSE q

(* One pass of log_task: take a record and print it.  What the host makes of *)
(* the output is not modelled.                                               *)
LogTask ==
  /\ data_queue # <<>>
  /\ data_queue' = Tail(data_queue)
=============================================================================

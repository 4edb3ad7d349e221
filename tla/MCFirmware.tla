------------------------------ MODULE MCFirmware ------------------------------
(* Small instances of Firmware for TLC.                                      *)
EXTENDS Firmware

(* A MIN is two ticks, the other units longer.                               *)
MCUnitTicks == [MIN |-> 2, HOUR |-> 3, DAY |-> 4, MONTH |-> 5]

Off(c) == [channel_id |-> c, mode |-> "IDLE"]
Steady(c, v, n, u) == [channel_id |-> c, mode |-> "STEADY", voltage |-> v,
                       duration |-> n, time_unit |-> u]
Sweep(c, r, s) == [channel_id |-> c, mode |-> "SWEEP", range |-> r, step_size |-> s]
Cal(c, r1k, rg, vref) == [channel_id |-> c, mode |-> "CALIBRATION",
                          R_1k |-> r1k, R_gain |-> rg, dac_vref |-> vref]
Odr(c, rate) == [channel_id |-> c, mode |-> "ODR", odr_setting |-> rate]

(* One channel, every kind of command: two steady runs of different length,  *)
(* two sweeps, one calibration within tolerance and one outside, a rate of   *)
(* the table, one that is not in it, and the default.                        *)
CommandsOneChannel ==
  {Off(0), Steady(0, 1000, 1, "HOUR"), Steady(0, -500, 1, "MIN"),
   Sweep(0, 100, 100), Sweep(0, 150, 100),
   Cal(0, 1000, 401, 2480), Cal(0, 1000, 401, 2600),
   Odr(0, 20000), Odr(0, 33000), Odr(0, 10000)}

(* Two channels that disturb each other.                                     *)
CommandsTwoChannels ==
  {Off(0), Steady(0, 1000, 1, "MIN"), Sweep(1, 100, 100), Odr(0, 20000)}

(* Two channels running when the link goes down: one whose own stop races    *)
(* the OFF round and one that never stops by itself.                         *)
CommandsRunning == {Steady(0, 1000, 1, "MIN"), Steady(1, 500, 0, "INF")}

(* A sweep, and a command to the other channel that calibrates the ADC and   *)
(* leaves that channel's input enabled.                                      *)
CommandsSweeping == {Sweep(0, 100, 100), Odr(1, 20000)}

(* A sweep and a steady run that are stopped, by a command or by their end.  *)
CommandsStop == {Steady(0, 1000, 1, "MIN"), Sweep(0, 100, 100), Off(0)}
=============================================================================

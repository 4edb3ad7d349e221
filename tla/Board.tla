-------------------------------- MODULE Board --------------------------------
(* What the board fixes for every part of the firmware.                      *)
EXTENDS Integers

CONSTANT NumChannels   \* output channels: one DAC each, one shared ADC

ASSUME NumChannelsAssumption == NumChannels \in Nat \ {0}

Channels == 0 .. NumChannels - 1
=============================================================================

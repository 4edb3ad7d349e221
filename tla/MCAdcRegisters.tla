---------------------------- MODULE MCAdcRegisters ----------------------------
(* A small instance of AdcRegisters for TLC.                                 *)
EXTENDS AdcRegisters

(* 20 and 5 samples per second: codes that share some bits with each other   *)
(* and with the default, and differ in others.                               *)
MCRates == {17, 20}
=============================================================================

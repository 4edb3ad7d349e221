----------------------------- MODULE MCDacDriver -----------------------------
(* The setters of three settings, two of them neighbours in the register;    *)
(* ranges and clear voltages that differ in every bit; a part that wakes up  *)
(* in a range of its own.                                                    *)
EXTENDS DacDriver

MCRanges == {M5ToP5V, 5}
MCScales == {Half, 2}
MCCalled == {"ra", "cv", "ovr_en"}
MCResetCtrl == {3, 9}
=============================================================================

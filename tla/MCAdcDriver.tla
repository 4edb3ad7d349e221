----------------------------- MODULE MCAdcDriver -----------------------------
(* Small instances of AdcDriver for TLC.                                     *)
EXTENDS AdcDriver

(* A rate of the table, the default, and one that is not in the table.       *)
MCRates == {20000, 10000, 33000}
=============================================================================

------------------------------- MODULE MCWords -------------------------------
(* The pure algorithms, on small words: the checksums of the ADC driver and  *)
(* the utilities of no_os_util.c.  Each behaviour runs one of them.          *)
EXTENDS Crc8, NoOsUtil

(* A read command, and one or two bytes of data.                            *)
MCMessages ==
  {<<{1, 6}, data>> : data \in SUBSET {0, 2, 3, 5, 7}}
    \cup {<<{1, 6}, {0, 4}, data>> : data \in {{}, {0, 1, 2, 3, 4, 5, 6, 7}}}

NoCrc  == useCRC = "USE_CRC" /\ msg = <<>> /\ buffer = <<>> /\ phase = "clean"
NoUtil == call = "done" /\ arg = [fn |-> "none"] /\ x = 0 /\ y = 0 /\ turn = 0 /\ ret = 0

Init == (CrcInit /\ NoUtil) \/ (UtilInit /\ NoCrc)

Next ==
  \/ CrcNext /\ UNCHANGED utilVars
  \/ UtilNext /\ UNCHANGED crcVars

Spec == Init /\ [][Next]_<<crcVars, utilVars>>
=============================================================================

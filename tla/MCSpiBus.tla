------------------------------- MODULE MCSpiBus -------------------------------
(* The five devices of the board on its bus.                                 *)
EXTENDS SpiBus

MCSlaves == {"ADC", "DAC0", "DAC1", "DAC2", "DAC3"}

MCCpol == [s \in MCSlaves |-> IF s = "ADC" THEN 1 ELSE 0]

(* The bus numbers of spi_configs.c differ from each other; here two DACs    *)
(* have the same one, so that a bus counts several slaves, and the number of *)
(* the last is out of range.                                                 *)
MCDeviceId ==
  [s \in MCSlaves |-> CASE s = "ADC" -> 5 [] s \in {"DAC0", "DAC1"} -> 0
                        [] s = "DAC2" -> 2 [] s = "DAC3" -> 9]
=============================================================================

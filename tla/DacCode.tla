------------------------------- MODULE DacCode -------------------------------
(* Channel::voltage_to_bin: the conversion of a voltage to an AD5761R input  *)
(* code,  (uint16_t)((v / vref + 2.0) * 65535.0 / 4.0),  over integers in    *)
(* millivolts.  The code is exact up to the rounding of the floats.          *)
EXTENDS Integers

DacCodes == 0 .. 65535

(* The real number that is converted, truncated toward zero.                 *)
RawCode(v, vref) ==
  LET num == (v + 2 * vref) * 65535
      den == 4 * vref
  IN  IF num >= 0 THEN num \div den ELSE -((-num) \div den)

(* The codes the conversion can yield.  In range it truncates.  Out of range *)
(* the C conversion is undefined; the build converts to 32 bits and keeps    *)
(* the low 16, and a negative number may also become 0 on the way.           *)
VoltageToBin(v, vref) ==
  LET raw == RawCode(v, vref)
  IN  IF raw \in DacCodes THEN {raw}
      ELSE {raw % 65536} \cup (IF raw < 0 THEN {0} ELSE {})

(* The code of 0 V: it is the same for every reference (theorem ZeroVolts).  *)
ZeroCode == 32767

(* The code a full reset leaves in the DAC: half scale, as configured.       *)
HalfScale == 32768
=============================================================================

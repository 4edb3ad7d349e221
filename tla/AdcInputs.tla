------------------------------ MODULE AdcInputs ------------------------------
(* The AD7172-2 as the channels see it: which inputs are enabled, the data   *)
(* rate of each, and one data register.  Every operation is one step here;   *)
(* AdcDriver.tla models the register accesses behind each and is shown to    *)
(* implement this module.                                                    *)
EXTENDS Board, DacCode

CONSTANTS
  Overrun,     \* the ADC may finish a conversion while the last is unread
  AdcFaults    \* a write to the ADC may fail; the channels ignore the result

ASSUME InputsAssumption == Overrun \in BOOLEAN /\ AdcFaults \in BOOLEAN

VARIABLES
  adcEn,        \* adcEn[c]: the channel-enable bit of c in the ADC
  filterOdr,    \* filterOdr[c]: the output data rate in the filter register
  adcData       \* the ADC's unread conversion result, or NoData

inputVars == <<adcEn, filterOdr, adcData>>

Sample     == [ch_num : Channels, code : DacCodes]
NoData     == [ch_num |-> -1, code |-> 0]
OdrLut     == {1250, 2500, 5000, 10000, 16000, 20000, 49000, 59000,
               100000, 200000}     \* odr_lut, in samples per 1000 s
OdrDefault == 10000

InputsTypeOK ==
  /\ adcEn \in [Channels -> BOOLEAN]
  /\ filterOdr \in [Channels -> OdrLut]
  /\ adcData \in Sample \cup {NoData}

(* AD717X_Init leaves every input enabled, at the default rate.              *)
InputsInit ==
  /\ adcEn = [c \in Channels |-> TRUE]
  /\ filterOdr = [c \in Channels |-> OdrDefault]
  /\ adcData = NoData

-----------------------------------------------------------------------------
(* Mutant of FilterAfter: the rate is not looked up in the table.            *)
FilterAfterUnchecked(old, rate) == rate

(* set_odr: the rate that ends up in the filter register.  channel_odr keeps *)
(* the default for ever, so a request for the default returns early; a rate  *)
(* that is not in the table selects the default.                             *)
FilterAfter(old, rate) ==
  CASE rate = OdrDefault -> old
    [] rate \in OdrLut \ {OdrDefault} -> rate
    [] OTHER -> OdrDefault

(* ad717x_set_channel_status.                                                *)
SetChannelStatus(c, on) ==
  \/ adcEn' = [adcEn EXCEPT ![c] = on]
  \/ AdcFaults /\ adcEn' = adcEn

(* The inputs after the handlers that calibrate c and leave it `on`.  They   *)
(* disable the others for the time and enable those again that were; a write *)
(* that fails leaves such an input disabled, and c either way.               *)
InputsAfter(c, on) ==
  {[adcEn EXCEPT ![c] = on]}
    \cup (IF AdcFaults
          THEN {en \in [Channels -> BOOLEAN] : \A d \in Channels \ {c} : en[d] => adcEn[d]}
          ELSE {})

(* Mutant of AdcInternalCalibration: the other inputs are not enabled again. *)
AdcInternalCalibrationAlone(c, code) ==
  /\ adcEn' = [d \in Channels |-> d = c]
  /\ adcData' \in {adcData, NoData}

(* adc_internal_calibration: the inputs of the other channels are disabled   *)
(* for the two calibrations and enabled again, the own input stays enabled.  *)
(* Conversions restart; an unread result may be lost.  If the input of c     *)
(* could not be left enabled it may have been converted once in between.     *)
AdcInternalCalibration(c, code) ==
  /\ adcEn' \in InputsAfter(c, TRUE)
  /\ adcData' \in {adcData, NoData}
                   \cup (IF AdcFaults THEN {[ch_num |-> c, code |-> code]} ELSE {})

(* set_odr, and the calibration that follows it in every case.               *)
ChangeOdr(c, rate, code) ==
  /\ \/ filterOdr' = [filterOdr EXCEPT ![c] = FilterAfter(@, rate)]
     \/ AdcFaults /\ filterOdr' = filterOdr
  /\ AdcInternalCalibration(c, code)

(* The end of Channel::init: a calibration, then the input is disabled, but  *)
(* it may have been converted once in between.                               *)
CalibrateAndDisable(c, code) ==
  /\ adcEn' \in InputsAfter(c, FALSE)
  /\ adcData' \in {adcData, NoData, [ch_num |-> c, code |-> code]}

(* Continuous mode: a conversion of an enabled input is finished.  The data  *)
(* register holds the result until it is read or overwritten.                *)
Converts(c, code) ==
  /\ adcEn[c]
  /\ Overrun \/ adcData = NoData
  /\ adcData' = [ch_num |-> c, code |-> code]

-----------------------------------------------------------------------------
(* The inputs by themselves, for any order of calls.                         *)
InputsNext(rates, codes) ==
  \/ \E c \in Channels :
       \/ \E on \in BOOLEAN : SetChannelStatus(c, on) /\ UNCHANGED <<filterOdr, adcData>>
       \/ \E code \in codes :
            \/ \E rate \in rates : ChangeOdr(c, rate, code)
            \/ CalibrateAndDisable(c, code) /\ UNCHANGED filterOdr
            \/ Converts(c, code) /\ UNCHANGED <<adcEn, filterOdr>>
  \/ adcData # NoData /\ adcData' = NoData /\ UNCHANGED <<adcEn, filterOdr>>
=============================================================================

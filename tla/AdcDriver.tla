------------------------------ MODULE AdcDriver ------------------------------
(* The register accesses behind the operations of AdcInputs (ad717x.c and    *)
(* the ADC handlers of channel.cpp and coordinator.cpp).  A handler is a     *)
(* script of driver calls; the chip converts and calibrates between them.    *)
(* The register cache is not kept apart from the calls: every field that is  *)
(* written is set by the call that writes it.                                *)
EXTENDS Board, Sequences

CONSTANTS
  Rates,       \* the rates ODR commands ask for
  MaxPolls,    \* status reads of one wait: AD717X_CONV_TIMEOUT - 1
  Overrun      \* a conversion may finish while the last is unread

ASSUME AdcDriverAssumption ==
  /\ Rates \subseteq Int
  /\ MaxPolls \in Nat \ {0}
  /\ Overrun \in BOOLEAN

VARIABLES
  busFaults,   \* a transfer on the bus may fail in this behaviour
  slow,        \* the polls may run out before the chip is ready in it
  chipEn,      \* the channel-enable bits in the chip
  chipOdr,     \* the rates in the filter registers of the chip
  chipMode,    \* the mode in the ADCMODE register of the chip
  chipOut,     \* what made RDY go low: a Sample, CalDone, or NoData: it is high
  chan_map,    \* chan_map[c].channel_enable
  self,        \* the channel whose handler runs
  todo,        \* the driver calls left of the handler
  polls,       \* status reads left in the current wait
  dataReg,     \* the cached DATA register as the poll loop decodes it
  age,         \* history: dataReg is from "boot", an "earlier" poll loop or "now"
  pollPc       \* the poll loop: "out" of it, about to "read" or to "dispatch"

chipVars == <<chipEn, chipOdr, chipMode, chipOut>>
readVars == <<dataReg, age, pollPc>>
given == <<busFaults, slow>>
vars == <<given, chipVars, chan_map, self, todo, polls, readVars>>

(* What the handlers above see, when every handler takes effect at once: the *)
(* calls that are left decide what a register will hold.                     *)
LastCall(ops, c) ==
  LET calls == {k \in DOMAIN todo : todo[k].op \in ops /\ c \in todo[k].chans}
  IN  IF calls = {} THEN 0 ELSE CHOOSE k \in calls : \A j \in calls : j <= k

EnAtEnd == [c \in Channels |->
  LET last == LastCall({"enable", "calibrate"}, c)
  IN  IF last > 0 THEN todo[last].val ELSE chipEn[c]]

OdrAtEnd == [c \in Channels |->
  LET last == LastCall({"odr"}, c) IN IF last > 0 THEN todo[last].val ELSE chipOdr[c]]

CalDone  == [ch_num |-> -1, code |-> 1]
NoValue  == [ch_num |-> -1, code |-> 0]
BootData == [ch_num |-> 0, code |-> 0]   \* the table's 0: RDY low, channel 0

Inputs == INSTANCE AdcInputs WITH
  AdcFaults <- FALSE,
  adcEn <- EnAtEnd, filterOdr <- OdrAtEnd,
  adcData <- IF todo = <<>> THEN chipOut ELSE NoValue

Results == Inputs!Sample \cup {Inputs!NoData}
ChipModes == {"CONTINUOUS", "OFFSET", "GAIN", "IDLE"}
Call == [op : {"enable"}, chans : SUBSET Channels, val : BOOLEAN]
          \cup [op : {"calibrate"}, chans : {{c} : c \in Channels}, val : {TRUE}]
          \cup [op : {"odr"}, chans : {{c} : c \in Channels}, val : Inputs!OdrLut]
          \cup [op : {"mode"}, val : {"CONTINUOUS", "OFFSET", "GAIN"}]
          \cup [op : {"wait"}]

TypeOK ==
  /\ busFaults \in BOOLEAN /\ slow \in BOOLEAN
  /\ chipEn \in [Channels -> BOOLEAN]
  /\ chipOdr \in [Channels -> Inputs!OdrLut]
  /\ chipMode \in ChipModes
  /\ chipOut \in Results \cup {CalDone}
  /\ chan_map \in [Channels -> BOOLEAN]
  /\ self \in Channels
  /\ todo \in Seq(Call)
  /\ polls \in 1 .. MaxPolls
  /\ dataReg \in Results
  /\ age \in {"boot", "earlier", "now"}
  /\ pollPc \in {"out", "read", "dispatch"}

(* After AD717X_Init: every input enabled, as chan_map configures it.  (A    *)
(* mode write that fails may leave the chip idle, and so never ready.)       *)
Init ==
  /\ busFaults \in BOOLEAN /\ slow \in BOOLEAN
  /\ busFaults => slow
  /\ chipEn = [c \in Channels |-> TRUE]
  /\ chipOdr = [c \in Channels |-> Inputs!OdrDefault]
  /\ chipMode = "CONTINUOUS"
  /\ chipOut = Inputs!NoData
  /\ chan_map = [c \in Channels |-> TRUE]
  /\ self = 0
  /\ todo = <<>>
  /\ polls = MaxPolls
  /\ dataReg = BootData
  /\ age = "boot"
  /\ pollPc = "out"

-----------------------------------------------------------------------------
(* The handlers, as scripts of driver calls.  Inputs are enabled, one after  *)
(* the other, for a set of channels.                                         *)
Enable(chans, on) == [op |-> "enable", chans |-> chans, val |-> on]
SetOdr(c, r)      == [op |-> "odr", chans |-> {c}, val |-> r]
SetMode(m)        == [op |-> "mode", val |-> m]
Wait              == [op |-> "wait"]
Calibrate(c)      == [op |-> "calibrate", chans |-> {c}, val |-> TRUE]

(* set_odr: see Inputs!FilterAfter for the early return and the table.       *)
OdrScript(c, rate) ==
  IF rate = Inputs!OdrDefault THEN <<>>
  ELSE <<Enable({c}, TRUE), Wait,
         SetOdr(c, IF rate \in Inputs!OdrLut THEN rate ELSE Inputs!OdrDefault),
         Wait, Enable({c}, FALSE)>>

EnabledInputs == {d \in Channels : chan_map[d]}

(* Mutants of CalibrationScript: the other inputs stay enabled; every other  *)
(* input is enabled in the end; no wait for the offset calibration; the ADC  *)
(* is not put back into continuous mode.                                     *)
CalibrationScriptCrowded(c) ==
  <<Enable({c}, TRUE), Wait, SetMode("OFFSET"), Wait, SetMode("GAIN"),
    Enable(EnabledInputs \ {c}, TRUE), Wait, SetMode("CONTINUOUS")>>

CalibrationScriptAll(c) ==
  <<Enable(EnabledInputs, FALSE), Enable({c}, TRUE), Wait,
    SetMode("OFFSET"), Wait, SetMode("GAIN"),
    Enable(Channels \ {c}, TRUE), Wait, SetMode("CONTINUOUS")>>

CalibrationScriptHasty(c) ==
  <<Enable(EnabledInputs, FALSE), Enable({c}, TRUE), Wait,
    SetMode("OFFSET"), SetMode("GAIN"),
    Enable(EnabledInputs \ {c}, TRUE), Wait, SetMode("CONTINUOUS")>>

CalibrationScriptOpen(c) ==
  <<Enable(EnabledInputs, FALSE), Enable({c}, TRUE), Wait,
    SetMode("OFFSET"), Wait, SetMode("GAIN"),
    Enable(EnabledInputs \ {c}, TRUE), Wait>>

(* adc_internal_calibration, with ch_en the inputs enabled at its start: the *)
(* others are enabled again while the gain calibration runs.                 *)
CalibrationScript(c) ==
  <<Enable(EnabledInputs, FALSE), Enable({c}, TRUE), Wait,
    SetMode("OFFSET"), Wait, SetMode("GAIN"),
    Enable(EnabledInputs \ {c}, TRUE), Wait, SetMode("CONTINUOUS")>>

-----------------------------------------------------------------------------
(* Driver calls.  A transfer that fails reaches nothing in the chip.         *)
Outcomes == IF busFaults THEN BOOLEAN ELSE {TRUE}

(* Mutant of SetChannelStatus: the map is updated before the result is seen. *)
SetChannelStatusEager(c, on, ok) ==
  /\ chipEn' = IF ok THEN [chipEn EXCEPT ![c] = on] ELSE chipEn
  /\ chan_map' = [chan_map EXCEPT ![c] = on]
  /\ UNCHANGED <<chipOdr, chipMode, chipOut>>

(* ad717x_set_channel_status.                                                *)
SetChannelStatus(c, on, ok) ==
  /\ chipEn' = IF ok THEN [chipEn EXCEPT ![c] = on] ELSE chipEn
  /\ chan_map' = IF ok THEN [chan_map EXCEPT ![c] = on] ELSE chan_map
  /\ UNCHANGED <<chipOdr, chipMode, chipOut>>

(* ad717x_configure_device_odr.                                              *)
ConfigureDeviceOdr(c, rate, ok) ==
  /\ chipOdr' = IF ok THEN [chipOdr EXCEPT ![c] = rate] ELSE chipOdr
  /\ UNCHANGED <<chipEn, chipMode, chipOut, chan_map>>

(* A write of ADCMODE restarts the chip: RDY goes high.                      *)
WriteMode(m, ok) ==
  /\ chipMode' = IF ok THEN m ELSE chipMode
  /\ chipOut' = IF ok THEN Inputs!NoData ELSE chipOut
  /\ UNCHANGED <<chipEn, chipOdr, chan_map>>

(* The next call of the handler.  Results are ignored throughout.            *)
Ready == todo = <<>> /\ pollPc = "out"

RegisterCall ==
  /\ todo # <<>>
  /\ LET call == Head(todo) IN
       \E ok \in Outcomes :
         \/ call.op = "odr" /\ \E c \in call.chans : ConfigureDeviceOdr(c, call.val, ok)
         \/ call.op = "mode" /\ WriteMode(call.val, ok)
  /\ todo' = Tail(todo)
  /\ UNCHANGED <<given, self, polls, readVars>>

(* Inputs are enabled or disabled in ascending order, a call for each.       *)
EnableInputs ==
  /\ todo # <<>>
  /\ Head(todo).op = "enable"
  /\ LET call == Head(todo) IN
       \/ call.chans = {} /\ todo' = Tail(todo) /\ UNCHANGED <<chipVars, chan_map>>
       \/ \E c \in call.chans, ok \in Outcomes :
            /\ \A d \in call.chans : c <= d
            /\ SetChannelStatus(c, call.val, ok)
            /\ todo' = IF call.chans = {c} THEN Tail(todo)
                       ELSE <<Enable(call.chans \ {c}, call.val)>> \o Tail(todo)
  /\ UNCHANGED <<given, self, polls, readVars>>

BeginCalibration ==
  /\ todo # <<>>
  /\ Head(todo).op = "calibrate"
  /\ todo' = CalibrationScript(self) \o Tail(todo)
  /\ UNCHANGED <<given, chipVars, chan_map, self, polls, readVars>>

(* Mutant of WaitForReady: the countdown is forgotten.                       *)
WaitForReadyForever ==
  /\ todo # <<>>
  /\ Head(todo).op = "wait"
  /\ \E ok \in Outcomes :
       IF ~ok \/ chipOut # Inputs!NoData
       THEN todo' = Tail(todo) /\ polls' = MaxPolls
       ELSE UNCHANGED <<todo, polls>>
  /\ UNCHANGED <<given, chipVars, chan_map, self, readVars>>

(* AD717X_WaitForReady, one read of the status register at a time: it ends   *)
(* with a failing read, with RDY low, or with the last poll.                 *)
WaitForReady ==
  /\ todo # <<>>
  /\ Head(todo).op = "wait"
  /\ slow \/ polls > 1 \/ chipOut # Inputs!NoData
  /\ \E ok \in Outcomes :
       IF ~ok \/ chipOut # Inputs!NoData \/ polls = 1
       THEN todo' = Tail(todo) /\ polls' = MaxPolls
       ELSE todo' = todo /\ polls' = polls - 1
  /\ UNCHANGED <<given, chipVars, chan_map, self, readVars>>

-----------------------------------------------------------------------------
(* The handlers start.                                                       *)

(* The input of a channel that starts or stops: a single call.               *)
EnableInput(c, on) ==
  /\ Ready
  /\ \E ok \in Outcomes : SetChannelStatus(c, on, ok)
  /\ self' = c
  /\ UNCHANGED <<given, todo, polls, readVars>>

(* The ODR case of Channel::update.                                          *)
UpdateOdr(c, rate) ==
  /\ Ready
  /\ self' = c
  /\ todo' = OdrScript(c, rate) \o <<Calibrate(c)>>
  /\ UNCHANGED <<given, chipVars, chan_map, polls, readVars>>

(* The end of Channel::init.                                                 *)
InitCalibration(c) ==
  /\ Ready
  /\ self' = c
  /\ todo' = <<Calibrate(c), Enable({c}, FALSE)>>
  /\ UNCHANGED <<given, chipVars, chan_map, polls, readVars>>

-----------------------------------------------------------------------------
(* poll_adc_dispatch_to_channel.                                             *)

(* What the status byte of a read says.  RDY that a calibration made low is  *)
(* a sample like any other, of whatever input the byte names.                *)
Decoded(out) == IF out = CalDone THEN [ch_num : Channels, code : {0}] ELSE {out}

(* AD717X_ReadData and the test of RDY.  A read makes RDY high.  One that    *)
(* fails returns what the cache holds of the last; the chip has shifted the  *)
(* result out if it was the checksum that failed.  The caller ignores the    *)
(* failure: the loop ends when the cache says that nothing is ready.         *)
ReadData ==
  /\ todo = <<>>
  /\ pollPc \in {"out", "read"}
  /\ \E ok \in Outcomes :
       \/ /\ ok
          /\ dataReg' \in Decoded(chipOut)
          /\ chipOut' = Inputs!NoData
          /\ age' = "now"
       \/ /\ ~ok
          /\ dataReg' = dataReg
          /\ chipOut' \in {chipOut, Inputs!NoData}
          /\ age' = IF pollPc = "out" /\ age = "now" THEN "earlier" ELSE age
  /\ pollPc' = IF dataReg' = Inputs!NoData THEN "out" ELSE "dispatch"
  /\ UNCHANGED <<given, chipEn, chipOdr, chipMode, chan_map, self, todo, polls>>

(* Mutant of Dispatch: one sample for each pass of the run loop.             *)
DispatchOne ==
  /\ pollPc = "dispatch"
  /\ pollPc' = "out"
  /\ UNCHANGED <<given, chipVars, chan_map, self, todo, polls, dataReg, age>>

(* The sample is dispatched and the loop goes on.                            *)
Dispatch ==
  /\ pollPc = "dispatch"
  /\ pollPc' = "read"
  /\ UNCHANGED <<given, chipVars, chan_map, self, todo, polls, dataReg, age>>

-----------------------------------------------------------------------------
(* The chip.                                                                 *)
Convert(c) ==
  /\ chipMode = "CONTINUOUS"
  /\ chipEn[c]
  /\ Overrun \/ chipOut = Inputs!NoData
  /\ chipOut' = [ch_num |-> c, code |-> 0]
  /\ UNCHANGED <<given, chipEn, chipOdr, chipMode, chan_map, self, todo, polls, readVars>>

(* A calibration is over: RDY goes low and the chip is idle.                 *)
Calibrated ==
  /\ chipMode \in {"OFFSET", "GAIN"}
  /\ chipMode' = "IDLE"
  /\ chipOut' = CalDone
  /\ UNCHANGED <<given, chipEn, chipOdr, chan_map, self, todo, polls, readVars>>

Handler == RegisterCall \/ EnableInputs \/ BeginCalibration \/ WaitForReady

Next ==
  \/ Handler
  \/ \E c \in Channels :
       \/ \E on \in BOOLEAN : EnableInput(c, on)
       \/ \E rate \in Rates : UpdateOdr(c, rate)
       \/ InitCalibration(c)
       \/ Convert(c)
  \/ ReadData \/ Dispatch
  \/ Calibrated

Spec == Init /\ [][Next]_vars

(* The coordinator task is scheduled.  Nothing is assumed of the chip.       *)
FairSpec == Spec /\ WF_vars(Handler)

-----------------------------------------------------------------------------
(* chan_map, from which a calibration takes what to enable again, is what    *)
(* the chip holds, whichever transfers fail.                                 *)
MapMatchesChip == chan_map = chipEn

(* Without bus faults.  The offset calibration runs with the input it is for *)
(* enabled and no other, whatever the inputs of the running channels.        *)
OffsetAlone ==
  ~busFaults /\ chipMode = "OFFSET" => \A c \in Channels : chipEn[c] <=> c = self

(* Without bus faults, when the polls suffice.  No mode write cuts a         *)
(* calibration short: a RDY that an earlier conversion left low must not end *)
(* the wait for it.                                                          *)
CalibrationNotCut ==
  [][~busFaults /\ ~slow /\ chipMode \in {"OFFSET", "GAIN"}
       => chipMode' \in {chipMode, "IDLE"}]_vars

(* Without bus faults.  Between two handlers the chip converts: no path      *)
(* leaves it calibrating or idle, after which no sample would ever come.     *)
BackToContinuous == ~busFaults /\ todo = <<>> => chipMode = "CONTINUOUS"

(* Whichever transfers fail.  What the poll loop dispatches was read from    *)
(* the chip since this loop began: a read that fails may repeat a sample, but *)
(* never one from before a command, whose new run it would drive.  (Until the *)
(* first good read after power-up it may be the 0 of the register table.)     *)
DispatchedOfThisPoll == pollPc = "dispatch" => age # "earlier"

(* Every handler returns, also when the chip never gets ready and whichever  *)
(* transfers fail: the coordinator is not stuck in the driver.               *)
HandlersReturn == (slow /\ todo # <<>>) ~> todo = <<>>

(* Without bus faults the inputs behave as the firmware model takes them to, *)
(* also when polls run out: every handler leaves the enable bits of the      *)
(* other channels, and the rates, as if it had happened at once.             *)
ImplementsInputs ==
  /\ Inputs!InputsInit
  /\ [][busFaults \/ Inputs!InputsNext(Rates, {0})]_(Inputs!inputVars)
=============================================================================

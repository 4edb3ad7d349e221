------------------------------ MODULE DacDriver ------------------------------
(* The driver of one AD5761R (ad5761r.c): the settings kept in its device    *)
(* structure against the registers of the chip, the boot sequence in which   *)
(* the coordinator uses it, and readback, whose answer comes a frame late.   *)
EXTENDS Integers

CONSTANTS
  Ranges,          \* the output ranges the setters are called with
  Scales,          \* the power-up and clear voltages
  Called,          \* the settings whose setters are called
  ResetCtrl,       \* the control register after a full reset
  Codes, ZeroCode  \* the codes of the DAC, the code of 0 V

M5ToP5V == 2                                  \* AD5761R_RANGE_M_5V_TO_P_5V
Half == 1                                     \* AD5761R_SCALE_HALF

(* A word of the part is the set of its bits that are 1.                     *)
Word == SUBSET (0..15)

ASSUME DacDriverAssumption ==
  /\ M5ToP5V \in Ranges /\ Ranges \subseteq 0..7
  /\ Half \in Scales /\ Scales \subseteq 0..2
  /\ ResetCtrl \in Word
  /\ ZeroCode \in Codes

Flags == {"int_ref_en", "exc_temp_sd_en", "b2c_range_en", "ovr_en"}
Fields == {"ra", "pv", "cv"} \cup Flags
ASSUME CalledAssumption == Called \subseteq Fields

Values(f) == CASE f = "ra" -> Ranges [] f \in {"pv", "cv"} -> Scales [] f \in Flags -> {0, 1}

Settings == {s \in [Fields -> 0..7] : \A f \in Fields : s[f] \in Values(f)}

(* dac_init_param.                                                           *)
Configured ==
  [f \in Fields |-> CASE f = "ra" -> M5ToP5V [] f \in {"pv", "cv"} -> Half
                      [] f \in {"int_ref_en", "exc_temp_sd_en"} -> 1
                      [] f \in {"b2c_range_en", "ovr_en"} -> 0]

VARIABLES
  transferFaults,   \* SPI transfers may fail in this behaviour
  dev,      \* the settings in ad5761r_dev
  daisy,    \* its daisy_chain_en
  chainOk,  \* its last write of the daisy-chain bit succeeded (history)
  chip,     \* the registers of the part
  pc,       \* where the boot, or the call that takes two frames, stands
  last      \* the call that returned last, with its result

vars == <<transferFaults, dev, daisy, chainOk, chip, pc, last>>

Regs == {"input", "dac", "ctrl"}
Conditions == {"short", "brownout"}
BootSteps == {"init", "daisy", "reset", "reconfig", "zero"}
Silent == "nothing"                           \* SDO says nothing of a register

Chips ==
  [ctrl : Word, chain : BOOLEAN, input : Codes, dac : Codes,
   cond : SUBSET Conditions, sdo : Regs \cup {Silent}, seen : SUBSET Conditions]

Calls == [op : {"boot", "config", "daisy", "write", "readback", "condition", "pin", "remove"},
          ret : {0, -1}, what : Regs \cup Conditions \cup {Silent},
          got : Regs \cup Conditions \cup {Silent}]

TypeOK ==
  /\ transferFaults \in BOOLEAN
  /\ dev \in Settings
  /\ daisy \in BOOLEAN
  /\ chainOk \in BOOLEAN
  /\ chip \in Chips
  /\ pc \in BootSteps \cup {"failed", "booted", "idle", "second", "second_failed", "removed"}
  /\ last \in Calls

Returned(op, ret, what, got) == [op |-> op, ret |-> ret, what |-> what, got |-> got]

-----------------------------------------------------------------------------
(* ((x) & mask) << shift: the bits of x below the width of the mask, moved.  *)
Power(b) == CASE b = 0 -> 1 [] b = 1 -> 2 [] b = 2 -> 4
Bit(x, b) == (x \div Power(b)) % 2 = 1
Placed(x, width, shift) == {b + shift : b \in {i \in 0..2 : i < width /\ Bit(x, i)}}

(* Mutant of CtrlWord: the range is masked with 0x3.                         *)
CtrlWordNarrow(s) ==
  Placed(s["cv"], 2, 9) \cup Placed(s["ovr_en"], 1, 8)
    \cup Placed(s["b2c_range_en"], 1, 7) \cup Placed(s["exc_temp_sd_en"], 1, 6)
    \cup Placed(s["int_ref_en"], 1, 5) \cup Placed(s["pv"], 2, 3) \cup Placed(s["ra"], 2, 0)

(* ad5761r_config: the settings or-ed into the word of the control register. *)
CtrlWord(s) ==
  Placed(s["cv"], 2, 9) \cup Placed(s["ovr_en"], 1, 8)
    \cup Placed(s["b2c_range_en"], 1, 7) \cup Placed(s["exc_temp_sd_en"], 1, 6)
    \cup Placed(s["int_ref_en"], 1, 5) \cup Placed(s["pv"], 2, 3) \cup Placed(s["ra"], 3, 0)

(* ad5761r_set_daisy_chain_en_dis: the bit disables.                         *)
ChainWord(on) == Placed(IF on THEN 0 ELSE 1, 1, 0)

(* The part reads its control register by the data sheet: CV in DB10 and     *)
(* DB9, OVR DB8, B2C DB7, ETS DB6, IRO DB5, PV DB4 and DB3, RA DB2 to DB0.   *)
One(reg, bit) == IF bit \in reg THEN 1 ELSE 0
Field(reg, f) ==
  CASE f = "cv" -> 2 * One(reg, 10) + One(reg, 9)
    [] f = "ovr_en" -> One(reg, 8)
    [] f = "b2c_range_en" -> One(reg, 7)
    [] f = "exc_temp_sd_en" -> One(reg, 6)
    [] f = "int_ref_en" -> One(reg, 5)
    [] f = "pv" -> 2 * One(reg, 4) + One(reg, 3)
    [] f = "ra" -> 4 * One(reg, 2) + 2 * One(reg, 1) + One(reg, 0)

Obeyed(reg) == [f \in Fields |-> Field(reg, f)]

(* The part.  Every frame but a read leaves nothing for SDO; a read leaves   *)
(* the register, which the next frame shifts out.                            *)
CtrlWritten(word) == [chip EXCEPT !.ctrl = word, !.cond = {}, !.sdo = Silent]
ChainWritten(word) == [chip EXCEPT !.chain = 0 \notin word, !.sdo = Silent]
InputWritten(code) == [chip EXCEPT !.input = code, !.sdo = Silent]
Updated == [chip EXCEPT !.dac = chip.input, !.sdo = Silent]
InputAndDacWritten(code) == [chip EXCEPT !.input = code, !.dac = code, !.sdo = Silent]
DataReset(code) == [chip EXCEPT !.input = code, !.dac = code, !.sdo = Silent]
FullReset(code) ==
  [chip EXCEPT !.ctrl = ResetCtrl, !.chain = TRUE, !.input = code, !.dac = code,
               !.cond = {}, !.sdo = Silent]
ReadCommanded(reg) ==
  [chip EXCEPT !.sdo = IF chip.chain THEN reg ELSE Silent, !.seen = chip.cond]

(* A condition is latched until the control register is written.             *)
Latch(k) ==
  /\ pc \notin BootSteps
  /\ k \notin chip.cond
  /\ chip' = [chip EXCEPT !.cond = @ \cup {k}]
  /\ UNCHANGED <<transferFaults, dev, daisy, chainOk, pc, last>>

Results == IF transferFaults THEN {0, -1} ELSE {0}

(* ad5761r_write and ad5761r_read: a frame that fails does not reach the part.*)
Frame(ret, after) == chip' = IF ret = 0 THEN after ELSE chip

Init ==
  /\ transferFaults \in BOOLEAN
  /\ dev = Configured
  /\ daisy = TRUE
  /\ chainOk = TRUE
  /\ chip \in [ctrl : {ResetCtrl}, chain : {TRUE}, input : Codes, dac : Codes,
               cond : {{}, {"brownout"}}, sdo : {Silent}, seen : {{}}]
  /\ pc = "init"
  /\ last = Returned("boot", 0, Silent, Silent)

-----------------------------------------------------------------------------
(* Coordinator::init: ad5761r_init (the control register, then the daisy     *)
(* chain whatever became of the first), then a full reset, the control       *)
(* register again, and Channel::init's 0 V, whose results are not looked at. *)
BootConfig ==
  /\ pc = "init"
  /\ \E ret \in Results :
       /\ Frame(ret, CtrlWritten(CtrlWord(dev)))
       /\ last' = Returned("boot", ret, Silent, Silent)
  /\ pc' = "daisy"
  /\ UNCHANGED <<transferFaults, dev, daisy, chainOk>>

BootDaisy ==
  /\ pc = "daisy"
  /\ \E ret \in Results :
       /\ Frame(ret, ChainWritten(ChainWord(daisy)))
       /\ chainOk' = (ret = 0)
       /\ pc' = IF ret = 0 /\ last.ret = 0 THEN "reset" ELSE "failed"
  /\ UNCHANGED <<transferFaults, dev, daisy, last>>

BootReset ==
  /\ pc = "reset"
  /\ \E ret \in Results, code \in Codes : Frame(ret, FullReset(code))
  /\ pc' = "reconfig"
  /\ UNCHANGED <<transferFaults, dev, daisy, chainOk, last>>

(* Mutant of BootReconfig: the settings are not written again.               *)
BootReconfigNot ==
  /\ pc = "reconfig"
  /\ pc' = "zero"
  /\ UNCHANGED <<transferFaults, dev, daisy, chainOk, chip, last>>

BootReconfig ==
  /\ pc = "reconfig"
  /\ \E ret \in Results : Frame(ret, CtrlWritten(CtrlWord(dev)))
  /\ pc' = "zero"
  /\ UNCHANGED <<transferFaults, dev, daisy, chainOk, last>>

BootZero ==
  /\ pc = "zero"
  /\ \E ret \in Results : Frame(ret, InputAndDacWritten(ZeroCode))
  /\ pc' = "booted"
  /\ UNCHANGED <<transferFaults, dev, daisy, chainOk, last>>

-----------------------------------------------------------------------------
Callable == pc \in {"booted", "idle"}

(* The setters: the setting is stored, then ad5761r_config writes them all.  *)
Set(f, v) ==
  /\ Callable
  /\ dev' = [dev EXCEPT ![f] = v]
  /\ \E ret \in Results :
       /\ Frame(ret, CtrlWritten(CtrlWord(dev')))
       /\ last' = Returned("config", ret, Silent, Silent)
  /\ pc' = "idle"
  /\ UNCHANGED <<transferFaults, daisy, chainOk>>

SetDaisyChain(on) ==
  /\ Callable
  /\ daisy' = on
  /\ \E ret \in Results :
       /\ Frame(ret, ChainWritten(ChainWord(on)))
       /\ chainOk' = (ret = 0)
       /\ last' = Returned("daisy", ret, Silent, Silent)
  /\ pc' = "idle"
  /\ UNCHANGED <<transferFaults, dev>>

(* write_input_register, update_dac_register, write_update_dac_register and  *)
(* the software resets.                                                      *)
WriteData ==
  /\ Callable
  /\ \E ret \in Results, code \in Codes :
       /\ \E after \in {InputWritten(code), Updated, InputAndDacWritten(code),
                        DataReset(code), FullReset(code)} : Frame(ret, after)
       /\ last' = Returned("write", ret, Silent, Silent)
  /\ pc' = "idle"
  /\ UNCHANGED <<transferFaults, dev, daisy, chainOk>>

(* ad5761r_register_readback: the command, then the command again, whose     *)
(* frame carries the answer to the first.                                    *)
ReadbackFirst(reg) ==
  /\ Callable
  /\ daisy
  /\ \E ret \in Results :
       /\ Frame(ret, ReadCommanded(reg))
       /\ pc' = IF ret = 0 THEN "second" ELSE "second_failed"
  /\ last' = Returned("readback", -1, reg, Silent)
  /\ UNCHANGED <<transferFaults, dev, daisy, chainOk>>

(* Mutant of ReadbackSecond: the result of the first frame is overwritten.   *)
ReadbackSecondOnly ==
  /\ pc \in {"second", "second_failed"}
  /\ \E ret \in Results :
       /\ Frame(ret, ReadCommanded(last.what))
       /\ last' = Returned("readback", ret, last.what,
                           IF ret = 0 THEN chip.sdo ELSE Silent)
  /\ pc' = "idle"
  /\ UNCHANGED <<transferFaults, dev, daisy, chainOk>>

(* Mutant of ReadbackSecond: the results are added, not or-ed.               *)
ReadbackSecondSum ==
  /\ pc \in {"second", "second_failed"}
  /\ \E ret \in Results :
       /\ Frame(ret, ReadCommanded(last.what))
       /\ last' = Returned("readback", IF pc = "second" THEN ret ELSE ret - 1, last.what,
                           IF ret = 0 THEN chip.sdo ELSE Silent)
  /\ pc' = "idle"
  /\ UNCHANGED <<transferFaults, dev, daisy, chainOk>>

ReadbackSecond ==
  /\ pc \in {"second", "second_failed"}
  /\ \E ret \in Results :
       /\ Frame(ret, ReadCommanded(last.what))
       /\ last' = Returned("readback", IF pc = "second" THEN ret ELSE -1, last.what,
                           IF ret = 0 THEN chip.sdo ELSE Silent)
  /\ pc' = "idle"
  /\ UNCHANGED <<transferFaults, dev, daisy, chainOk>>

(* What the bit of condition k is in the frame the part shifts out: known    *)
(* when the frame before was a read of the control register.                 *)
Shifted(k) ==
  IF chip.sdo = "ctrl" THEN {IF k \in chip.seen THEN k ELSE Silent} ELSE {k, Silent}

(* get_short_circuit_condition and get_brownout_condition: one frame.        *)
GetCondition(k) ==
  /\ Callable
  /\ \E ret \in Results, bit \in Shifted(k) :
       /\ Frame(ret, ReadCommanded("ctrl"))
       /\ last' = Returned("condition", ret, k, bit)
  /\ pc' = "idle"
  /\ UNCHANGED <<transferFaults, dev, daisy, chainOk>>

(* The setters and getters of the reset, clear and LDAC pins: ad5761r_init   *)
(* gets no pin descriptor, so each of them returns -1 at once.               *)
Pin ==
  /\ Callable
  /\ last' = Returned("pin", -1, Silent, Silent)
  /\ pc' = "idle"
  /\ UNCHANGED <<transferFaults, dev, daisy, chainOk, chip>>

(* ad5761r_remove: the part keeps its registers.                             *)
Remove ==
  /\ Callable
  /\ last' = Returned("remove", 0, Silent, Silent)
  /\ pc' = "removed"
  /\ UNCHANGED <<transferFaults, dev, daisy, chainOk, chip>>

Next ==
  \/ BootConfig \/ BootDaisy \/ BootReset \/ BootReconfig \/ BootZero
  \/ \E f \in Called : \E v \in Values(f) : Set(f, v)
  \/ \E on \in BOOLEAN : SetDaisyChain(on)
  \/ WriteData
  \/ \E reg \in Regs : ReadbackFirst(reg)
  \/ ReadbackSecond
  \/ Pin \/ Remove
  \/ \E k \in Conditions : GetCondition(k) \/ Latch(k)

Spec == Init /\ [][Next]_vars

-----------------------------------------------------------------------------
(* A setter that reports success leaves the part obeying every setting of    *)
(* the structure: the bits or-ed together do not run into one another, and   *)
(* the settings whose own setter failed before, or that a software reset of  *)
(* the part has undone, are there too.                                       *)
SettingsMatch == last.op = "config" /\ last.ret = 0 => Obeyed(chip.ctrl) = dev

(* Whatever transfers fail: a readback that reports success returns the      *)
(* register it was asked for, not what an earlier frame left on SDO, unless  *)
(* the last write of the daisy-chain bit has failed.  So the guard on        *)
(* daisy_chain_en lets no readback through to a part whose SDO is off.       *)
ReadbackCurrent ==
  last.op = "readback" /\ last.ret = 0 /\ chainOk => last.got = last.what

(* Without transfer faults: when the boot is over the output is at 0 V, in   *)
(* the range the codes are computed for.                                     *)
BootedAtZero ==
  ~transferFaults /\ pc = "booted" => Obeyed(chip.ctrl) = dev /\ chip.dac = ZeroCode
=============================================================================

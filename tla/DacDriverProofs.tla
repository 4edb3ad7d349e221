--------------------------- MODULE DacDriverProofs ---------------------------
(* The properties of DacDriver for any settings, values and codes.  TypeOK   *)
(* is not enough: what a step of the boot or of a readback relies on was     *)
(* established by the step before, which BootInv and ReadbackInv record.     *)
EXTENDS DacDriver, TLAPS

(* The boot: no call has returned yet, and without transfer faults the       *)
(* settings are in the part from the second configuration on.                *)
BootInv ==
  /\ pc \in BootSteps => last.op = "boot"
  /\ ~transferFaults /\ pc \in {"zero", "booted"} => Obeyed(chip.ctrl) = dev
  /\ ~transferFaults /\ pc = "booted" => chip.dac = ZeroCode

(* SDO is on where the structure takes it for enabled, unless the write that *)
(* should have seen to it has failed; and between its two frames a readback  *)
(* has not succeeded, and has what it asked for on SDO, if SDO is on.        *)
ReadbackInv ==
  /\ chainOk /\ daisy => chip.chain
  /\ pc \in {"second", "second_failed"} => daisy
  /\ last.op = "readback" => daisy
  /\ pc \in {"second", "second_failed"} =>
       last.op = "readback" /\ last.ret = -1 /\ last.what \in Regs
  /\ pc = "second" /\ chip.chain => chip.sdo = last.what
  /\ pc = "second_failed" => transferFaults

Inv == TypeOK /\ BootInv /\ ReadbackInv /\ SettingsMatch /\ ReadbackCurrent

USE DEF Chips, Calls, Regs, Conditions, BootSteps, Silent, Results, Frame,
        Returned, CtrlWritten, ChainWritten, InputWritten, Updated,
        InputAndDacWritten, DataReset, FullReset, ReadCommanded, Callable

-----------------------------------------------------------------------------
(* The words of the driver: bits of the part, and what the part reads there. *)
LEMMA PlacedBits ==
  ASSUME NEW x \in 0..7, NEW width \in 1..3, NEW shift \in 0..10
  PROVE  Placed(x, width, shift) \in Word
  BY DEF Placed, Word

LEMMA SettingsValues ==
  ASSUME NEW s \in Settings
  PROVE  /\ s["ra"] \in 0..7 /\ s["pv"] \in 0..2 /\ s["cv"] \in 0..2
         /\ \A f \in Flags : s[f] \in {0, 1}
  BY DacDriverAssumption DEF Settings, Fields, Flags, Values

LEMMA WordsClosed ==
  /\ \A s \in Settings : CtrlWord(s) \in Word
  /\ \A on \in BOOLEAN : ChainWord(on) \in Word /\ (0 \notin ChainWord(on) <=> on)
<1>1. ASSUME NEW s \in Settings PROVE CtrlWord(s) \in Word
  <2>1. /\ Placed(s["cv"], 2, 9) \in Word /\ Placed(s["pv"], 2, 3) \in Word
        /\ Placed(s["ra"], 3, 0) \in Word
    BY SettingsValues, PlacedBits
  <2>2. \A f \in Flags : \A b \in 5..8 : Placed(s[f], 1, b) \in Word
    BY SettingsValues, PlacedBits
  <2> QED
    BY <2>1, <2>2 DEF CtrlWord, Flags, Word
<1>2. ASSUME NEW on \in BOOLEAN
      PROVE  ChainWord(on) \in Word /\ (0 \notin ChainWord(on) <=> on)
  BY DEF ChainWord, Placed, Bit, Power, Word
<1> QED
  BY <1>1, <1>2

LEMMA PlacedHas ==
  ASSUME NEW x \in 0..7, NEW width \in 1..3, NEW shift \in 0..10, NEW b \in 0..10
  PROVE  b \in Placed(x, width, shift) <=>
           b - shift \in 0..2 /\ b - shift < width /\ Bit(x, b - shift)
  BY DEF Placed

(* What each bit of the word says: the fields do not run into one another.   *)
LEMMA CtrlWordHas ==
  ASSUME NEW s \in Settings, NEW b \in 0..10
  PROVE  b \in CtrlWord(s) <=>
           \/ b \in 9..10 /\ Bit(s["cv"], b - 9)
           \/ b = 8 /\ Bit(s["ovr_en"], 0)
           \/ b = 7 /\ Bit(s["b2c_range_en"], 0)
           \/ b = 6 /\ Bit(s["exc_temp_sd_en"], 0)
           \/ b = 5 /\ Bit(s["int_ref_en"], 0)
           \/ b \in 3..4 /\ Bit(s["pv"], b - 3)
           \/ b \in 0..2 /\ Bit(s["ra"], b)
<1>1. /\ s["ra"] \in 0..7 /\ s["pv"] \in 0..7 /\ s["cv"] \in 0..7
      /\ s["ovr_en"] \in 0..7 /\ s["b2c_range_en"] \in 0..7
      /\ s["exc_temp_sd_en"] \in 0..7 /\ s["int_ref_en"] \in 0..7
  BY DEF Settings, Fields, Flags
<1>2. b \in Placed(s["cv"], 2, 9) <=> b \in 9..10 /\ Bit(s["cv"], b - 9)
  BY <1>1, PlacedHas
<1>3. b \in Placed(s["pv"], 2, 3) <=> b \in 3..4 /\ Bit(s["pv"], b - 3)
  BY <1>1, PlacedHas
<1>4. b \in Placed(s["ra"], 3, 0) <=> b \in 0..2 /\ Bit(s["ra"], b)
  BY <1>1, PlacedHas
<1>5. b \in Placed(s["ovr_en"], 1, 8) <=> b = 8 /\ Bit(s["ovr_en"], 0)
  BY <1>1, PlacedHas
<1>6. b \in Placed(s["b2c_range_en"], 1, 7) <=> b = 7 /\ Bit(s["b2c_range_en"], 0)
  BY <1>1, PlacedHas
<1>7. b \in Placed(s["exc_temp_sd_en"], 1, 6) <=> b = 6 /\ Bit(s["exc_temp_sd_en"], 0)
  BY <1>1, PlacedHas
<1>8. b \in Placed(s["int_ref_en"], 1, 5) <=> b = 5 /\ Bit(s["int_ref_en"], 0)
  BY <1>1, PlacedHas
<1> QED
  BY <1>2, <1>3, <1>4, <1>5, <1>6, <1>7, <1>8 DEF CtrlWord

(* A number is what its bits add up to.                                      *)
LEMMA BitsOf ==
  ASSUME NEW x \in 0..7
  PROVE  /\ x = 4 * (IF Bit(x, 2) THEN 1 ELSE 0) + 2 * (IF Bit(x, 1) THEN 1 ELSE 0)
                 + (IF Bit(x, 0) THEN 1 ELSE 0)
         /\ x < 4 => ~Bit(x, 2)
         /\ x < 2 => ~Bit(x, 1)
<1>1. x \in {0, 1, 2, 3, 4, 5, 6, 7}
  OBVIOUS
<1>2. Bit(x, 2) <=> (x \div 4) % 2 = 1
  BY DEF Bit, Power
<1>3. Bit(x, 1) <=> (x \div 2) % 2 = 1
  BY DEF Bit, Power
<1>4. Bit(x, 0) <=> (x \div 1) % 2 = 1
  BY DEF Bit, Power
<1> QED
  BY <1>1, <1>2, <1>3, <1>4

(* The part finds each setting whole where it looks for it.                  *)
LEMMA WordsObeyed == \A s \in Settings : Obeyed(CtrlWord(s)) = s
<1> SUFFICES ASSUME NEW s \in Settings PROVE Obeyed(CtrlWord(s)) = s
  OBVIOUS
<1> DEFINE w == CtrlWord(s)
<1>1. /\ s["ra"] \in 0..7 /\ s["pv"] \in 0..2 /\ s["cv"] \in 0..2
      /\ \A f \in Flags : s[f] \in {0, 1}
  BY SettingsValues
<1>2. /\ 0 \in w <=> Bit(s["ra"], 0)
      /\ 1 \in w <=> Bit(s["ra"], 1)
      /\ 2 \in w <=> Bit(s["ra"], 2)
  BY CtrlWordHas
<1>3. /\ 3 \in w <=> Bit(s["pv"], 0)
      /\ 4 \in w <=> Bit(s["pv"], 1)
  BY CtrlWordHas
<1>4. /\ 9 \in w <=> Bit(s["cv"], 0)
      /\ 10 \in w <=> Bit(s["cv"], 1)
  BY CtrlWordHas
<1>5. /\ 5 \in w <=> Bit(s["int_ref_en"], 0)
      /\ 6 \in w <=> Bit(s["exc_temp_sd_en"], 0)
      /\ 7 \in w <=> Bit(s["b2c_range_en"], 0)
      /\ 8 \in w <=> Bit(s["ovr_en"], 0)
  BY CtrlWordHas
<1> HIDE DEF w
<1>6. Field(w, "ra") = s["ra"]
  BY <1>1, <1>2, BitsOf DEF Field, One
<1>7. Field(w, "pv") = s["pv"]
  BY <1>1, <1>3, BitsOf DEF Field, One
<1>8. Field(w, "cv") = s["cv"]
  BY <1>1, <1>4, BitsOf DEF Field, One
<1>9. \A f \in Flags : s[f] \in 0..7 /\ s[f] < 2
  BY <1>1
<1>10. \A f \in Flags : s[f] = IF Bit(s[f], 0) THEN 1 ELSE 0
  BY <1>1, <1>9 DEF Bit, Power
<1>11. \A f \in Flags : Field(w, f) = s[f]
  BY <1>5, <1>10 DEF Field, One, Flags
<1>12. \A f \in Fields : Field(w, f) = s[f]
  BY <1>6, <1>7, <1>8, <1>11 DEF Fields
<1>13. s = [f \in Fields |-> s[f]]
  BY DEF Settings
<1> QED
  BY <1>12, <1>13 DEF Obeyed, w

LEMMA ConfiguredSettings == Configured \in Settings
  BY DacDriverAssumption DEF Configured, Settings, Fields, Flags, Values

-----------------------------------------------------------------------------
LEMMA InitInv == Init => Inv
<1> SUFFICES ASSUME Init PROVE Inv
  OBVIOUS
<1>1. chip \in Chips
  BY DacDriverAssumption DEF Init
<1>2. last \in Calls
  BY DEF Init
<1>3. TypeOK
  BY <1>1, <1>2, ConfiguredSettings DEF Init, TypeOK
<1> QED
  BY <1>3 DEF Init, Inv, BootInv, ReadbackInv, SettingsMatch, ReadbackCurrent

(* The registers of the part after a frame are registers of a part.          *)
LEMMA ChipsClosed ==
  ASSUME chip \in Chips
  PROVE  /\ \A word \in Word : CtrlWritten(word) \in Chips
         /\ \A word \in Word : ChainWritten(word) \in Chips
         /\ \A code \in Codes : InputWritten(code) \in Chips
         /\ Updated \in Chips
         /\ \A code \in Codes : InputAndDacWritten(code) \in Chips
         /\ \A code \in Codes : DataReset(code) \in Chips
         /\ \A code \in Codes : FullReset(code) \in Chips
         /\ \A reg \in Regs : ReadCommanded(reg) \in Chips
<1>1. \A word \in Word : CtrlWritten(word) \in Chips
  OBVIOUS
<1>2. \A word \in Word : ChainWritten(word) \in Chips
  OBVIOUS
<1>3. \A code \in Codes : InputWritten(code) \in Chips
  OBVIOUS
<1>4. Updated \in Chips
  OBVIOUS
<1>5. \A code \in Codes : InputAndDacWritten(code) \in Chips /\ DataReset(code) \in Chips
  OBVIOUS
<1>6. \A code \in Codes : FullReset(code) \in Chips
  BY DacDriverAssumption
<1>7. \A reg \in Regs : ReadCommanded(reg) \in Chips
  OBVIOUS
<1> QED
  BY <1>1, <1>2, <1>3, <1>4, <1>5, <1>6, <1>7

(* A setting of its own set of values replaces a setting.                    *)
LEMMA SettingsClosed ==
  ASSUME NEW s \in Settings, NEW f \in Fields, NEW v \in Values(f)
  PROVE  [s EXCEPT ![f] = v] \in Settings
  <1>1. v \in 0..7
    BY DacDriverAssumption DEF Values, Fields, Flags
  <1> QED
    BY <1>1 DEF Settings

-----------------------------------------------------------------------------
(* One lemma per group of actions: each leaves the invariant as it was.      *)
LEMMA BootKeeps ==
  ASSUME Inv, BootConfig \/ BootDaisy \/ BootReset \/ BootReconfig \/ BootZero
  PROVE  Inv'
<1>1. CASE BootConfig
  <2>1. PICK ret \in Results : /\ Frame(ret, CtrlWritten(CtrlWord(dev)))
                             /\ last' = Returned("boot", ret, Silent, Silent)
    BY <1>1 DEF BootConfig
  <2>2. CtrlWritten(CtrlWord(dev)) \in Chips /\ Obeyed(CtrlWord(dev)) = dev
    BY ChipsClosed, WordsClosed, WordsObeyed DEF Inv, TypeOK
  <2>3. TypeOK'
    BY <1>1, <2>1, <2>2 DEF BootConfig, Inv, TypeOK
  <2> QED
    BY <1>1, <2>1, <2>2, <2>3
    DEF BootConfig, Inv, TypeOK, BootInv, ReadbackInv, SettingsMatch, ReadbackCurrent
<1>2. CASE BootDaisy
  <2>1. PICK ret \in Results : /\ Frame(ret, ChainWritten(ChainWord(daisy)))
                             /\ chainOk' = (ret = 0)
                             /\ pc' = IF ret = 0 /\ last.ret = 0 THEN "reset" ELSE "failed"
    BY <1>2 DEF BootDaisy
  <2>2. /\ ChainWord(daisy) \in Word
        /\ ChainWritten(ChainWord(daisy)) \in Chips
        /\ 0 \notin ChainWord(daisy) <=> daisy
    <3> HIDE DEF Chips, ChainWritten
    <3> QED
      BY ChipsClosed, WordsClosed DEF Inv, TypeOK
  <2>3. TypeOK'
    BY <1>2, <2>1, <2>2 DEF BootDaisy, Inv, TypeOK
  <2> QED
    BY <1>2, <2>1, <2>2, <2>3
    DEF BootDaisy, Inv, TypeOK, BootInv, ReadbackInv, SettingsMatch, ReadbackCurrent
<1>3. CASE BootReset
  <2>1. PICK ret \in Results, code \in Codes : Frame(ret, FullReset(code))
    BY <1>3 DEF BootReset
  <2>2. FullReset(code) \in Chips
    BY ChipsClosed DEF Inv, TypeOK
  <2>3. TypeOK'
    BY <1>3, <2>1, <2>2 DEF BootReset, Inv, TypeOK
  <2> QED
    BY <1>3, <2>1, <2>3
    DEF BootReset, Inv, TypeOK, BootInv, ReadbackInv, SettingsMatch, ReadbackCurrent
<1>4. CASE BootReconfig
  <2>1. PICK ret \in Results : Frame(ret, CtrlWritten(CtrlWord(dev)))
    BY <1>4 DEF BootReconfig
  <2>2. CtrlWritten(CtrlWord(dev)) \in Chips /\ Obeyed(CtrlWord(dev)) = dev
    BY ChipsClosed, WordsClosed, WordsObeyed DEF Inv, TypeOK
  <2>3. TypeOK'
    BY <1>4, <2>1, <2>2 DEF BootReconfig, Inv, TypeOK
  <2> QED
    BY <1>4, <2>1, <2>2, <2>3
    DEF BootReconfig, Inv, TypeOK, BootInv, ReadbackInv, SettingsMatch, ReadbackCurrent
<1>5. CASE BootZero
  <2>1. PICK ret \in Results : Frame(ret, InputAndDacWritten(ZeroCode))
    BY <1>5 DEF BootZero
  <2>2. InputAndDacWritten(ZeroCode) \in Chips
    BY ChipsClosed, DacDriverAssumption DEF Inv, TypeOK
  <2>3. TypeOK'
    BY <1>5, <2>1, <2>2 DEF BootZero, Inv, TypeOK
  <2> QED
    BY <1>5, <2>1, <2>3
    DEF BootZero, Inv, TypeOK, BootInv, ReadbackInv, SettingsMatch, ReadbackCurrent
<1> QED
  BY <1>1, <1>2, <1>3, <1>4, <1>5

LEMMA SetterKeeps ==
  ASSUME Inv,
         (\E f \in Called : \E v \in Values(f) : Set(f, v))
           \/ (\E on \in BOOLEAN : SetDaisyChain(on))
  PROVE  Inv'
<1>1. ASSUME NEW f \in Called, NEW v \in Values(f), Set(f, v)
      PROVE  Inv'
  <2>1. dev' \in Settings
    BY <1>1, SettingsClosed, CalledAssumption DEF Set, Inv, TypeOK
  <2>2. CtrlWritten(CtrlWord(dev')) \in Chips /\ Obeyed(CtrlWord(dev')) = dev'
    BY <2>1, ChipsClosed, WordsClosed, WordsObeyed DEF Inv, TypeOK
  <2>3. PICK ret \in Results : /\ Frame(ret, CtrlWritten(CtrlWord(dev')))
                             /\ last' = Returned("config", ret, Silent, Silent)
    BY <1>1 DEF Set
  <2>4. TypeOK'
    BY <1>1, <2>1, <2>2, <2>3 DEF Set, Inv, TypeOK
  <2> QED
    BY <1>1, <2>2, <2>3, <2>4
    DEF Set, Inv, TypeOK, BootInv, ReadbackInv, SettingsMatch, ReadbackCurrent
<1>2. ASSUME NEW on \in BOOLEAN, SetDaisyChain(on)
      PROVE  Inv'
  <2>1. /\ ChainWritten(ChainWord(on)) \in Chips
        /\ 0 \notin ChainWord(on) <=> on
    <3> HIDE DEF Chips, ChainWritten
    <3> QED
      BY ChipsClosed, WordsClosed DEF Inv, TypeOK
  <2>2. PICK ret \in Results : /\ Frame(ret, ChainWritten(ChainWord(on)))
                             /\ chainOk' = (ret = 0)
                             /\ last' = Returned("daisy", ret, Silent, Silent)
    BY <1>2 DEF SetDaisyChain
  <2>3. TypeOK'
    BY <1>2, <2>1, <2>2 DEF SetDaisyChain, Inv, TypeOK
  <2> QED
    BY <1>2, <2>1, <2>2, <2>3
    DEF SetDaisyChain, Inv, TypeOK, BootInv, ReadbackInv, SettingsMatch, ReadbackCurrent
<1> QED
  BY <1>1, <1>2

LEMMA WriteKeeps == ASSUME Inv, WriteData PROVE Inv'
<1>1. PICK ret \in Results, code \in Codes :
        /\ \E after \in {InputWritten(code), Updated, InputAndDacWritten(code),
                        DataReset(code), FullReset(code)} : Frame(ret, after)
        /\ last' = Returned("write", ret, Silent, Silent)
  BY DEF WriteData
<1>2. PICK after \in {InputWritten(code), Updated, InputAndDacWritten(code),
                    DataReset(code), FullReset(code)} : Frame(ret, after)
  BY <1>1
<1>3. after \in Chips
  <2> HIDE DEF Chips, InputWritten, Updated, InputAndDacWritten, DataReset, FullReset
  <2> QED
    BY <1>2, ChipsClosed DEF Inv, TypeOK
<1>4. chip.chain => after.chain
  BY <1>2 DEF Inv, TypeOK
<1>5. TypeOK'
  BY <1>1, <1>2, <1>3 DEF WriteData, Inv, TypeOK
<1> QED
  BY <1>1, <1>2, <1>3, <1>4, <1>5
  DEF WriteData, Inv, TypeOK, BootInv, ReadbackInv, SettingsMatch, ReadbackCurrent

LEMMA ReadKeeps ==
  ASSUME Inv,
         (\E reg \in Regs : ReadbackFirst(reg)) \/ ReadbackSecond
           \/ (\E k \in Conditions : GetCondition(k))
  PROVE  Inv'
<1>1. ASSUME NEW reg \in Regs, ReadbackFirst(reg)
      PROVE  Inv'
  <2>1. ReadCommanded(reg) \in Chips
    <3> HIDE DEF Chips, ReadCommanded
    <3> QED
      BY ChipsClosed DEF Inv, TypeOK
  <2>2. PICK ret \in Results : /\ Frame(ret, ReadCommanded(reg))
                             /\ pc' = IF ret = 0 THEN "second" ELSE "second_failed"
    BY <1>1 DEF ReadbackFirst
  <2>3. TypeOK'
    BY <1>1, <2>1, <2>2 DEF ReadbackFirst, Inv, TypeOK
  <2> QED
    BY <1>1, <2>2, <2>3
    DEF ReadbackFirst, Inv, TypeOK, BootInv, ReadbackInv, SettingsMatch, ReadbackCurrent
<1>2. CASE ReadbackSecond
  <2>1. PICK ret \in Results :
          /\ Frame(ret, ReadCommanded(last.what))
          /\ last' = Returned("readback", IF pc = "second" THEN ret ELSE -1, last.what,
                              IF ret = 0 THEN chip.sdo ELSE Silent)
    BY <1>2 DEF ReadbackSecond
  <2>2. last.what \in Regs /\ last' \in Calls
    BY <1>2, <2>1 DEF ReadbackSecond, Inv, TypeOK, ReadbackInv
  <2>3. chip' \in Chips
    <3> HIDE DEF Chips, ReadCommanded
    <3> QED
      BY <2>1, <2>2, ChipsClosed DEF Inv, TypeOK
  <2>4. TypeOK'
    BY <1>2, <2>2, <2>3 DEF ReadbackSecond, Inv, TypeOK
  <2> QED
    BY <1>2, <2>1, <2>4
    DEF ReadbackSecond, Inv, TypeOK, BootInv, ReadbackInv, SettingsMatch, ReadbackCurrent
<1>3. ASSUME NEW k \in Conditions, GetCondition(k)
      PROVE  Inv'
  <2>1. ReadCommanded("ctrl") \in Chips
    BY ChipsClosed DEF Inv, TypeOK
  <2>2. PICK ret \in Results, bit \in Shifted(k) :
          /\ Frame(ret, ReadCommanded("ctrl"))
          /\ last' = Returned("condition", ret, k, bit)
    BY <1>3 DEF GetCondition
  <2>3. bit \in Conditions \cup {Silent}
    BY DEF Shifted
  <2>4. TypeOK'
    BY <1>3, <2>1, <2>2, <2>3 DEF GetCondition, Inv, TypeOK
  <2> QED
    BY <1>3, <2>2, <2>4
    DEF GetCondition, Inv, TypeOK, BootInv, ReadbackInv, SettingsMatch, ReadbackCurrent
<1> QED
  BY <1>1, <1>2, <1>3

LEMMA LatchKeeps == ASSUME Inv, NEW k \in Conditions, Latch(k) PROVE Inv'
<1>1. chip' \in Chips
  <2>1. chip.cond \cup {k} \in SUBSET Conditions
    BY DEF Inv, TypeOK
  <2> QED
    BY <2>1 DEF Latch, Inv, TypeOK
<1>2. TypeOK'
  <2> HIDE DEF Chips, Calls, Settings
  <2> QED
    BY <1>1 DEF Latch, Inv, TypeOK
<1> QED
  BY <1>2
  DEF Latch, Inv, TypeOK, BootInv, ReadbackInv, SettingsMatch, ReadbackCurrent

LEMMA OtherKeeps == ASSUME Inv, Pin \/ Remove PROVE Inv'
<1>1. /\ UNCHANGED <<transferFaults, dev, daisy, chainOk, chip>>
      /\ last'.op \in {"pin", "remove"} /\ last' \in Calls
      /\ pc' \in {"idle", "removed"}
  BY DEF Pin, Remove
<1>2. TypeOK'
  <2> HIDE DEF Chips, Calls, Settings
  <2> QED
    BY <1>1 DEF Inv, TypeOK
<1>3. BootInv' /\ ReadbackInv' /\ SettingsMatch' /\ ReadbackCurrent'
  BY <1>1 DEF Inv, BootInv, ReadbackInv, SettingsMatch, ReadbackCurrent
<1> QED
  BY <1>2, <1>3 DEF Inv

LEMMA NextInv == Inv /\ [Next]_vars => Inv'
<1> SUFFICES ASSUME Inv, [Next]_vars PROVE Inv'
  OBVIOUS
<1>1. CASE UNCHANGED vars
  BY <1>1
  DEF vars, Inv, TypeOK, BootInv, ReadbackInv, SettingsMatch, ReadbackCurrent
<1>2. CASE Next
  BY <1>2, BootKeeps, SetterKeeps, WriteKeeps, ReadKeeps, OtherKeeps, LatchKeeps DEF Next
<1> QED
  BY <1>1, <1>2

LEMMA InvAlways == Spec => []Inv
<1> QED
  BY InitInv, NextInv, PTL DEF Spec

-----------------------------------------------------------------------------
(* The variables keep their types, whatever fails.                           *)
THEOREM DacTypeCorrect == Spec => []TypeOK
<1>1. Inv => TypeOK
  BY DEF Inv
<1> QED
  BY InvAlways, <1>1, PTL

(* A setter that returns 0 leaves the part obeying all settings of           *)
(* ad5761r_dev, for every range, scale and flag: each field of the word of   *)
(* ad5761r_config is whole and where the part looks for it (WordsObeyed),    *)
(* and the settings whose own write failed are in the word again.            *)
THEOREM SettersWriteAll == Spec => []SettingsMatch
<1>1. Inv => SettingsMatch
  BY DEF Inv
<1> QED
  BY InvAlways, <1>1, PTL

(* ad5761r_register_readback returns 0 only with the register it was asked   *)
(* for, whatever fails, or after ad5761r_set_daisy_chain_en_dis has failed.  *)
THEOREM ReadbackIsCurrent == Spec => []ReadbackCurrent
<1>1. Inv => ReadbackCurrent
  BY DEF Inv
<1> QED
  BY InvAlways, <1>1, PTL

(* Without transfer faults Coordinator::init ends with the output at 0 V in  *)
(* the configured range.                                                     *)
THEOREM BootIsSound == Spec => []BootedAtZero
<1>1. Inv => BootedAtZero
  BY DEF Inv, BootInv, BootedAtZero
<1> QED
  BY InvAlways, <1>1, PTL
=============================================================================

----------------------------- MODULE AdcRegisters -----------------------------
(* The registers of the AD7172-2 in the three copies the driver works with   *)
(* (ad717x.c): the register cache, the chip, and the configuration in the    *)
(* device structure.  A call clears the masks of its fields in the cached    *)
(* register, sets their new values and writes the whole register.  Calls run *)
(* one at a time: those of AD717X_Init, then those of the firmware's         *)
(* handlers.  A register is the set of its bits that are 1.                  *)
EXTENDS Board, Integers, Sequences

CONSTANTS
  BusFaults,   \* a transfer on the bus may fail, which the caller is told
  MaxLost,     \* writes the chip may drop for their CRC: nobody is told
  Rates        \* the rates, as enum ad717x_odr, that handlers ask for

ASSUME AdcRegistersAssumption ==
  /\ BusFaults \in BOOLEAN
  /\ MaxLost \in Nat
  /\ Rates \subseteq 0 .. 22

VARIABLES
  phase,     \* "init", "service", "error" or "removed"
  todo,      \* the calls left of the one in progress
  cache,     \* cache[r]: the register in device->regs
  chip,      \* chip[r]: the register in the chip
  device,    \* device[r]: the fields of r as chan_map, setups, ... hold them
  asked,     \* asked[r]: the value each field of r was last set to (history)
  useCRC,    \* the checksum mode of the driver
  lost       \* how many writes the chip has dropped

copies == <<cache, chip, device, asked>>
vars == <<phase, todo, copies, useCRC, lost>>

Chmap(c)    == <<"CHMAP", c>>
Setupcon(c) == <<"SETUPCON", c>>
Filtcon(c)  == <<"FILTCON", c>>
Adcmode     == <<"ADCMODE", 0>>
Ifmode      == <<"IFMODE", 0>>
Gpiocon     == <<"GPIOCON", 0>>

Registers ==
  {Adcmode, Ifmode, Gpiocon} \cup {Chmap(c) : c \in Channels}
    \cup {Setupcon(c) : c \in Channels} \cup {Filtcon(c) : c \in Channels}

(* The _MSK macros, and the bits that are set or cleared by themselves.      *)
Mask ==
  [CH_EN |-> {15}, SETUP_SEL |-> 12 .. 14, AINPOS |-> 5 .. 9, AINNEG |-> 0 .. 4,
   BI_UNIPOLAR |-> {12}, REF_SEL |-> 4 .. 5, AINBUF |-> {8, 9}, REFBUF |-> {10, 11},
   ENHFILT |-> 8 .. 10, ODR |-> 0 .. 4,
   REF_EN |-> {15}, MODE |-> 4 .. 6,
   DOUT_RESET |-> {8}, DATA_STAT |-> {6}, CRC |-> 2 .. 3]

(* The macros that shift a value to its place: ((x) & (2^width - 1)) << at.  *)
Place ==
  [CH_EN |-> <<1, 15>>, SETUP_SEL |-> <<3, 12>>, AINPOS |-> <<5, 5>>, AINNEG |-> <<5, 0>>,
   BI_UNIPOLAR |-> <<1, 12>>, REF_SEL |-> <<2, 4>>, AINBUF |-> <<2, 8>>, REFBUF |-> <<2, 10>>,
   ENHFILT |-> <<3, 8>>, ODR |-> <<5, 0>>,
   REF_EN |-> <<1, 15>>, MODE |-> <<3, 4>>,
   DOUT_RESET |-> <<1, 8>>, DATA_STAT |-> <<1, 6>>, CRC |-> <<2, 2>>]

Bits(f, x) ==
  LET width == Place[f][1] at == Place[f][2]
  IN  {at + k : k \in {j \in 0 .. width - 1 : (x \div 2^j) % 2 = 1}}

(* Mutant of Assign: the other fields of the register go.                    *)
AssignWhole(reg, set) ==
  IF set = <<>> THEN reg ELSE UNION {Bits(f, set[f]) : f \in DOMAIN set}

(* value &= ~MSK; value |= FIELD(x), for the fields of `set`.                *)
Assign(reg, set) ==
  (reg \ UNION {Mask[f] : f \in DOMAIN set}) \cup UNION {Bits(f, set[f]) : f \in DOMAIN set}

(* The values of `set` in place of the old ones.                             *)
Updated(old, set) ==
  [f \in DOMAIN old \cup DOMAIN set |-> IF f \in DOMAIN set THEN set[f] ELSE old[f]]

Holds(reg, fields) == \A f \in DOMAIN fields : reg \cap Mask[f] = Bits(f, fields[f])

-----------------------------------------------------------------------------
(* ad7172_2_regs, by fields.                                                 *)
Table(r) ==
  CASE r[1] = "CHMAP" ->
         [CH_EN |-> IF r[2] = 0 THEN 1 ELSE 0, SETUP_SEL |-> 0, AINPOS |-> 0,
          AINNEG |-> IF r[2] = 0 THEN 2 ELSE 0]
    [] r[1] = "SETUPCON" -> [BI_UNIPOLAR |-> 0, REF_SEL |-> 0, AINBUF |-> 0, REFBUF |-> 0]
    [] r[1] = "FILTCON"  -> [ENHFILT |-> 2, ODR |-> IF r[2] = 0 THEN 10 ELSE 0]
    [] r = Adcmode -> [REF_EN |-> 0, MODE |-> 0]
    [] r = Ifmode  -> [DOUT_RESET |-> 1, DATA_STAT |-> 0, CRC |-> 2]
    [] r = Gpiocon -> <<>>

(* chan_map, setup and filtcon: input c against AIN4, bipolar, the internal  *)
(* reference, no buffers, 10 samples per second.  The other fields keep what *)
(* the table says.                                                           *)
InputsOf(c)  == [AINPOS |-> c, AINNEG |-> 4]
ModeNumber   == [CONTINUOUS |-> 0, SINGLE |-> 1, OFFSET |-> 4, GAIN |-> 5]
INTERNAL_REF == 2
sps_10       == 19

Configured(r) ==
  CASE r[1] = "CHMAP"    -> Updated([CH_EN |-> 1, SETUP_SEL |-> r[2]], InputsOf(r[2]))
    [] r[1] = "SETUPCON" -> [BI_UNIPOLAR |-> 1, REF_SEL |-> INTERNAL_REF,
                             AINBUF |-> 0, REFBUF |-> 0]
    [] r[1] = "FILTCON"  -> [ENHFILT |-> 2, ODR |-> sps_10]
    [] r = Adcmode -> [REF_EN |-> 1, MODE |-> ModeNumber["CONTINUOUS"]]
    [] r = Ifmode  -> [DOUT_RESET |-> 1, DATA_STAT |-> 1, CRC |-> 2]
    [] r = Gpiocon -> <<>>

-----------------------------------------------------------------------------
(* Calls.  `mirrored`: the device structure is updated after the write;      *)
(* `onError`: what the caller does when the transfer fails.                  *)
Call(op, r, set, mirrored, onError) ==
  [op |-> op, reg |-> r, set |-> set, mirrored |-> mirrored, onError |-> onError]

Reset             == Call("reset", Gpiocon, <<>>, FALSE, "return")
WriteTable(r)     == Call("write", r, <<>>, FALSE, "return")
LoopTable(r)      == Call("write", r, <<>>, FALSE, "break")
UpdateCRC         == Call("crc", Ifmode, <<>>, FALSE, "return")
ReadId            == Call("read", Gpiocon, <<>>, FALSE, "return")
Setter(r, set)    == Call("write", r, set, TRUE, "return")
Patch(r, set, e)  == Call("write", r, set, FALSE, e)
ReadStatus(e)     == Call("read", Gpiocon, <<>>, FALSE, e)
ReadData(e)       == Call("data", Gpiocon, <<>>, FALSE, e)

SetChannelStatus(c, on) == Setter(Chmap(c), [CH_EN |-> on])
SetAdcMode(m)           == Setter(Adcmode, [MODE |-> ModeNumber[m]])
ConnectAnalogInput(c)   == Setter(Chmap(c), InputsOf(c))
AssignSetup(c)          == Setter(Chmap(c), [SETUP_SEL |-> c])
SetPolarity(c)          == Setter(Setupcon(c), [BI_UNIPOLAR |-> 1])
SetReferenceSource(c)   == Setter(Setupcon(c), [REF_SEL |-> INTERNAL_REF])
EnableReference         == Setter(Adcmode, [REF_EN |-> 1])
EnableBuffers(c)        == Setter(Setupcon(c), [AINBUF |-> 0, REFBUF |-> 0])
ConfigureDeviceOdr(c, rate) == Setter(Filtcon(c), [ODR |-> rate])

(* The two loops of AD717X_Init over the setups and over the channels.       *)
SetupCalls(c) ==
  <<SetPolarity(c), SetReferenceSource(c), EnableReference, EnableBuffers(c),
    ConfigureDeviceOdr(c, sps_10)>>

ChannelCalls(c) == <<ConnectAnalogInput(c), AssignSetup(c), SetChannelStatus(c, 1)>>

TableLoop ==
  <<LoopTable(Gpiocon)>>
    \o [k \in 1 .. NumChannels |-> LoopTable(Chmap(k - 1))]
    \o [k \in 1 .. NumChannels |-> LoopTable(Setupcon(k - 1))]
    \o [k \in 1 .. NumChannels |-> LoopTable(Filtcon(k - 1))]

AfterLoop ==
  <<ReadId>>
    \o [k \in 1 .. 5 * NumChannels |-> SetupCalls((k - 1) \div 5)[((k - 1) % 5) + 1]]
    \o <<SetAdcMode("CONTINUOUS")>>
    \o [k \in 1 .. 3 * NumChannels |-> ChannelCalls((k - 1) \div 3)[((k - 1) % 3) + 1]]
    \o <<ReadStatus("ignore"), Patch(Ifmode, [DATA_STAT |-> 1], "return")>>

InitCalls ==
  <<Reset, WriteTable(Adcmode), WriteTable(Ifmode), UpdateCRC>> \o TableLoop \o AfterLoop

(* ad717x_single_read, which the firmware does not use.                      *)
SingleRead(c) ==
  <<SetChannelStatus(c, 1), SetAdcMode("SINGLE"), ReadStatus("return"),
    ReadData("return"), SetChannelStatus(c, 0)>>

-----------------------------------------------------------------------------
FieldNames == DOMAIN Mask

TypeOK ==
  /\ phase \in {"init", "service", "error", "removed"}
  /\ \A k \in DOMAIN todo : todo[k].reg \in Registers /\ DOMAIN todo[k].set \subseteq FieldNames
  /\ cache \in [Registers -> SUBSET (0 .. 15)]
  /\ chip \in [Registers -> SUBSET (0 .. 15)]
  /\ \A r \in Registers : DOMAIN device[r] \subseteq DOMAIN asked[r]
  /\ useCRC \in {"USE_CRC", "USE_XOR", "DISABLE"}
  /\ lost \in 0 .. MaxLost

(* Malloc leaves useCRC and the configuration as they come; what has not     *)
(* been set yet is left out of `device`.                                     *)
Init ==
  /\ phase = "init"
  /\ todo = InitCalls
  /\ cache = [r \in Registers |-> Assign({}, Table(r))]
  /\ chip = [r \in Registers |-> {}]
  /\ device = [r \in Registers |-> <<>>]
  /\ asked = [r \in Registers |-> Table(r)]
  /\ useCRC \in {"USE_CRC", "USE_XOR", "DISABLE"}
  /\ lost = 0

(* The call is done: the next one, or the end of the initialisation.         *)
Proceed ==
  /\ todo' = Tail(todo)
  /\ phase' = IF phase = "init" /\ Len(todo) = 1 THEN "service" ELSE phase

(* Mutant of GiveUp: the error of a setter that is no table write is lost.   *)
GiveUpLenient(onError) ==
  \/ onError = "return" /\ Head(todo).set # <<>> /\ Proceed
  \/ onError = "return" /\ Head(todo).set = <<>> /\ todo' = <<>>
       /\ phase' = IF phase = "init" THEN "error" ELSE phase
  \/ onError = "break" /\ todo' = AfterLoop /\ UNCHANGED phase
  \/ onError = "ignore" /\ Proceed

(* The transfer fails: the rest of the calls is given up, or of the loop     *)
(* over the table, whose error the read of the ID overwrites.                *)
GiveUp(onError) ==
  \/ onError = "return" /\ todo' = <<>>
       /\ phase' = IF phase = "init" THEN "error" ELSE phase
  \/ onError = "break" /\ todo' = AfterLoop /\ UNCHANGED phase
  \/ onError = "ignore" /\ Proceed

(* The chip checks the CRC of a write once IFMODE.CRC_EN is set.             *)
ChipChecks == Bits("CRC", 2) \subseteq chip[Ifmode]

(* Mutant of WriteRegister: the structure is updated before the write.       *)
WriteRegisterEager ==
  LET call == Head(todo) r == call.reg
      value == Assign(cache[r], call.set)
  IN  /\ call.op = "write"
      /\ cache' = [cache EXCEPT ![r] = value]
      /\ asked' = [asked EXCEPT ![r] = Updated(@, call.set)]
      /\ device' = IF call.mirrored THEN [device EXCEPT ![r] = Updated(@, call.set)] ELSE device
      /\ \/ chip' = [chip EXCEPT ![r] = value] /\ Proceed /\ UNCHANGED lost
         \/ lost < MaxLost /\ ChipChecks /\ lost' = lost + 1 /\ Proceed /\ UNCHANGED chip
         \/ BusFaults /\ GiveUp(call.onError) /\ UNCHANGED <<chip, lost>>
      /\ UNCHANGED useCRC

(* A setter, or AD717X_WriteRegister by itself.  The cache changes first.    *)
(* The write arrives, or the chip drops it for its CRC, which looks the same *)
(* from here, or the transfer fails.                                         *)
WriteRegister ==
  LET call == Head(todo) r == call.reg
      value == Assign(cache[r], call.set)
      mirror == IF call.mirrored THEN [device EXCEPT ![r] = Updated(@, call.set)] ELSE device
  IN  /\ call.op = "write"
      /\ cache' = [cache EXCEPT ![r] = value]
      /\ asked' = [asked EXCEPT ![r] = Updated(@, call.set)]
      /\ \/ /\ chip' = [chip EXCEPT ![r] = value]
            /\ device' = mirror
            /\ Proceed /\ UNCHANGED lost
         \/ /\ lost < MaxLost /\ ChipChecks
            /\ lost' = lost + 1
            /\ device' = mirror
            /\ Proceed /\ UNCHANGED chip
         \/ /\ BusFaults
            /\ GiveUp(call.onError)
            /\ UNCHANGED <<chip, device, lost>>
      /\ UNCHANGED useCRC

(* AD717X_Reset.  What the registers of the chip hold then is not used.      *)
ResetChip ==
  /\ Head(todo).op = "reset"
  /\ \/ chip' = [r \in Registers |-> {}] /\ Proceed
     \/ BusFaults /\ GiveUp("return") /\ UNCHANGED chip
  /\ UNCHANGED <<cache, device, asked, useCRC, lost>>

(* Mutant of UpdateCRCSetting: the mode stays as malloc left it.             *)
UpdateCRCSettingNot ==
  /\ Head(todo).op = "crc"
  /\ Proceed
  /\ UNCHANGED <<copies, useCRC, lost>>

(* AD717X_UpdateCRCSetting.                                                  *)
UpdateCRCSetting ==
  /\ Head(todo).op = "crc"
  /\ useCRC' = CASE Bits("CRC", 2) \subseteq cache[Ifmode] -> "USE_CRC"
                 [] Bits("CRC", 1) \subseteq cache[Ifmode] -> "USE_XOR"
                 [] OTHER -> "DISABLE"
  /\ Proceed
  /\ UNCHANGED <<copies, lost>>

(* A read of the ID, status or data register, whose values are kept apart.   *)
ReadRegister ==
  /\ Head(todo).op \in {"read", "data"}
  /\ Proceed \/ (BusFaults /\ GiveUp(Head(todo).onError))
  /\ UNCHANGED <<copies, useCRC, lost>>

(* What the handlers of the firmware call: inputs and rates as the driver    *)
(* has it, the mode register behind its back (adc_internal_calibration).     *)
Begin(calls) ==
  /\ phase = "service" /\ todo = <<>>
  /\ todo' = calls
  /\ UNCHANGED <<phase, copies, useCRC, lost>>

Handler ==
  \/ \E c \in Channels :
       \/ \E on \in {0, 1} : Begin(<<SetChannelStatus(c, on)>>)
       \/ \E rate \in Rates : Begin(<<ConfigureDeviceOdr(c, rate)>>)
       \/ Begin(SingleRead(c))
  \/ \E m \in {"OFFSET", "GAIN", "CONTINUOUS"} :
       Begin(<<Patch(Adcmode, [MODE |-> ModeNumber[m]], "ignore")>>)
  \/ Begin(<<ReadData("ignore")>>)

(* AD717X_remove, which the firmware does not use: the structure is freed.   *)
Remove ==
  /\ phase = "service" /\ todo = <<>>
  /\ phase' = "removed"
  /\ UNCHANGED <<todo, copies, useCRC, lost>>

Over == phase \in {"error", "removed"} /\ UNCHANGED vars

DriverCall ==
  /\ todo # <<>>
  /\ WriteRegister \/ ResetChip \/ UpdateCRCSetting \/ ReadRegister

Next == DriverCall \/ Handler \/ Remove \/ Over

Spec == Init /\ [][Next]_vars

-----------------------------------------------------------------------------
(* AD717X_ComputeDataregSize for a 24-bit part: the bytes of a data read, as *)
(* the interface register asks for them.                                     *)
DataregSize(ifmode) ==
  3 - (IF 0 \in ifmode THEN 1 ELSE 0) + (IF 6 \in ifmode THEN 1 ELSE 0)

(* When the initialisation reports success the chip is configured as the     *)
(* tables of spi_configs.c say, in every field of every register the         *)
(* channels need, although the loop over the start values may have ended     *)
(* early without an error.  (GPIOCON is written in that loop alone.)         *)
ReadyWhenOk ==
  [][phase = "init" /\ phase' = "service" /\ lost' = 0 =>
       \A r \in Registers \ {Gpiocon} : Holds(chip'[r], Configured(r))]_vars

(* Driver and chip agree on the frame whenever a register is read: on the    *)
(* checksum, although the first writes go out with whatever malloc left in   *)
(* useCRC, and on the status byte behind a conversion, from which the        *)
(* coordinator takes the channel.                                            *)
FrameAgrees ==
  lost = 0 /\ todo # <<>> /\ Head(todo).op \in {"read", "data"} =>
    /\ useCRC = "USE_CRC" <=> ChipChecks
    /\ Head(todo).op = "data" => DataregSize(cache[Ifmode]) = DataregSize(chip[Ifmode])

(* The configuration in the device structure, from which a calibration takes *)
(* the inputs to enable again, is in the chip, whichever transfers fail with *)
(* an error: a failed setter leaves its field in the cache, and no later     *)
(* write of another field may carry it to the chip behind the structure.     *)
(* (The mode is also written behind the structure, and nothing reads it.)    *)
StructureIsCurrent ==
  lost = 0 => \A r \in Registers :
    Holds(chip[r], [f \in DOMAIN device[r] \ {"MODE"} |-> device[r][f]])

(* A write that arrives carries every field of the register as it was last   *)
(* set, also the fields of calls whose own write failed or was dropped by    *)
(* the chip, and disturbs no field of another call: a dropped write is made  *)
(* good by the next one to the register.                                     *)
WriteCarriesAll ==
  [][\A r \in Registers : chip'[r] # chip[r] => Holds(chip'[r], asked'[r])]_vars
=============================================================================

-------------------------- MODULE AdcRegistersProofs --------------------------
(* The register copies of the ADC driver, for any number of channels, any    *)
(* rates and any number of dropped writes.  The step invariant: the cached   *)
(* register holds every field as it was last set.  It is kept because a call *)
(* sets fields of one register only, whose masks are disjoint and as wide as *)
(* the shifting macros; and a reset, which clears the chip behind the cache, *)
(* is only ever the first call.  In the second half the rest of the script   *)
(* is related to what the calls so far have reached: cache, chip and device  *)
(* structure agree but for what a call that is left will write.              *)
EXTENDS AdcRegisters, SequenceTheorems, TLAPS

FieldsOf(r) ==
  CASE r[1] = "CHMAP"    -> {"CH_EN", "SETUP_SEL", "AINPOS", "AINNEG"}
    [] r[1] = "SETUPCON" -> {"BI_UNIPOLAR", "REF_SEL", "AINBUF", "REFBUF"}
    [] r[1] = "FILTCON"  -> {"ENHFILT", "ODR"}
    [] r[1] = "ADCMODE"  -> {"REF_EN", "MODE"}
    [] r[1] = "IFMODE"   -> {"DOUT_RESET", "DATA_STAT", "CRC"}
    [] OTHER -> {}

(* Every call but the reset.                                                 *)
Errors == {"return", "break", "ignore"}

Setters ==
  {SetChannelStatus(c, on) : c \in Channels, on \in {0, 1}}
    \cup {SetAdcMode(m) : m \in {"CONTINUOUS", "SINGLE"}}
    \cup {ConnectAnalogInput(c) : c \in Channels}
    \cup {AssignSetup(c) : c \in Channels}
    \cup {SetPolarity(c) : c \in Channels}
    \cup {SetReferenceSource(c) : c \in Channels}
    \cup {EnableReference}
    \cup {EnableBuffers(c) : c \in Channels}
    \cup {ConfigureDeviceOdr(c, rate) : c \in Channels, rate \in Rates \cup {sps_10}}

Writes ==
  {WriteTable(r) : r \in Registers} \cup {LoopTable(r) : r \in Registers}
    \cup {Patch(Adcmode, [MODE |-> ModeNumber[m]], "ignore") : m \in DOMAIN ModeNumber}
    \cup {Patch(Ifmode, [DATA_STAT |-> 1], "return")}

Reads == {ReadId} \cup {ReadStatus(e) : e \in Errors} \cup {ReadData(e) : e \in Errors}

Ordinary == Setters \cup Writes \cup Reads \cup {UpdateCRC}

-----------------------------------------------------------------------------
LEMMA RegistersOf ==
  /\ Adcmode \in Registers /\ Ifmode \in Registers /\ Gpiocon \in Registers
  /\ \A c \in Channels :
       Chmap(c) \in Registers /\ Setupcon(c) \in Registers /\ Filtcon(c) \in Registers
  BY DEF Registers

LEMMA FieldsOfRegisters ==
  /\ FieldsOf(Adcmode) = {"REF_EN", "MODE"}
  /\ FieldsOf(Ifmode) = {"DOUT_RESET", "DATA_STAT", "CRC"}
  /\ FieldsOf(Gpiocon) = {}
  /\ \A c : /\ FieldsOf(Chmap(c)) = {"CH_EN", "SETUP_SEL", "AINPOS", "AINNEG"}
            /\ FieldsOf(Setupcon(c)) = {"BI_UNIPOLAR", "REF_SEL", "AINBUF", "REFBUF"}
            /\ FieldsOf(Filtcon(c)) = {"ENHFILT", "ODR"}
  BY DEF FieldsOf, Adcmode, Ifmode, Gpiocon, Chmap, Setupcon, Filtcon

(* A call sets fields of the register it writes.                             *)
LEMMA OrdinaryCall ==
  ASSUME NEW call \in Ordinary
  PROVE  /\ call.reg \in Registers /\ call.op # "reset"
         /\ DOMAIN call.set \subseteq FieldsOf(call.reg)
<1>1. CASE call \in Setters
  BY <1>1, RegistersOf, FieldsOfRegisters
     DEF Setters, SetChannelStatus, SetAdcMode, ConnectAnalogInput, AssignSetup, SetPolarity,
         SetReferenceSource, EnableReference, EnableBuffers, ConfigureDeviceOdr, Setter, Call,
         InputsOf
<1>2. CASE call \in Writes
  BY <1>2, RegistersOf, FieldsOfRegisters DEF Writes, WriteTable, LoopTable, Patch, Call
<1>3. CASE call \in Reads \cup {UpdateCRC}
  BY <1>3, RegistersOf DEF Reads, UpdateCRC, ReadId, ReadStatus, ReadData, Call
<1> QED
  BY <1>1, <1>2, <1>3 DEF Ordinary

(* The masks of the fields of a register do not overlap, and a value shifted *)
(* to its place stays within the mask of its field.                          *)
LEMMA MasksAreApart ==
  ASSUME NEW r, NEW f \in FieldsOf(r), NEW g \in FieldsOf(r), f # g
  PROVE  Mask[f] \cap Mask[g] = {}
  BY DEF FieldsOf, Mask

LEMMA KnownFields ==
  ASSUME NEW r
  PROVE  FieldsOf(r) \subseteq FieldNames
  BY DEF FieldsOf, FieldNames, Mask

LEMMA BitsAreMasked ==
  ASSUME NEW f \in FieldNames, NEW x
  PROVE  Bits(f, x) \subseteq Mask[f] /\ Mask[f] \subseteq 0 .. 15
<1>1. \A k \in 0 .. Place[f][1] - 1 : Place[f][2] + k \in Mask[f]
  BY DEF FieldNames, Mask, Place
<1>2. Mask[f] \subseteq 0 .. 15
  BY DEF FieldNames, Mask
<1> QED
  BY <1>1, <1>2 DEF Bits

LEMMA AssignType ==
  ASSUME NEW r, NEW reg \in SUBSET (0 .. 15), NEW set, DOMAIN set \subseteq FieldsOf(r)
  PROVE  Assign(reg, set) \in SUBSET (0 .. 15)
<1>1. \A f \in DOMAIN set : Bits(f, set[f]) \subseteq 0 .. 15
  BY BitsAreMasked, KnownFields
<1> QED
  BY <1>1 DEF Assign

LEMMA AssignSets ==
  ASSUME NEW r, NEW reg, NEW set, DOMAIN set \subseteq FieldsOf(r)
  PROVE  Holds(Assign(reg, set), set)
<1> SUFFICES ASSUME NEW f \in DOMAIN set
             PROVE  Assign(reg, set) \cap Mask[f] = Bits(f, set[f])
  BY DEF Holds
<1>1. \A g \in DOMAIN set \ {f} : Bits(g, set[g]) \cap Mask[f] = {}
  BY BitsAreMasked, KnownFields, MasksAreApart
<1>2. Bits(f, set[f]) \subseteq Mask[f]
  BY BitsAreMasked, KnownFields
<1> QED
  BY <1>1, <1>2 DEF Assign

(* Setting some fields of a register leaves the others as they were.         *)
LEMMA AssignHolds ==
  ASSUME NEW r, NEW reg, NEW set, NEW old, DOMAIN set \subseteq FieldsOf(r),
         DOMAIN old \subseteq FieldsOf(r), Holds(reg, old)
  PROVE  Holds(Assign(reg, set), Updated(old, set))
<1> DEFINE new == Updated(old, set)
<1>1. DOMAIN new = DOMAIN old \cup DOMAIN set
  BY DEF Updated
<1>2. ASSUME NEW f \in DOMAIN set
      PROVE  Assign(reg, set) \cap Mask[f] = Bits(f, set[f])
  BY AssignSets DEF Holds
<1>3. ASSUME NEW f \in DOMAIN old \ DOMAIN set
      PROVE  Assign(reg, set) \cap Mask[f] = reg \cap Mask[f]
  <2>1. \A g \in DOMAIN set : Bits(g, set[g]) \cap Mask[f] = {} /\ Mask[g] \cap Mask[f] = {}
    BY BitsAreMasked, KnownFields, MasksAreApart
  <2> QED
    BY <2>1 DEF Assign
<1>4. \A f \in DOMAIN set : new[f] = set[f]
  BY DEF Updated
<1>5. \A f \in DOMAIN old \ DOMAIN set : new[f] = old[f]
  BY DEF Updated
<1> HIDE DEF new
<1>6. \A f \in DOMAIN new : Assign(reg, set) \cap Mask[f] = Bits(f, new[f])
  BY <1>1, <1>2, <1>3, <1>4, <1>5 DEF Holds
<1> QED
  BY <1>6 DEF Holds, new

-----------------------------------------------------------------------------
(* The calls.                                                                *)
LEMMA SequenceOf ==
  ASSUME NEW S, NEW n \in Nat, NEW f \in [1 .. n -> S]
  PROVE  f \in Seq(S)
  OBVIOUS

LEMMA SequenceWithin ==
  ASSUME NEW S, NEW T, NEW s \in Seq(T), \A k \in 1 .. Len(s) : s[k] \in S
  PROVE  s \in Seq(S)
<1>1. s \in [1 .. Len(s) -> S] /\ Len(s) \in Nat
  OBVIOUS
<1> QED
  BY <1>1, SequenceOf

(* What is left of some calls in a row after the first one.                  *)
LEMMA AfterTheFirst ==
  ASSUME NEW S, NEW h, NEW b \in S, NEW c \in S, NEW d \in S,
         NEW s \in Seq(S), NEW t \in Seq(S)
  PROVE  /\ (<<h, b, c, d>> \o s) \o t # <<>>
         /\ Head((<<h, b, c, d>> \o s) \o t) = h
         /\ Tail((<<h, b, c, d>> \o s) \o t) \in Seq(S)
<1> DEFINE first == <<h, b, c, d>>  q == (first \o s) \o t
           all == S \cup {h}
<1>1. first \in Seq(all) /\ s \in Seq(all) /\ t \in Seq(all) /\ Len(first) = 4
  OBVIOUS
<1>2. \A k \in 2 .. 4 : first[k] \in S
  OBVIOUS
<1>3. first[1] = h
  OBVIOUS
<1> HIDE DEF first, all
<1>4. first \o s \in Seq(all) /\ Len(first \o s) = 4 + Len(s)
  <2>1. first \o s \in Seq(all) /\ Len(first \o s) = Len(first) + Len(s)
    BY <1>1, ConcatProperties, Zenon
  <2> QED
    BY <1>1, <2>1
<1>5. q \in Seq(all) /\ Len(q) = 4 + Len(s) + Len(t)
  BY <1>1, <1>4
<1>6. \A k \in 2 .. Len(first \o s) : (first \o s)[k] \in S
  BY <1>1, <1>2, <1>4
<1>7. \A k \in 2 .. Len(q) : q[k] \in S
  BY <1>1, <1>4, <1>5, <1>6
<1>8. q[1] = h
  BY <1>1, <1>3, <1>4
<1> HIDE DEF q
<1>9. q # <<>> /\ Head(q) = h /\ Len(q) \in Nat \ {0}
  BY <1>1, <1>5, <1>8
<1>10. /\ Tail(q) \in Seq(all) /\ Len(Tail(q)) = Len(q) - 1
       /\ \A k \in 1 .. Len(Tail(q)) : Tail(q)[k] = q[k + 1]
  BY <1>5, <1>9, HeadTailProperties
<1>11. \A k \in 1 .. Len(Tail(q)) : Tail(q)[k] \in S
  BY <1>7, <1>9, <1>10
<1>12. Tail(q) \in Seq(S)
  BY <1>10, <1>11, SequenceWithin
<1> QED
  BY <1>9, <1>12 DEF q, first

(* The calls of AD717X_Init are in any set that has each of them.            *)
LEMMA TableLoopIn ==
  ASSUME NEW S, \A r \in Registers \ {Adcmode, Ifmode} : LoopTable(r) \in S
  PROVE  TableLoop \in Seq(S)
<1>1. /\ Gpiocon \in Registers \ {Adcmode, Ifmode}
      /\ \A c \in Channels : /\ Chmap(c) \in Registers \ {Adcmode, Ifmode}
                              /\ Setupcon(c) \in Registers \ {Adcmode, Ifmode}
                              /\ Filtcon(c) \in Registers \ {Adcmode, Ifmode}
  BY RegistersOf DEF Gpiocon, Adcmode, Ifmode, Chmap, Setupcon, Filtcon
<1>2. \A k \in 1 .. NumChannels : k - 1 \in Channels
  BY NumChannelsAssumption DEF Channels
<1>3. <<LoopTable(Gpiocon)>> \in Seq(S)
  BY <1>1
<1>4. /\ [k \in 1 .. NumChannels |-> LoopTable(Chmap(k - 1))] \in [1 .. NumChannels -> S]
      /\ [k \in 1 .. NumChannels |-> LoopTable(Setupcon(k - 1))] \in [1 .. NumChannels -> S]
      /\ [k \in 1 .. NumChannels |-> LoopTable(Filtcon(k - 1))] \in [1 .. NumChannels -> S]
  BY <1>1, <1>2
<1>5. /\ [k \in 1 .. NumChannels |-> LoopTable(Chmap(k - 1))] \in Seq(S)
      /\ [k \in 1 .. NumChannels |-> LoopTable(Setupcon(k - 1))] \in Seq(S)
      /\ [k \in 1 .. NumChannels |-> LoopTable(Filtcon(k - 1))] \in Seq(S)
  BY <1>4, SequenceOf, NumChannelsAssumption
<1> QED
  BY <1>3, <1>5 DEF TableLoop

SetupLoop == [k \in 1 .. 5 * NumChannels |-> SetupCalls((k - 1) \div 5)[((k - 1) % 5) + 1]]
InputLoop == [k \in 1 .. 3 * NumChannels |-> ChannelCalls((k - 1) \div 3)[((k - 1) % 3) + 1]]
LastCalls == <<ReadStatus("ignore"), Patch(Ifmode, [DATA_STAT |-> 1], "return")>>

AfterLoopCalls ==
  {SetupCalls(c)[j] : c \in Channels, j \in 1 .. 5}
    \cup {ChannelCalls(c)[j] : c \in Channels, j \in 1 .. 3}
    \cup {ReadId, SetAdcMode("CONTINUOUS"), ReadStatus("ignore"),
          Patch(Ifmode, [DATA_STAT |-> 1], "return")}

LEMMA AfterLoopParts ==
  ASSUME NEW S, AfterLoopCalls \subseteq S
  PROVE  /\ AfterLoop = <<ReadId>> \o SetupLoop \o <<SetAdcMode("CONTINUOUS")>> \o InputLoop
                           \o LastCalls
         /\ <<ReadId>> \in Seq(S) /\ SetupLoop \in Seq(S)
         /\ <<SetAdcMode("CONTINUOUS")>> \in Seq(S) /\ InputLoop \in Seq(S)
         /\ LastCalls \in Seq(S)
<1> DEFINE N == NumChannels
<1>1. \A k \in 1 .. 5 * N : (k - 1) \div 5 \in Channels /\ ((k - 1) % 5) + 1 \in 1 .. 5
  BY NumChannelsAssumption DEF Channels
<1>2. \A k \in 1 .. 3 * N : (k - 1) \div 3 \in Channels /\ ((k - 1) % 3) + 1 \in 1 .. 3
  BY NumChannelsAssumption DEF Channels
<1>3. \A c \in Channels : \A j \in 1 .. 5 : SetupCalls(c)[j] \in S
  BY DEF AfterLoopCalls
<1>4. \A c \in Channels : \A j \in 1 .. 3 : ChannelCalls(c)[j] \in S
  BY DEF AfterLoopCalls
<1>5. SetupLoop \in Seq(S) /\ InputLoop \in Seq(S)
  <2>1. 5 * N \in Nat /\ 3 * N \in Nat
    BY NumChannelsAssumption
  <2>2. SetupLoop \in [1 .. 5 * N -> S] /\ InputLoop \in [1 .. 3 * N -> S]
    BY <1>1, <1>2, <1>3, <1>4 DEF SetupLoop, InputLoop
  <2> QED
    BY <2>1, <2>2, SequenceOf
<1>6. /\ <<ReadId>> \in Seq(S) /\ <<SetAdcMode("CONTINUOUS")>> \in Seq(S)
      /\ LastCalls \in Seq(S)
  BY DEF AfterLoopCalls, LastCalls
<1> QED
  BY <1>5, <1>6 DEF AfterLoop, SetupLoop, InputLoop, LastCalls

LEMMA AfterLoopIn ==
  ASSUME NEW S, AfterLoopCalls \subseteq S
  PROVE  AfterLoop \in Seq(S)
<1>1. \A s, t \in Seq(S) : s \o t \in Seq(S)
  OBVIOUS
<1> QED
  BY <1>1, AfterLoopParts, Zenon

LEMMA TableLoopType == TableLoop \in Seq(Ordinary)
<1>1. \A r \in Registers : LoopTable(r) \in Ordinary
  BY DEF Ordinary, Writes
<1> QED
  BY <1>1, TableLoopIn

LEMMA AfterLoopType == AfterLoop \in Seq(Ordinary)
<1>1. \A c \in Channels : \A j \in 1 .. 5 : SetupCalls(c)[j] \in Ordinary
  BY DEF SetupCalls, Ordinary, Setters
<1>2. \A c \in Channels : \A j \in 1 .. 3 : ChannelCalls(c)[j] \in Ordinary
  BY DEF ChannelCalls, Ordinary, Setters
<1>3. /\ ReadId \in Ordinary /\ SetAdcMode("CONTINUOUS") \in Ordinary
      /\ ReadStatus("ignore") \in Ordinary
      /\ Patch(Ifmode, [DATA_STAT |-> 1], "return") \in Ordinary
  BY DEF Ordinary, Reads, Setters, Writes, Errors
<1> QED
  BY <1>1, <1>2, <1>3, AfterLoopIn DEF AfterLoopCalls

(* After the reset every call of the initialisation is an ordinary one.      *)
LEMMA InitCallsType ==
  /\ Head(InitCalls) = Reset /\ InitCalls # <<>>
  /\ Tail(InitCalls) \in Seq(Ordinary)
<1>1. WriteTable(Adcmode) \in Ordinary /\ WriteTable(Ifmode) \in Ordinary
      /\ UpdateCRC \in Ordinary
  BY RegistersOf DEF Ordinary, Writes
<1> QED
  BY <1>1, TableLoopType, AfterLoopType, AfterTheFirst DEF InitCalls

LEMMA InitCallsAll == InitCalls \in Seq(Ordinary \cup {Reset})
<1>1. /\ TableLoop \in Seq(Ordinary \cup {Reset}) /\ AfterLoop \in Seq(Ordinary \cup {Reset})
  BY TableLoopType, AfterLoopType
<1>2. <<Reset, WriteTable(Adcmode), WriteTable(Ifmode), UpdateCRC>>
        \in Seq(Ordinary \cup {Reset})
  BY RegistersOf DEF Ordinary, Writes
<1> QED
  BY <1>1, <1>2, ConcatProperties DEF InitCalls

-----------------------------------------------------------------------------
CallsOK ==
  \/ todo \in Seq(Ordinary)
  \/ todo = InitCalls /\ \A r \in Registers : chip[r] = {}

CopiesOK ==
  /\ DOMAIN device = Registers /\ DOMAIN asked = Registers
  /\ \A r \in Registers : DOMAIN asked[r] \subseteq FieldsOf(r) /\ Holds(cache[r], asked[r])

Inv == TypeOK /\ CallsOK /\ CopiesOK

(* What the type invariant says of the calls left.                           *)
Typed(calls) ==
  \A k \in DOMAIN calls :
    calls[k].reg \in Registers /\ DOMAIN calls[k].set \subseteq FieldNames

LEMMA OrdinaryTyped == ASSUME NEW calls \in Seq(Ordinary) PROVE Typed(calls)
<1> SUFFICES ASSUME NEW k \in DOMAIN calls
             PROVE  /\ calls[k].reg \in Registers
                    /\ DOMAIN calls[k].set \subseteq FieldNames
  BY DEF Typed
<1>1. calls[k] \in Ordinary
  OBVIOUS
<1> QED
  BY <1>1, OrdinaryCall, KnownFields

LEMMA InitCallsTyped == Typed(InitCalls)
<1> SUFFICES ASSUME NEW k \in DOMAIN InitCalls
             PROVE  /\ InitCalls[k].reg \in Registers
                    /\ DOMAIN InitCalls[k].set \subseteq FieldNames
  BY DEF Typed
<1>1. InitCalls[k] \in Ordinary \cup {Reset}
  BY InitCallsAll
<1>2. CASE InitCalls[k] = Reset
  BY <1>2, RegistersOf DEF Reset, Call
<1> QED
  BY <1>1, <1>2, OrdinaryCall, KnownFields

LEMMA TableFields ==
  ASSUME NEW r \in Registers
  PROVE  DOMAIN Table(r) \subseteq FieldsOf(r)
<1>1. Adcmode[1] = "ADCMODE" /\ Ifmode[1] = "IFMODE" /\ Gpiocon[1] = "GPIOCON"
  BY DEF Adcmode, Ifmode, Gpiocon
<1>2. CASE r \in {Adcmode, Ifmode, Gpiocon}
  BY <1>1, <1>2, FieldsOfRegisters DEF Table, Adcmode, Ifmode, Gpiocon
<1>3. ASSUME NEW c \in Channels, r = Chmap(c) PROVE DOMAIN Table(r) \subseteq FieldsOf(r)
  BY <1>3, FieldsOfRegisters DEF Table, Chmap
<1>4. ASSUME NEW c \in Channels, r = Setupcon(c) PROVE DOMAIN Table(r) \subseteq FieldsOf(r)
  BY <1>4, FieldsOfRegisters DEF Table, Setupcon
<1>5. ASSUME NEW c \in Channels, r = Filtcon(c) PROVE DOMAIN Table(r) \subseteq FieldsOf(r)
  BY <1>5, FieldsOfRegisters DEF Table, Filtcon
<1> QED
  BY <1>2, <1>3, <1>4, <1>5 DEF Registers

LEMMA InitInv == Init => Inv
<1> SUFFICES ASSUME Init PROVE Inv
  OBVIOUS
<1>1. \A r \in Registers : /\ Assign({}, Table(r)) \in SUBSET (0 .. 15)
                            /\ Holds(Assign({}, Table(r)), Table(r))
  BY TableFields, AssignType, AssignSets
<1>2. CopiesOK
  BY <1>1, TableFields DEF Init, CopiesOK
<1>3. CallsOK
  BY DEF Init, CallsOK
<1>4. TypeOK
  BY <1>1, InitCallsTyped, AdcRegistersAssumption DEF Init, TypeOK, Typed
<1> QED
  BY <1>2, <1>3, <1>4 DEF Inv

-----------------------------------------------------------------------------
(* Every way to go on leaves ordinary calls.                                 *)
LEMMA ProceedKeeps ==
  ASSUME Inv, todo # <<>>, Proceed
  PROVE  todo' \in Seq(Ordinary) /\ phase' \in {"init", "service", "error", "removed"}
<1>1. todo' \in Seq(Ordinary)
  BY InitCallsType DEF Inv, CallsOK, Proceed
<1> QED
  BY <1>1 DEF Inv, TypeOK, Proceed

LEMMA GiveUpKeeps ==
  ASSUME Inv, todo # <<>>, NEW e, GiveUp(e)
  PROVE  todo' \in Seq(Ordinary) /\ phase' \in {"init", "service", "error", "removed"}
<1>1. CASE Proceed
  BY <1>1, ProceedKeeps
<1>2. CASE todo' = <<>> /\ phase' = IF phase = "init" THEN "error" ELSE phase
  BY <1>2 DEF Inv, TypeOK
<1>3. CASE todo' = AfterLoop /\ UNCHANGED phase
  BY <1>3, AfterLoopType DEF Inv, TypeOK
<1> QED
  BY <1>1, <1>2, <1>3 DEF GiveUp

LEMMA HeadCall ==
  ASSUME Inv, todo # <<>>, Head(todo).op # "reset"
  PROVE  Head(todo) \in Ordinary
  BY InitCallsType DEF Inv, CallsOK, Reset, Call

(* A write: the register of the call takes the fields of the call in cache   *)
(* and history, and in the chip all of them or nothing.                      *)
LEMMA WriteKeeps ==
  ASSUME Inv, todo # <<>>, WriteRegister
  PROVE  /\ Inv'
         /\ \A r \in Registers : chip'[r] # chip[r] => Holds(chip'[r], asked'[r])
<1> DEFINE call == Head(todo)  w == call.reg  value == Assign(cache[w], call.set)
<1>1. /\ w \in Registers /\ DOMAIN call.set \subseteq FieldsOf(w)
  BY HeadCall, OrdinaryCall DEF WriteRegister
<1>2. /\ cache \in [Registers -> SUBSET (0 .. 15)] /\ chip \in [Registers -> SUBSET (0 .. 15)]
      /\ DOMAIN device = Registers /\ DOMAIN asked = Registers
      /\ \A r \in Registers : DOMAIN asked[r] \subseteq FieldsOf(r) /\ Holds(cache[r], asked[r])
      /\ \A r \in Registers : DOMAIN device[r] \subseteq DOMAIN asked[r]
  BY DEF Inv, TypeOK, CopiesOK
<1>3. value \in SUBSET (0 .. 15) /\ Holds(value, Updated(asked[w], call.set))
  BY <1>1, <1>2, AssignType, AssignHolds
<1>4. /\ DOMAIN Updated(asked[w], call.set) = DOMAIN asked[w] \cup DOMAIN call.set
      /\ DOMAIN Updated(device[w], call.set) = DOMAIN device[w] \cup DOMAIN call.set
  BY DEF Updated
<1>5. /\ cache' = [cache EXCEPT ![w] = value]
      /\ asked' = [asked EXCEPT ![w] = Updated(asked[w], call.set)]
      /\ device' = device \/ device' = [device EXCEPT ![w] = Updated(device[w], call.set)]
      /\ chip' = chip \/ chip' = [chip EXCEPT ![w] = value]
      /\ useCRC' = useCRC
  BY DEF WriteRegister
<1> HIDE DEF value
<1>6. CopiesOK'
  BY <1>1, <1>2, <1>3, <1>4, <1>5 DEF CopiesOK
<1>7. todo' \in Seq(Ordinary) /\ phase' \in {"init", "service", "error", "removed"}
  BY ProceedKeeps, GiveUpKeeps DEF WriteRegister
<1>8. CallsOK' /\ Typed(todo')
  BY <1>7, OrdinaryTyped DEF CallsOK
<1>9. lost' \in 0 .. MaxLost
  BY AdcRegistersAssumption DEF WriteRegister, Inv, TypeOK
<1>10. /\ cache' \in [Registers -> SUBSET (0 .. 15)]
       /\ chip' \in [Registers -> SUBSET (0 .. 15)]
  BY <1>1, <1>2, <1>3, <1>5
<1>11. \A r \in Registers : DOMAIN device'[r] \subseteq DOMAIN asked'[r]
  BY <1>1, <1>2, <1>4, <1>5
<1>12. TypeOK'
  BY <1>5, <1>7, <1>8, <1>9, <1>10, <1>11 DEF Inv, TypeOK, Typed
<1>13. \A r \in Registers : chip'[r] # chip[r] => Holds(chip'[r], asked'[r])
  BY <1>1, <1>2, <1>3, <1>5
<1> QED
  BY <1>6, <1>8, <1>12, <1>13 DEF Inv

LEMMA ResetKeeps ==
  ASSUME Inv, todo # <<>>, ResetChip
  PROVE  /\ Inv'
         /\ \A r \in Registers : chip'[r] = chip[r]
<1>1. \A r \in Registers : chip[r] = {}
  BY OrdinaryCall DEF ResetChip, Inv, CallsOK
<1>2. todo' \in Seq(Ordinary) /\ phase' \in {"init", "service", "error", "removed"}
  BY ProceedKeeps, GiveUpKeeps DEF ResetChip
<1>3. CallsOK' /\ Typed(todo')
  BY <1>2, OrdinaryTyped DEF CallsOK
<1>4. chip' \in [Registers -> SUBSET (0 .. 15)] /\ \A r \in Registers : chip'[r] = chip[r]
  BY <1>1 DEF ResetChip, Inv, TypeOK
<1> QED
  BY <1>2, <1>3, <1>4 DEF ResetChip, Inv, TypeOK, CopiesOK, Typed

LEMMA OtherCallsKeep ==
  ASSUME Inv, todo # <<>>, UpdateCRCSetting \/ ReadRegister
  PROVE  Inv'
<1>1. todo' \in Seq(Ordinary) /\ phase' \in {"init", "service", "error", "removed"}
  BY ProceedKeeps, GiveUpKeeps DEF UpdateCRCSetting, ReadRegister
<1>2. CallsOK' /\ Typed(todo')
  BY <1>1, OrdinaryTyped DEF CallsOK
<1>3. UNCHANGED <<copies, lost>> /\ useCRC' \in {"USE_CRC", "USE_XOR", "DISABLE"}
  BY DEF UpdateCRCSetting, ReadRegister, Inv, TypeOK
<1> QED
  BY <1>1, <1>2, <1>3 DEF copies, Inv, TypeOK, CopiesOK, Typed

LEMMA BeginKeeps ==
  ASSUME Inv, NEW calls \in Seq(Ordinary), Begin(calls)
  PROVE  Inv'
<1>1. CallsOK' /\ Typed(todo')
  BY OrdinaryTyped DEF Begin, CallsOK
<1> QED
  BY <1>1 DEF Begin, copies, Inv, TypeOK, CopiesOK, Typed

(* What the handlers of the firmware call is ordinary.                       *)
LEMMA HandlerKeeps == ASSUME Inv, Handler PROVE Inv'
<1>1. ASSUME NEW c \in Channels
      PROVE  /\ \A on \in {0, 1} : <<SetChannelStatus(c, on)>> \in Seq(Ordinary)
             /\ \A rate \in Rates : <<ConfigureDeviceOdr(c, rate)>> \in Seq(Ordinary)
             /\ SingleRead(c) \in Seq(Ordinary)
  BY DEF Ordinary, Setters, Reads, Errors, SingleRead
<1>2. \A m \in {"OFFSET", "GAIN", "CONTINUOUS"} :
        <<Patch(Adcmode, [MODE |-> ModeNumber[m]], "ignore")>> \in Seq(Ordinary)
  BY DEF Ordinary, Writes, ModeNumber
<1>3. <<ReadData("ignore")>> \in Seq(Ordinary)
  BY DEF Ordinary, Reads, Errors
<1> QED
  BY <1>1, <1>2, <1>3, BeginKeeps DEF Handler

LEMMA NextInv ==
  Inv /\ [Next]_vars =>
    Inv' /\ \A r \in Registers : chip'[r] # chip[r] => Holds(chip'[r], asked'[r])
<1> SUFFICES ASSUME Inv, [Next]_vars
             PROVE  /\ Inv'
                    /\ \A r \in Registers : chip'[r] # chip[r] => Holds(chip'[r], asked'[r])
  OBVIOUS
<1>1. CASE todo # <<>> /\ WriteRegister
  BY <1>1, WriteKeeps
<1>2. CASE todo # <<>> /\ ResetChip
  BY <1>2, ResetKeeps
<1>3. CASE todo # <<>> /\ (UpdateCRCSetting \/ ReadRegister)
  BY <1>3, OtherCallsKeep DEF UpdateCRCSetting, ReadRegister, copies
<1>4. CASE Handler
  BY <1>4, HandlerKeeps DEF Handler, Begin, copies
<1>5. CASE Remove
  BY <1>5 DEF Remove, copies, Inv, TypeOK, CallsOK, CopiesOK
<1>6. CASE Over \/ UNCHANGED vars
  BY <1>6 DEF Over, vars, copies, Inv, TypeOK, CallsOK, CopiesOK
<1> QED
  BY <1>1, <1>2, <1>3, <1>4, <1>5, <1>6 DEF Next, DriverCall

LEMMA InvAlways == Spec => []Inv
<1> QED
  BY InitInv, NextInv, PTL DEF Spec

(* The registers keep their types: no write sets a bit beyond the sixteenth, *)
(* and the device structure holds no field the driver has not set.           *)
THEOREM RegistersTypeCorrect == Spec => []TypeOK
<1>1. Inv => TypeOK
  BY DEF Inv
<1> QED
  BY InvAlways, <1>1, PTL

(* A register write of the ADC driver that arrives carries every field as it *)
(* was last set, however many writes failed or were dropped before it: a     *)
(* dropped write is made good by the next one to its register.               *)
THEOREM WritesCarryAll == Spec => WriteCarriesAll
<1> DEFINE Step == \A r \in Registers : chip'[r] # chip[r] => Holds(chip'[r], asked'[r])
<1>1. Inv /\ [Next]_vars => [Step]_vars
  BY NextInv
<1> HIDE DEF Step
<1>2. Spec => [][Step]_vars
  BY InvAlways, <1>1, PTL DEF Spec
<1> QED
  BY <1>2 DEF WriteCarriesAll, Step

-----------------------------------------------------------------------------
(* The script, for the other properties.  A call of the initialisation sets  *)
(* what the tables say and returns when its write fails, but for the start   *)
(* values; a handler sets all fields of a register that are set in service.  *)
Left(s) == {s[k] : k \in DOMAIN s}

Volatile == {"CH_EN", "ODR", "MODE"}
Fixed    == {"ENHFILT", "DOUT_RESET", "CRC"}

BootCall(call) ==
  /\ call.op \in {"write", "read"}
  /\ \A f \in DOMAIN call.set : f \notin Fixed /\ call.set[f] = Configured(call.reg)[f]
  /\ DOMAIN call.set # {} => call.onError = "return" /\ (call.mirrored \/ call.reg = Ifmode)
  /\ call.reg = Ifmode => call.onError = "return" /\ ~call.mirrored
  /\ call.onError = "ignore" => call.op = "read"

ServiceCall(call) ==
  /\ call.op \in {"write", "read", "data"}
  /\ call.onError # "break"
  /\ call.op = "write" =>
       /\ call.reg # Ifmode
       /\ DOMAIN call.set = Volatile \cap FieldsOf(call.reg)
       /\ call.mirrored \/ call.reg = Adcmode

BootCalls    == {call \in Ordinary : BootCall(call)}
ServiceCalls == {call \in Ordinary : ServiceCall(call)}

After1 == Tail(InitCalls)
After2 == Tail(After1)
After3 == Tail(After2)
FirstCalls == {InitCalls, After1, After2, After3}

(* What is left to do.                                                       *)
Stage ==
  /\ phase = "init" => todo \in FirstCalls \/ todo \in Seq(BootCalls)
  /\ phase = "service" => todo \in Seq(ServiceCalls)
  /\ phase \in {"error", "removed"} => todo = <<>>

Running == phase \in {"init", "service"}

(* A field whose write failed differs from the structure, but only in        *)
(* service, and only if every write of its register sets it again.           *)
Agree ==
  /\ DOMAIN device[Ifmode] = {}
  /\ Running => \A r \in Registers : \A f \in DOMAIN device[r] :
       phase = "init" \/ f \notin Volatile => device[r][f] = asked[r][f]

(* Once the driver has read its checksum mode, the interface register of the *)
(* chip is the cached one.                                                   *)
Settled == Running /\ UpdateCRC \notin Left(todo)

Framed ==
  /\ Running => "CRC" \in DOMAIN asked[Ifmode] /\ asked[Ifmode]["CRC"] = 2
  /\ lost = 0 /\ phase = "init" /\ todo = After3 => chip[Ifmode] = cache[Ifmode]
  /\ lost = 0 /\ Settled => chip[Ifmode] = cache[Ifmode] /\ useCRC = "USE_CRC"

(* Of every register and field that is not as configured a write is left     *)
(* that the initialisation does not survive if it fails.                     *)
Required(call) == call.op = "write" /\ call.onError = "return"

OwesWrite(s, r) == \E call \in Left(s) : Required(call) /\ call.reg = r

OwesField(s, r, f) ==
  \E call \in Left(s) : Required(call) /\ call.reg = r /\ f \in DOMAIN call.set

Configuring(r) ==
  /\ OwesWrite(todo, r) \/ lost > 0 \/ Holds(chip[r], asked[r])
  /\ \A f \in FieldsOf(r) : OwesField(todo, r, f) \/ asked[r][f] = Configured(r)[f]

Owed ==
  /\ \A r \in Registers : FieldsOf(r) \subseteq DOMAIN asked[r]
  /\ phase = "init" => \A r \in Registers \ {Gpiocon} : Configuring(r)

BootInv == Inv /\ Stage /\ Agree /\ StructureIsCurrent /\ Framed /\ Owed

-----------------------------------------------------------------------------
LEMMA LeftTail ==
  ASSUME NEW S, NEW s \in Seq(S), s # <<>>
  PROVE  /\ Head(s) \in Left(s) /\ Left(Tail(s)) \subseteq Left(s)
         /\ \A call \in Left(s) : call = Head(s) \/ call \in Left(Tail(s))
<1>1. /\ Tail(s) \in Seq(S) /\ Len(Tail(s)) = Len(s) - 1 /\ Len(s) \in Nat \ {0}
      /\ \A k \in 1 .. Len(Tail(s)) : Tail(s)[k] = s[k + 1]
      /\ Head(s) = s[1]
  BY HeadTailProperties
<1>2. PICK n \in Nat \ {0} : n = Len(s)
  BY <1>1
<1>3. DOMAIN s = 1 .. n /\ DOMAIN Tail(s) = 1 .. n - 1
  BY <1>1, <1>2
<1>4. ASSUME NEW k \in 1 .. n PROVE s[k] = Head(s) \/ s[k] \in Left(Tail(s))
  <2>1. CASE k = 1
    BY <1>1, <2>1
  <2>2. CASE k # 1
    <3>1. k - 1 \in 1 .. n - 1 /\ (k - 1) + 1 = k
      BY <2>2
    <3>2. Tail(s)[k - 1] = s[k]
      BY <1>1, <1>2, <3>1
    <3> QED
      BY <1>3, <3>1, <3>2 DEF Left
  <2> QED
    BY <2>1, <2>2
<1>5. ASSUME NEW k \in 1 .. n - 1 PROVE Tail(s)[k] \in Left(s)
  <2>1. k + 1 \in 1 .. n /\ Tail(s)[k] = s[k + 1]
    BY <1>1, <1>2
  <2> QED
    BY <1>3, <2>1 DEF Left
<1>6. s[1] \in Left(s)
  <2>1. 1 \in 1 .. n
    OBVIOUS
  <2> QED
    BY <1>3, <2>1 DEF Left
<1> QED
  BY <1>1, <1>3, <1>4, <1>5, <1>6 DEF Left

LEMMA LeftConcat ==
  ASSUME NEW S, NEW s \in Seq(S), NEW t \in Seq(S)
  PROVE  Left(s) \subseteq Left(s \o t) /\ Left(t) \subseteq Left(s \o t)
<1>1. /\ s \o t \in Seq(S) /\ Len(s \o t) = Len(s) + Len(t)
      /\ \A i \in 1 .. Len(s) + Len(t) :
           (s \o t)[i] = IF i <= Len(s) THEN s[i] ELSE t[i - Len(s)]
  BY ConcatProperties
<1>2. PICK m \in Nat, n \in Nat : m = Len(s) /\ n = Len(t)
  OBVIOUS
<1>3. DOMAIN s = 1 .. m /\ DOMAIN t = 1 .. n /\ DOMAIN (s \o t) = 1 .. m + n
  BY <1>1, <1>2
<1>4. ASSUME NEW k \in 1 .. m PROVE s[k] \in Left(s \o t)
  <2>1. k \in 1 .. m + n /\ (s \o t)[k] = s[k]
    BY <1>1, <1>2
  <2> QED
    BY <1>3, <2>1 DEF Left
<1>5. ASSUME NEW k \in 1 .. n PROVE t[k] \in Left(s \o t)
  <2>1. m + k \in 1 .. m + n /\ ~(m + k <= m) /\ (m + k) - m = k
    OBVIOUS
  <2>2. (s \o t)[m + k] = t[k]
    BY <1>1, <1>2, <2>1
  <2> QED
    BY <1>3, <2>1, <2>2 DEF Left
<1> QED
  BY <1>3, <1>4, <1>5 DEF Left

LEMMA OneOff ==
  ASSUME NEW T, NEW q \in Seq(T), NEW n \in Nat, Len(q) = n + 1
  PROVE  /\ q # <<>> /\ Head(q) = q[1] /\ Tail(q) \in Seq(T) /\ Len(Tail(q)) = n
         /\ \A k \in 1 .. n : Tail(q)[k] = q[k + 1]
<1>1. q # <<>>
  OBVIOUS
<1> QED
  BY <1>1, HeadTailProperties

(* What the tables say of the registers that the initialisation writes.      *)
LEMMA ConfiguredFields ==
  /\ Configured(Ifmode) = [DOUT_RESET |-> 1, DATA_STAT |-> 1, CRC |-> 2]
  /\ Configured(Adcmode) = [REF_EN |-> 1, MODE |-> 0]
  /\ \A c : /\ Configured(Chmap(c)) = Updated([CH_EN |-> 1, SETUP_SEL |-> c], InputsOf(c))
            /\ Configured(Setupcon(c)) = [BI_UNIPOLAR |-> 1, REF_SEL |-> INTERNAL_REF,
                                          AINBUF |-> 0, REFBUF |-> 0]
            /\ Configured(Filtcon(c)) = [ENHFILT |-> 2, ODR |-> sps_10]
<1>1. /\ Ifmode[1] = "IFMODE" /\ Adcmode[1] = "ADCMODE" /\ ModeNumber["CONTINUOUS"] = 0
      /\ Adcmode # Ifmode /\ Gpiocon # Ifmode /\ Adcmode # Gpiocon
  BY DEF Ifmode, Adcmode, Gpiocon, ModeNumber
<1>2. ASSUME NEW c, NEW r \in {Chmap(c), Setupcon(c), Filtcon(c)}
      PROVE  r \notin {Adcmode, Ifmode, Gpiocon}
  BY DEF Chmap, Setupcon, Filtcon, Ifmode, Adcmode, Gpiocon
<1>3. Configured(Ifmode) = [DOUT_RESET |-> 1, DATA_STAT |-> 1, CRC |-> 2]
  BY <1>1 DEF Configured
<1>4. Configured(Adcmode) = [REF_EN |-> 1, MODE |-> 0]
  BY <1>1 DEF Configured
<1>5. ASSUME NEW c
      PROVE  /\ Configured(Chmap(c)) = Updated([CH_EN |-> 1, SETUP_SEL |-> c], InputsOf(c))
             /\ Configured(Setupcon(c)) = [BI_UNIPOLAR |-> 1, REF_SEL |-> INTERNAL_REF,
                                           AINBUF |-> 0, REFBUF |-> 0]
             /\ Configured(Filtcon(c)) = [ENHFILT |-> 2, ODR |-> sps_10]
  <2>1. /\ Chmap(c)[1] = "CHMAP" /\ Chmap(c)[2] = c
        /\ Setupcon(c)[1] = "SETUPCON" /\ Filtcon(c)[1] = "FILTCON"
    BY DEF Chmap, Setupcon, Filtcon
  <2> QED
    BY <1>2, <2>1 DEF Configured
<1> QED
  BY <1>3, <1>4, <1>5

LEMMA ConfiguredInputs ==
  ASSUME NEW c
  PROVE  /\ Configured(Chmap(c))["CH_EN"] = 1
         /\ Configured(Chmap(c))["SETUP_SEL"] = c
         /\ Configured(Chmap(c))["AINPOS"] = c
         /\ Configured(Chmap(c))["AINNEG"] = 4
<1> DEFINE old == [CH_EN |-> 1, SETUP_SEL |-> c]
           fields == {"CH_EN", "SETUP_SEL", "AINPOS", "AINNEG"}
<1>1. DOMAIN InputsOf(c) = {"AINPOS", "AINNEG"} /\ DOMAIN old = {"CH_EN", "SETUP_SEL"}
  BY DEF InputsOf
<1>2. \A f \in fields :
        Updated(old, InputsOf(c))[f] =
          IF f \in {"AINPOS", "AINNEG"} THEN InputsOf(c)[f] ELSE old[f]
  BY <1>1 DEF Updated
<1>3. Configured(Chmap(c)) = Updated(old, InputsOf(c))
  BY ConfiguredFields
<1>4. InputsOf(c)["AINPOS"] = c /\ InputsOf(c)["AINNEG"] = 4 /\ old["CH_EN"] = 1
      /\ old["SETUP_SEL"] = c
  BY DEF InputsOf
<1> QED
  BY <1>2, <1>3, <1>4

LEMMA ConfiguredDomain ==
  ASSUME NEW r \in Registers \ {Gpiocon}
  PROVE  DOMAIN Configured(r) = FieldsOf(r)
<1>1. CASE r \in {Adcmode, Ifmode}
  BY <1>1, ConfiguredFields, FieldsOfRegisters
<1>2. ASSUME NEW c \in Channels, r = Chmap(c) PROVE DOMAIN Configured(r) = FieldsOf(r)
  BY <1>2, ConfiguredFields, FieldsOfRegisters DEF Updated, InputsOf
<1>3. ASSUME NEW c \in Channels, r \in {Setupcon(c), Filtcon(c)}
      PROVE  DOMAIN Configured(r) = FieldsOf(r)
  BY <1>3, ConfiguredFields, FieldsOfRegisters
<1> QED
  BY <1>1, <1>2, <1>3 DEF Registers

LEMMA SetupCallsBoot ==
  ASSUME NEW c \in Channels
  PROVE  \A j \in 1 .. 5 : SetupCalls(c)[j] \in BootCalls
<1>1. \A j \in 1 .. 5 : SetupCalls(c)[j] \in Ordinary
  BY DEF SetupCalls, Ordinary, Setters
<1>2. Setupcon(c) # Ifmode /\ Filtcon(c) # Ifmode /\ Adcmode # Ifmode
  BY DEF Setupcon, Filtcon, Ifmode, Adcmode
<1>3. BootCall(SetPolarity(c)) /\ BootCall(SetReferenceSource(c)) /\ BootCall(EnableBuffers(c))
  BY <1>2, ConfiguredFields
     DEF BootCall, Fixed, SetPolarity, SetReferenceSource, EnableBuffers, Setter, Call
<1>4. BootCall(EnableReference) /\ BootCall(ConfigureDeviceOdr(c, sps_10))
  BY <1>2, ConfiguredFields
     DEF BootCall, Fixed, EnableReference, ConfigureDeviceOdr, Setter, Call
<1> QED
  BY <1>1, <1>3, <1>4 DEF SetupCalls, BootCalls

LEMMA ChannelCallsBoot ==
  ASSUME NEW c \in Channels
  PROVE  \A j \in 1 .. 3 : ChannelCalls(c)[j] \in BootCalls
<1>1. \A j \in 1 .. 3 : ChannelCalls(c)[j] \in Ordinary
  BY DEF ChannelCalls, Ordinary, Setters
<1>2. Chmap(c) # Ifmode
  BY DEF Chmap, Ifmode
<1>3. /\ BootCall(ConnectAnalogInput(c)) /\ BootCall(AssignSetup(c))
      /\ BootCall(SetChannelStatus(c, 1))
  BY <1>2, ConfiguredInputs
     DEF BootCall, Fixed, ConnectAnalogInput, AssignSetup, SetChannelStatus, Setter, Call, InputsOf
<1> QED
  BY <1>1, <1>3 DEF ChannelCalls, BootCalls

(* Every call of the initialisation after the third is a BootCall.           *)
LEMMA AfterLoopBoot == AfterLoop \in Seq(BootCalls)
<1>1. /\ ReadId \in Ordinary /\ SetAdcMode("CONTINUOUS") \in Ordinary
      /\ ReadStatus("ignore") \in Ordinary
      /\ Patch(Ifmode, [DATA_STAT |-> 1], "return") \in Ordinary
  BY DEF Ordinary, Reads, Setters, Writes, Errors
<1>2. Adcmode # Ifmode /\ Gpiocon # Ifmode
  BY DEF Adcmode, Ifmode, Gpiocon
<1>3. BootCall(ReadId) /\ BootCall(ReadStatus("ignore"))
  BY <1>2 DEF BootCall, ReadId, ReadStatus, Call
<1>4. BootCall(SetAdcMode("CONTINUOUS"))
  BY <1>2, ConfiguredFields DEF BootCall, Fixed, SetAdcMode, Setter, Call, ModeNumber
<1>5. BootCall(Patch(Ifmode, [DATA_STAT |-> 1], "return"))
  BY ConfiguredFields DEF BootCall, Fixed, Patch, Call
<1>6. AfterLoopCalls \subseteq BootCalls
  BY <1>1, <1>3, <1>4, <1>5, SetupCallsBoot, ChannelCallsBoot DEF AfterLoopCalls, BootCalls
<1> QED
  BY <1>6, AfterLoopIn

LEMMA NoFields == DOMAIN <<>> = {}
  OBVIOUS

LEMMA TableBoot ==
  /\ TableLoop \in Seq(BootCalls)
  /\ WriteTable(Adcmode) \in BootCalls /\ WriteTable(Ifmode) \in BootCalls
<1>1. ASSUME NEW r \in Registers \ {Adcmode, Ifmode} PROVE LoopTable(r) \in BootCalls
  <2>1. LoopTable(r) \in Ordinary
    BY DEF Ordinary, Writes
  <2>2. BootCall(LoopTable(r))
    BY NoFields DEF BootCall, LoopTable, Call
  <2> QED
    BY <2>1, <2>2 DEF BootCalls
<1>2. WriteTable(Adcmode) \in BootCalls /\ WriteTable(Ifmode) \in BootCalls
  <2>1. WriteTable(Adcmode) \in Ordinary /\ WriteTable(Ifmode) \in Ordinary
    BY RegistersOf DEF Ordinary, Writes
  <2>2. BootCall(WriteTable(Adcmode)) /\ BootCall(WriteTable(Ifmode))
    BY NoFields DEF BootCall, WriteTable, Call
  <2> QED
    BY <2>1, <2>2 DEF BootCalls
<1> QED
  BY <1>1, <1>2, TableLoopIn

LEMMA InitScript ==
  /\ InitCalls # <<>> /\ Head(InitCalls) = Reset
  /\ After1 # <<>> /\ Head(After1) = WriteTable(Adcmode)
  /\ After2 # <<>> /\ Head(After2) = WriteTable(Ifmode)
  /\ After3 # <<>> /\ Head(After3) = UpdateCRC
  /\ Tail(After3) \in Seq(BootCalls)
  /\ FirstCalls \subseteq Seq(Ordinary \cup {Reset})
<1> DEFINE T == Ordinary \cup {Reset}  S == BootCalls
<1>0. PICK q, a, b, c, d, s, t :
        /\ a = Reset /\ b = WriteTable(Adcmode) /\ c = WriteTable(Ifmode) /\ d = UpdateCRC
        /\ s = TableLoop /\ t = AfterLoop /\ q = InitCalls
  OBVIOUS
<1> DEFINE first == <<a, b, c, d>>
<1>1. first \in Seq(T) /\ s \in Seq(T) /\ t \in Seq(T) /\ Len(first) = 4
      /\ s \in Seq(S) /\ t \in Seq(S)
  <2>1. s \in Seq(S) /\ t \in Seq(S)
    BY <1>0, TableBoot, AfterLoopBoot
  <2>2. S \subseteq T /\ a \in T /\ b \in T /\ c \in T /\ d \in T
    BY <1>0, TableBoot DEF BootCalls, Ordinary
  <2> QED
    BY <2>1, <2>2
<1>2. first[1] = a /\ first[2] = b /\ first[3] = c /\ first[4] = d
  OBVIOUS
<1>3. PICK m \in Nat, n \in Nat : m = Len(s) /\ n = Len(t)
  BY <1>1
<1>4. q = (first \o s) \o t
  BY <1>0 DEF InitCalls
<1> HIDE DEF first, T, S
<1>5. first \o s \in Seq(T) /\ Len(first \o s) = 4 + m
  <2>1. first \o s \in Seq(T) /\ Len(first \o s) = Len(first) + Len(s)
    BY <1>1, ConcatProperties, Zenon
  <2> QED
    BY <1>1, <1>3, <2>1
<1>6. /\ (first \o s)[1] = a /\ (first \o s)[2] = b
      /\ (first \o s)[3] = c /\ (first \o s)[4] = d
      /\ \A k \in 5 .. 4 + m : (first \o s)[k] \in S
  BY <1>1, <1>2, <1>3, <1>5 DEF S
<1>7. q \in Seq(T) /\ Len(q) = 4 + m + n
  <2>1. q \in Seq(T) /\ Len(q) = Len(first \o s) + Len(t)
    BY <1>1, <1>4, <1>5, ConcatProperties, Zenon
  <2> QED
    BY <1>3, <1>5, <2>1
<1>8. /\ q[1] = a /\ q[2] = b /\ q[3] = c /\ q[4] = d
  <2>1. \A k \in 1 .. 4 + m : q[k] = (first \o s)[k]
    BY <1>1, <1>3, <1>4, <1>5, <1>7
  <2>2. 1 \in 1 .. 4 + m /\ 2 \in 1 .. 4 + m /\ 3 \in 1 .. 4 + m /\ 4 \in 1 .. 4 + m
    OBVIOUS
  <2> QED
    BY <1>6, <2>1, <2>2
<1>9. ASSUME NEW k \in 5 .. 4 + m + n PROVE q[k] \in S
  BY <1>1, <1>3, <1>4, <1>5, <1>6, <1>7 DEF S
<1>10. PICK q1, q2, q3, q4 : q1 = Tail(q) /\ q2 = Tail(q1) /\ q3 = Tail(q2) /\ q4 = Tail(q3)
  OBVIOUS
<1>11. q # <<>> /\ Head(q) = a /\ q1 \in Seq(T) /\ Len(q1) = (2 + m + n) + 1
      /\ \A k \in 1 .. 3 + m + n : q1[k] = q[k + 1]
  <2>1. Len(q) = (3 + m + n) + 1 /\ 3 + m + n \in Nat /\ 3 + m + n = (2 + m + n) + 1
    BY <1>7
  <2> QED
    BY <1>7, <1>8, <1>9, <1>10, <2>1, OneOff
<1>12. q1 # <<>> /\ Head(q1) = b /\ q2 \in Seq(T) /\ Len(q2) = (1 + m + n) + 1
      /\ \A k \in 1 .. 2 + m + n : q2[k] = q[k + 2]
  <2>1. 2 + m + n \in Nat /\ 2 + m + n = (1 + m + n) + 1 /\ 1 \in 1 .. 3 + m + n
        /\ \A k \in 1 .. 2 + m + n : k + 1 \in 1 .. 3 + m + n /\ (k + 1) + 1 = k + 2
    OBVIOUS
  <2>2. q1 # <<>> /\ Head(q1) = q1[1] /\ q2 \in Seq(T) /\ Len(q2) = 2 + m + n
        /\ \A k \in 1 .. 2 + m + n : q2[k] = q1[k + 1]
    BY <1>10, <1>11, <2>1, OneOff
  <2> QED
    BY <1>8, <1>9, <1>11, <2>1, <2>2
<1>13. q2 # <<>> /\ Head(q2) = c /\ q3 \in Seq(T) /\ Len(q3) = (m + n) + 1
       /\ \A k \in 1 .. 1 + m + n : q3[k] = q[k + 3]
  <2>1. 1 + m + n \in Nat /\ 1 + m + n = (m + n) + 1 /\ 1 \in 1 .. 2 + m + n
        /\ \A k \in 1 .. 1 + m + n : k + 1 \in 1 .. 2 + m + n /\ (k + 1) + 2 = k + 3
    OBVIOUS
  <2>2. q2 # <<>> /\ Head(q2) = q2[1] /\ q3 \in Seq(T) /\ Len(q3) = 1 + m + n
        /\ \A k \in 1 .. 1 + m + n : q3[k] = q2[k + 1]
    BY <1>10, <1>12, <2>1, OneOff
  <2> QED
    BY <1>8, <1>9, <1>12, <2>1, <2>2
<1>14. q3 # <<>> /\ Head(q3) = d /\ q4 \in Seq(T) /\ Len(q4) = m + n
       /\ \A k \in 1 .. m + n : q4[k] = q[k + 4]
  <2>1. m + n \in Nat /\ 1 \in 1 .. 1 + m + n
        /\ \A k \in 1 .. m + n : k + 1 \in 1 .. 1 + m + n /\ (k + 1) + 3 = k + 4
    OBVIOUS
  <2>2. q3 # <<>> /\ Head(q3) = q3[1] /\ q4 \in Seq(T) /\ Len(q4) = m + n
        /\ \A k \in 1 .. m + n : q4[k] = q3[k + 1]
    BY <1>10, <1>13, <2>1, OneOff
  <2>3. \A k \in 1 .. m + n : q4[k] = q[k + 4]
    BY <1>13, <2>1, <2>2
  <2>4. q3[1] = d
    BY <1>8, <1>13, <2>1
  <2> QED
    BY <2>2, <2>3, <2>4
<1>15. q4 \in Seq(S)
  <2>1. \A k \in 1 .. m + n : k + 4 \in 5 .. 4 + m + n
    OBVIOUS
  <2>2. \A k \in 1 .. Len(q4) : q4[k] \in S
    BY <1>9, <1>14, <2>1
  <2> QED
    BY <1>14, <2>2, SequenceWithin
<1> QED
  BY <1>0, <1>7, <1>10, <1>11, <1>12, <1>13, <1>14, <1>15
     DEF After1, After2, After3, FirstCalls, T, S

-----------------------------------------------------------------------------
(* What the rest of the initialisation does once it has started over after   *)
(* the loop: it sets every field that the table does not leave as configured.*)
LEMMA LoopsLeft ==
  ASSUME NEW c \in Channels
  PROVE  /\ \A j \in 1 .. 5 : SetupCalls(c)[j] \in Left(SetupLoop)
         /\ \A j \in 1 .. 3 : ChannelCalls(c)[j] \in Left(InputLoop)
<1>1. ASSUME NEW j \in 1 .. 5 PROVE SetupCalls(c)[j] \in Left(SetupLoop)
  <2>1. PICK k \in 1 .. 5 * NumChannels : (k - 1) \div 5 = c /\ ((k - 1) % 5) + 1 = j
    <3>1. /\ 5 * c + j \in 1 .. 5 * NumChannels
          /\ ((5 * c + j) - 1) \div 5 = c /\ (((5 * c + j) - 1) % 5) + 1 = j
      BY NumChannelsAssumption DEF Channels
    <3> QED
      BY <3>1
  <2> QED
    BY <2>1 DEF Left, SetupLoop
<1>2. ASSUME NEW j \in 1 .. 3 PROVE ChannelCalls(c)[j] \in Left(InputLoop)
  <2>1. PICK k \in 1 .. 3 * NumChannels : (k - 1) \div 3 = c /\ ((k - 1) % 3) + 1 = j
    <3>1. /\ 3 * c + j \in 1 .. 3 * NumChannels
          /\ ((3 * c + j) - 1) \div 3 = c /\ (((3 * c + j) - 1) % 3) + 1 = j
      BY NumChannelsAssumption DEF Channels
    <3> QED
      BY <3>1
  <2> QED
    BY <2>1 DEF Left, InputLoop
<1> QED
  BY <1>1, <1>2

LEMMA AfterLoopLeft ==
  Left(SetupLoop) \cup Left(InputLoop)
    \cup {SetAdcMode("CONTINUOUS"), Patch(Ifmode, [DATA_STAT |-> 1], "return")}
      \subseteq Left(AfterLoop)
<1> DEFINE mode == <<SetAdcMode("CONTINUOUS")>>  S == AfterLoopCalls
<1>1. /\ AfterLoop = <<ReadId>> \o SetupLoop \o mode \o InputLoop \o LastCalls
      /\ <<ReadId>> \in Seq(S) /\ SetupLoop \in Seq(S) /\ mode \in Seq(S)
      /\ InputLoop \in Seq(S) /\ LastCalls \in Seq(S)
  BY AfterLoopParts
<1>2. SetAdcMode("CONTINUOUS") \in Left(mode)
  BY DEF Left
<1>3. Patch(Ifmode, [DATA_STAT |-> 1], "return") \in Left(LastCalls)
  <2>1. 2 \in DOMAIN LastCalls /\ LastCalls[2] = Patch(Ifmode, [DATA_STAT |-> 1], "return")
    BY DEF LastCalls
  <2> QED
    BY <2>1 DEF Left
<1> HIDE DEF mode, S
<1>4. PICK s1, s2, s3 : /\ s1 = <<ReadId>> \o SetupLoop /\ s2 = s1 \o mode
                        /\ s3 = s2 \o InputLoop /\ AfterLoop = s3 \o LastCalls
  BY <1>1
<1>5. s1 \in Seq(S) /\ Left(SetupLoop) \subseteq Left(s1)
  BY <1>1, <1>4, LeftConcat, ConcatProperties, Zenon
<1>6. s2 \in Seq(S) /\ Left(s1) \subseteq Left(s2) /\ Left(mode) \subseteq Left(s2)
  BY <1>1, <1>4, <1>5, LeftConcat, ConcatProperties, Zenon
<1>7. s3 \in Seq(S) /\ Left(s2) \subseteq Left(s3) /\ Left(InputLoop) \subseteq Left(s3)
  BY <1>1, <1>4, <1>6, LeftConcat, ConcatProperties, Zenon
<1>8. Left(s3) \subseteq Left(AfterLoop) /\ Left(LastCalls) \subseteq Left(AfterLoop)
  BY <1>1, <1>4, <1>7, LeftConcat, Zenon
<1> QED
  BY <1>2, <1>3, <1>5, <1>6, <1>7, <1>8

LEMMA OwesBy ==
  ASSUME NEW s, NEW call \in Left(s), NEW r, NEW fields,
         Required(call), call.reg = r, fields \subseteq DOMAIN call.set
  PROVE  OwesWrite(s, r) /\ \A f \in fields : OwesField(s, r, f)
  BY DEF OwesWrite, OwesField

LEMMA AfterLoopOwes ==
  ASSUME NEW r \in Registers \ {Gpiocon}
  PROVE  /\ OwesWrite(AfterLoop, r)
         /\ \A f \in FieldsOf(r) \ Fixed : OwesField(AfterLoop, r, f)
<1>1. ASSUME NEW c \in Channels
      PROVE  /\ SetPolarity(c) \in Left(AfterLoop) /\ SetReferenceSource(c) \in Left(AfterLoop)
             /\ EnableReference \in Left(AfterLoop) /\ EnableBuffers(c) \in Left(AfterLoop)
             /\ ConfigureDeviceOdr(c, sps_10) \in Left(AfterLoop)
             /\ ConnectAnalogInput(c) \in Left(AfterLoop) /\ AssignSetup(c) \in Left(AfterLoop)
             /\ SetChannelStatus(c, 1) \in Left(AfterLoop)
  <2>1. \A j \in 1 .. 5 : SetupCalls(c)[j] \in Left(AfterLoop)
    BY LoopsLeft, AfterLoopLeft
  <2>2. \A j \in 1 .. 3 : ChannelCalls(c)[j] \in Left(AfterLoop)
    BY LoopsLeft, AfterLoopLeft
  <2>3. /\ SetupCalls(c)[1] = SetPolarity(c) /\ SetupCalls(c)[2] = SetReferenceSource(c)
        /\ SetupCalls(c)[3] = EnableReference /\ SetupCalls(c)[4] = EnableBuffers(c)
        /\ SetupCalls(c)[5] = ConfigureDeviceOdr(c, sps_10)
    BY DEF SetupCalls
  <2>4. /\ ChannelCalls(c)[1] = ConnectAnalogInput(c) /\ ChannelCalls(c)[2] = AssignSetup(c)
        /\ ChannelCalls(c)[3] = SetChannelStatus(c, 1)
    BY DEF ChannelCalls
  <2> QED
    BY <2>1, <2>2, <2>3, <2>4
<1>2. CASE r = Ifmode
  <2>1. Patch(Ifmode, [DATA_STAT |-> 1], "return") \in Left(AfterLoop)
    BY AfterLoopLeft
  <2> QED
    BY <1>2, <2>1, FieldsOfRegisters DEF OwesWrite, OwesField, Required, Patch, Call, Fixed
<1>3. CASE r = Adcmode
  <2>1. SetAdcMode("CONTINUOUS") \in Left(AfterLoop)
    BY AfterLoopLeft
  <2>2. EnableReference \in Left(AfterLoop)
    BY <1>1, NumChannelsAssumption DEF Channels
  <2> QED
    BY <1>3, <2>1, <2>2, FieldsOfRegisters
       DEF OwesWrite, OwesField, Required, EnableReference, SetAdcMode, Setter, Call
<1>4. ASSUME NEW c \in Channels, r = Chmap(c)
      PROVE  /\ OwesWrite(AfterLoop, r)
             /\ \A f \in FieldsOf(r) \ Fixed : OwesField(AfterLoop, r, f)
  <2>1. OwesWrite(AfterLoop, r) /\ \A f \in {"CH_EN"} : OwesField(AfterLoop, r, f)
    <3>1. /\ Required(SetChannelStatus(c, 1)) /\ SetChannelStatus(c, 1).reg = r
          /\ {"CH_EN"} \subseteq DOMAIN SetChannelStatus(c, 1).set
      BY <1>4 DEF Required, SetChannelStatus, Setter, Call
    <3> QED
      BY <1>1, <3>1, OwesBy, Zenon
  <2>2. \A f \in {"SETUP_SEL"} : OwesField(AfterLoop, r, f)
    <3>1. /\ Required(AssignSetup(c)) /\ AssignSetup(c).reg = r
          /\ {"SETUP_SEL"} \subseteq DOMAIN AssignSetup(c).set
      BY <1>4 DEF Required, AssignSetup, Setter, Call
    <3> QED
      BY <1>1, <3>1, OwesBy, Zenon
  <2>3. \A f \in {"AINPOS", "AINNEG"} : OwesField(AfterLoop, r, f)
    <3>1. /\ Required(ConnectAnalogInput(c)) /\ ConnectAnalogInput(c).reg = r
          /\ {"AINPOS", "AINNEG"} \subseteq DOMAIN ConnectAnalogInput(c).set
      BY <1>4 DEF Required, ConnectAnalogInput, Setter, Call, InputsOf
    <3> QED
      BY <1>1, <3>1, OwesBy, Zenon
  <2> QED
    BY <1>4, <2>1, <2>2, <2>3, FieldsOfRegisters
<1>5. ASSUME NEW c \in Channels, r = Setupcon(c)
      PROVE  /\ OwesWrite(AfterLoop, r)
             /\ \A f \in FieldsOf(r) \ Fixed : OwesField(AfterLoop, r, f)
  <2>1. OwesWrite(AfterLoop, r) /\ \A f \in {"BI_UNIPOLAR"} : OwesField(AfterLoop, r, f)
    <3>1. /\ Required(SetPolarity(c)) /\ SetPolarity(c).reg = r
          /\ {"BI_UNIPOLAR"} \subseteq DOMAIN SetPolarity(c).set
      BY <1>5 DEF Required, SetPolarity, Setter, Call
    <3> QED
      BY <1>1, <3>1, OwesBy, Zenon
  <2>2. \A f \in {"REF_SEL"} : OwesField(AfterLoop, r, f)
    <3>1. /\ Required(SetReferenceSource(c)) /\ SetReferenceSource(c).reg = r
          /\ {"REF_SEL"} \subseteq DOMAIN SetReferenceSource(c).set
      BY <1>5 DEF Required, SetReferenceSource, Setter, Call
    <3> QED
      BY <1>1, <3>1, OwesBy, Zenon
  <2>3. \A f \in {"AINBUF", "REFBUF"} : OwesField(AfterLoop, r, f)
    <3>1. /\ Required(EnableBuffers(c)) /\ EnableBuffers(c).reg = r
          /\ {"AINBUF", "REFBUF"} \subseteq DOMAIN EnableBuffers(c).set
      BY <1>5 DEF Required, EnableBuffers, Setter, Call
    <3> QED
      BY <1>1, <3>1, OwesBy, Zenon
  <2> QED
    BY <1>5, <2>1, <2>2, <2>3, FieldsOfRegisters
<1>6. ASSUME NEW c \in Channels, r = Filtcon(c)
      PROVE  /\ OwesWrite(AfterLoop, r)
             /\ \A f \in FieldsOf(r) \ Fixed : OwesField(AfterLoop, r, f)
  <2>1. OwesWrite(AfterLoop, r) /\ \A f \in {"ODR"} : OwesField(AfterLoop, r, f)
    <3>1. /\ Required(ConfigureDeviceOdr(c, sps_10)) /\ ConfigureDeviceOdr(c, sps_10).reg = r
          /\ {"ODR"} \subseteq DOMAIN ConfigureDeviceOdr(c, sps_10).set
      BY <1>6 DEF Required, ConfigureDeviceOdr, Setter, Call
    <3> QED
      BY <1>1, <3>1, OwesBy, Zenon
  <2> QED
    BY <1>6, <2>1, FieldsOfRegisters DEF Fixed
<1> QED
  BY <1>2, <1>3, <1>4, <1>5, <1>6 DEF Registers

(* Before the loop as well: the rest of the script ends with what follows it.*)
LEMMA InitOwes ==
  ASSUME NEW r \in Registers \ {Gpiocon}
  PROVE  /\ OwesWrite(InitCalls, r)
         /\ \A f \in FieldsOf(r) \ Fixed : OwesField(InitCalls, r, f)
<1> DEFINE T == Ordinary \cup {Reset}
           first == <<Reset, WriteTable(Adcmode), WriteTable(Ifmode), UpdateCRC>>
<1>1. first \in Seq(T) /\ TableLoop \in Seq(T) /\ AfterLoop \in Seq(T)
  BY TableBoot, AfterLoopBoot DEF BootCalls, Ordinary
<1>2. InitCalls = (first \o TableLoop) \o AfterLoop
  BY DEF InitCalls
<1> HIDE DEF first, T
<1>3. PICK s : s = first \o TableLoop
  OBVIOUS
<1>4. s \in Seq(T)
  BY <1>1, <1>3, ConcatProperties, Zenon
<1>5. Left(AfterLoop) \subseteq Left(InitCalls)
  BY <1>1, <1>2, <1>3, <1>4, LeftConcat, Zenon
<1> QED
  BY <1>5, AfterLoopOwes DEF OwesWrite, OwesField

-----------------------------------------------------------------------------
(* What the table sets and nothing sets again is as configured.              *)
LEMMA TableIsStart ==
  ASSUME NEW r \in Registers
  PROVE  /\ FieldsOf(r) = DOMAIN Table(r)
         /\ \A f \in FieldsOf(r) \cap Fixed : Table(r)[f] = Configured(r)[f]
<1>1. CASE r = Adcmode
  <2>1. Table(r) = [REF_EN |-> 0, MODE |-> 0]
    BY <1>1 DEF Table, Adcmode, Ifmode, Gpiocon
  <2> QED
    BY <1>1, <2>1, FieldsOfRegisters DEF Fixed
<1>2. CASE r = Ifmode
  <2>1. Table(r) = [DOUT_RESET |-> 1, DATA_STAT |-> 0, CRC |-> 2]
    BY <1>2 DEF Table, Adcmode, Ifmode, Gpiocon
  <2> QED
    BY <1>2, <2>1, FieldsOfRegisters, ConfiguredFields DEF Fixed
<1>3. CASE r = Gpiocon
  <2>1. Table(r) = <<>>
    BY <1>3 DEF Table, Adcmode, Ifmode, Gpiocon
  <2> QED
    BY <1>3, <2>1, FieldsOfRegisters, NoFields
<1>4. ASSUME NEW c \in Channels, r = Chmap(c)
      PROVE  /\ FieldsOf(r) = DOMAIN Table(r)
             /\ \A f \in FieldsOf(r) \cap Fixed : Table(r)[f] = Configured(r)[f]
  BY <1>4, FieldsOfRegisters DEF Table, Chmap, Adcmode, Ifmode, Gpiocon, Fixed
<1>5. ASSUME NEW c \in Channels, r = Setupcon(c)
      PROVE  /\ FieldsOf(r) = DOMAIN Table(r)
             /\ \A f \in FieldsOf(r) \cap Fixed : Table(r)[f] = Configured(r)[f]
  BY <1>5, FieldsOfRegisters DEF Table, Setupcon, Adcmode, Ifmode, Gpiocon, Fixed
<1>6. ASSUME NEW c \in Channels, r = Filtcon(c)
      PROVE  /\ FieldsOf(r) = DOMAIN Table(r)
             /\ \A f \in FieldsOf(r) \cap Fixed : Table(r)[f] = Configured(r)[f]
  <2>1. Table(r)["ENHFILT"] = 2 /\ DOMAIN Table(r) = {"ENHFILT", "ODR"}
    BY <1>6 DEF Table, Filtcon, Adcmode, Ifmode, Gpiocon
  <2> QED
    BY <1>6, <2>1, FieldsOfRegisters, ConfiguredFields DEF Fixed
<1> QED
  BY <1>1, <1>2, <1>3, <1>4, <1>5, <1>6 DEF Registers

(* The driver reads its checksum mode in the first calls and never again.    *)
LEMMA FirstLeft ==
  ASSUME NEW q \in FirstCalls
  PROVE  UpdateCRC \in Left(q)
<1>1. UpdateCRC \in Left(After3)
  BY InitScript, LeftTail DEF FirstCalls
<1>2. UpdateCRC \in Left(After2)
  BY <1>1, InitScript, LeftTail DEF FirstCalls, After3
<1>3. UpdateCRC \in Left(After1)
  BY <1>2, InitScript, LeftTail DEF FirstCalls, After2
<1>4. UpdateCRC \in Left(InitCalls)
  BY <1>3, InitScript, LeftTail DEF FirstCalls, After1
<1> QED
  BY <1>1, <1>2, <1>3, <1>4 DEF FirstCalls

LEMMA CrcIsFirst ==
  ASSUME NEW s \in Seq(BootCalls) \cup Seq(ServiceCalls)
  PROVE  UpdateCRC \notin Left(s)
<1>1. UpdateCRC \notin BootCalls \cup ServiceCalls
  BY DEF BootCalls, ServiceCalls, BootCall, ServiceCall, UpdateCRC, Call
<1>2. \A k \in DOMAIN s : s[k] \in BootCalls \cup ServiceCalls
  OBVIOUS
<1> QED
  BY <1>1, <1>2 DEF Left

LEMMA After3Alone ==
  /\ InitCalls # After3 /\ After1 # After3 /\ After2 # After3 /\ AfterLoop # After3
  /\ After3 # <<>> /\ After3 \notin Seq(BootCalls)
<1>1. /\ Head(InitCalls).op = "reset" /\ Head(After1).op = "write"
      /\ Head(After2).op = "write" /\ Head(After3).op = "crc"
  BY InitScript DEF Reset, WriteTable, UpdateCRC, Call
<1>2. After3 \notin Seq(BootCalls)
  BY FirstLeft, CrcIsFirst DEF FirstCalls
<1> QED
  BY <1>1, <1>2, AfterLoopBoot, InitScript

LEMMA InitBoot == Init => BootInv
<1> SUFFICES ASSUME Init PROVE BootInv
  OBVIOUS
<1>1. Inv
  BY InitInv
<1>2. Stage
  BY DEF Init, Stage, FirstCalls
<1>3. \A r \in Registers : DOMAIN device[r] = {}
  BY NoFields DEF Init
<1>4. Agree
  BY <1>3, RegistersOf DEF Agree
<1>5. StructureIsCurrent
  BY <1>3 DEF StructureIsCurrent, Holds
<1>6. Framed
  <2>1. "CRC" \in DOMAIN asked[Ifmode] /\ asked[Ifmode]["CRC"] = 2
    BY RegistersOf, TableIsStart, FieldsOfRegisters, ConfiguredFields DEF Init, Fixed
  <2>2. todo # After3 /\ UpdateCRC \in Left(todo)
    BY After3Alone, FirstLeft DEF Init, FirstCalls
  <2> QED
    BY <2>1, <2>2 DEF Framed, Settled
<1>7. Owed
  BY TableIsStart, InitOwes DEF Init, Owed, Configuring
<1> QED
  BY <1>1, <1>2, <1>4, <1>5, <1>6, <1>7 DEF BootInv

-----------------------------------------------------------------------------
(* The next call, and what is left after it.                                 *)
LEMMA NextOfInit ==
  ASSUME Stage, phase = "init", todo # <<>>
  PROVE  \/ todo = InitCalls /\ Head(todo) = Reset /\ Tail(todo) \in FirstCalls \ {After3}
         \/ todo = After1 /\ Head(todo) = WriteTable(Adcmode) /\ Tail(todo) = After2
         \/ todo = After2 /\ Head(todo) = WriteTable(Ifmode) /\ Tail(todo) = After3
         \/ todo = After3 /\ Head(todo) = UpdateCRC /\ Tail(todo) \in Seq(BootCalls)
         \/ todo \in Seq(BootCalls) /\ Head(todo) \in BootCalls /\ Tail(todo) \in Seq(BootCalls)
<1>1. CASE todo = InitCalls
  BY <1>1, InitScript, After3Alone DEF FirstCalls, After1
<1>2. CASE todo = After1
  BY <1>2, InitScript DEF After2
<1>3. CASE todo = After2
  BY <1>3, InitScript DEF After3
<1>4. CASE todo = After3
  BY <1>4, InitScript
<1>5. CASE todo \in Seq(BootCalls)
  BY <1>5
<1> QED
  BY <1>1, <1>2, <1>3, <1>4, <1>5 DEF Stage, FirstCalls

LEMMA NextOfService ==
  ASSUME Stage, phase # "init", todo # <<>>, Inv
  PROVE  /\ phase = "service" /\ Head(todo) \in ServiceCalls
         /\ todo \in Seq(ServiceCalls) /\ Tail(todo) \in Seq(ServiceCalls)
  BY DEF Stage, Inv, TypeOK

LEMMA NextWrite ==
  ASSUME Stage, Inv, todo # <<>>, Head(todo).op = "write"
  PROVE  \/ phase = "init" /\ Head(todo) \in BootCalls
         \/ phase = "service" /\ Head(todo) \in ServiceCalls
<1>1. Reset.op = "reset" /\ UpdateCRC.op = "crc"
  BY DEF Reset, UpdateCRC, Call
<1> QED
  BY <1>1, NextOfInit, NextOfService, TableBoot

LEMMA ProceedStage ==
  ASSUME Inv, Stage, todo # <<>>, Proceed
  PROVE  /\ Stage'
         /\ phase' = phase \/ (phase = "init" /\ phase' = "service" /\ todo' = <<>>)
<1>1. todo' = Tail(todo)
  BY DEF Proceed
<1>2. CASE phase = "init" /\ Len(todo) = 1
  <2>1. todo \in Seq(Ordinary \cup {Reset})
    BY <1>2, InitScript DEF Stage, BootCalls
  <2>2. Tail(todo) = <<>>
    <3>1. Tail(todo) \in Seq(Ordinary \cup {Reset}) /\ Len(Tail(todo)) = 0
      BY <1>2, <2>1, HeadTailProperties
    <3> QED
      BY <3>1, EmptySeq
  <2> QED
    BY <1>1, <1>2, <2>2, EmptySeq DEF Proceed, Stage
<1>3. CASE phase = "init" /\ Len(todo) # 1
  BY <1>1, <1>3, NextOfInit DEF Proceed, Stage, FirstCalls
<1>4. CASE phase # "init"
  BY <1>1, <1>4, NextOfService DEF Proceed, Stage
<1> QED
  BY <1>2, <1>3, <1>4

(* A loop is broken off while the start values are written, never before.    *)
LEMMA BreakStage ==
  ASSUME Inv, Stage, todo # <<>>, Head(todo).onError = "break"
  PROVE  phase = "init" /\ todo \in Seq(BootCalls)
<1>1. /\ Reset.onError = "return" /\ WriteTable(Adcmode).onError = "return"
      /\ WriteTable(Ifmode).onError = "return" /\ UpdateCRC.onError = "return"
  BY DEF Reset, WriteTable, UpdateCRC, Call
<1> QED
  BY <1>1, NextOfInit, NextOfService DEF ServiceCalls, ServiceCall

LEMMA GiveUpStage ==
  ASSUME Inv, Stage, todo # <<>>, NEW e, GiveUp(e), e = "return" \/ e = Head(todo).onError
  PROVE  /\ Stage'
         /\ \/ phase' = "error" /\ e = "return" /\ phase = "init"
            \/ phase' = "service" /\ e = "return" /\ phase = "service"
            \/ phase' = "init" /\ e = "break" /\ phase = "init" /\ todo \in Seq(BootCalls)
                 /\ todo' = AfterLoop
            \/ e = "ignore" /\ Proceed
<1>1. Stage'
  <2>1. CASE e = "return" /\ todo' = <<>> /\ phase' = IF phase = "init" THEN "error" ELSE phase
    <3>1. phase' \in {"error", "service"}
      BY <2>1, NextOfService
    <3> QED
      BY <2>1, <3>1, EmptySeq DEF Stage
  <2>2. CASE e = "break" /\ todo' = AfterLoop /\ UNCHANGED phase
    BY <2>2, BreakStage, AfterLoopBoot DEF Stage
  <2> QED
    BY <2>1, <2>2, ProceedStage DEF GiveUp
<1>2. \/ phase' = "error" /\ e = "return" /\ phase = "init"
      \/ phase' = "service" /\ e = "return" /\ phase = "service"
      \/ phase' = "init" /\ e = "break" /\ phase = "init" /\ todo \in Seq(BootCalls)
           /\ todo' = AfterLoop
      \/ e = "ignore" /\ Proceed
  BY BreakStage, NextOfService DEF GiveUp
<1> QED
  BY <1>1, <1>2

-----------------------------------------------------------------------------
(* What a write does to the copies of its register, and to those of others.  *)
Taken(w, set) ==
  /\ DOMAIN asked'[w] = DOMAIN asked[w] \cup DOMAIN set
  /\ \A f \in DOMAIN set : asked'[w][f] = set[f]
  /\ \A f \in DOMAIN asked[w] \ DOMAIN set : asked'[w][f] = asked[w][f]

Mirrored(w, set) ==
  /\ DOMAIN device'[w] = DOMAIN device[w] \cup DOMAIN set
  /\ \A f \in DOMAIN set : device'[w][f] = set[f]
  /\ \A f \in DOMAIN device[w] \ DOMAIN set : device'[w][f] = device[w][f]

LEMMA WriteEffect ==
  ASSUME Inv, todo # <<>>, WriteRegister, NEW call, NEW w, call = Head(todo), w = call.reg
  PROVE  /\ w \in Registers /\ DOMAIN call.set \subseteq FieldsOf(w)
         /\ Taken(w, call.set)
         /\ \A r \in Registers \ {w} : /\ asked'[r] = asked[r] /\ device'[r] = device[r]
                                       /\ chip'[r] = chip[r] /\ cache'[r] = cache[r]
         /\ IF GiveUp(call.onError) /\ UNCHANGED <<chip, device, lost>>
              THEN TRUE
              ELSE /\ Proceed
                   /\ IF call.mirrored THEN Mirrored(w, call.set) ELSE device' = device
                   /\ \/ chip'[w] = cache'[w] /\ lost' = lost
                      \/ chip' = chip /\ lost' > 0
<1>1. w \in Registers /\ DOMAIN call.set \subseteq FieldsOf(w)
  BY HeadCall, OrdinaryCall DEF WriteRegister
<1>2. /\ DOMAIN device = Registers /\ DOMAIN asked = Registers
      /\ DOMAIN cache = Registers /\ DOMAIN chip = Registers /\ lost \in Nat
  BY DEF Inv, TypeOK, CopiesOK
<1> DEFINE value == Assign(cache[w], call.set)
           mirror == IF call.mirrored
                       THEN [device EXCEPT ![w] = Updated(device[w], call.set)] ELSE device
<1>3. /\ cache' = [cache EXCEPT ![w] = value]
      /\ asked' = [asked EXCEPT ![w] = Updated(asked[w], call.set)]
      /\ \/ chip' = [chip EXCEPT ![w] = value] /\ device' = mirror /\ Proceed /\ lost' = lost
         \/ lost' = lost + 1 /\ device' = mirror /\ Proceed /\ chip' = chip
         \/ GiveUp(call.onError) /\ UNCHANGED <<chip, device, lost>>
  BY DEF WriteRegister
<1> HIDE DEF value
<1>4. Taken(w, call.set)
  BY <1>1, <1>2, <1>3 DEF Updated, Taken
<1>5. ASSUME device' = mirror
      PROVE  /\ IF call.mirrored THEN Mirrored(w, call.set) ELSE device' = device
             /\ \A r \in Registers \ {w} : device'[r] = device[r]
  BY <1>1, <1>2, <1>5 DEF Updated, Mirrored
<1> HIDE DEF mirror
<1>6. \A r \in Registers \ {w} : /\ asked'[r] = asked[r] /\ device'[r] = device[r]
                                  /\ chip'[r] = chip[r] /\ cache'[r] = cache[r]
  BY <1>1, <1>2, <1>3, <1>5
<1> QED
  BY <1>1, <1>2, <1>3, <1>4, <1>5, <1>6

(* The structure after a write the driver knows of: in each field of the     *)
(* register what was last asked for, but for the mode.                       *)
LEMMA DeviceFollows ==
  ASSUME Inv, Stage, Agree, todo # <<>>, WriteRegister, NEW call, NEW w,
         call = Head(todo), w = call.reg,
         IF call.mirrored THEN Mirrored(w, call.set) ELSE device' = device,
         NEW f \in DOMAIN device'[w], phase = "init" \/ f # "MODE"
  PROVE  device'[w][f] = asked'[w][f]
<1>1. /\ w \in Registers /\ DOMAIN call.set \subseteq FieldsOf(w) /\ Taken(w, call.set)
  BY WriteEffect
<1>2. DOMAIN device[w] \subseteq DOMAIN asked[w] /\ DOMAIN asked[w] \subseteq FieldsOf(w)
  BY <1>1 DEF Inv, TypeOK, CopiesOK
<1>3. call.op = "write"
  BY DEF WriteRegister
<1>4. CASE f \in DOMAIN call.set
  <2>1. CASE call.mirrored
    BY <1>1, <1>4, <2>1 DEF Mirrored, Taken
  <2>2. CASE phase = "init" /\ ~call.mirrored
    <3>1. w = Ifmode
      BY <1>3, <1>4, <2>2, NextWrite DEF BootCalls, BootCall
    <3> QED
      BY <2>2, <3>1 DEF Agree
  <2>3. CASE phase = "service" /\ ~call.mirrored
    <3>1. w = Adcmode /\ DOMAIN call.set = Volatile \cap FieldsOf(w)
      BY <1>3, <2>3, NextWrite DEF ServiceCalls, ServiceCall
    <3>2. f = "MODE"
      BY <1>4, <3>1, FieldsOfRegisters DEF Volatile
    <3> QED
      BY <2>3, <3>2
  <2> QED
    BY <1>3, <2>1, <2>2, <2>3, NextWrite
<1>5. CASE f \notin DOMAIN call.set
  <2>1. f \in DOMAIN device[w] /\ device'[w][f] = device[w][f]
    BY <1>5 DEF Mirrored
  <2>2. phase = "init" \/ (phase = "service" /\ f \notin Volatile)
    <3>1. CASE phase = "service"
      <4>1. DOMAIN call.set = Volatile \cap FieldsOf(w)
        BY <1>3, <3>1, NextWrite DEF ServiceCalls, ServiceCall
      <4> QED
        BY <1>2, <1>5, <2>1, <3>1, <4>1
    <3> QED
      BY <1>3, <3>1, NextWrite
  <2>3. device[w][f] = asked[w][f]
    BY <1>1, <2>1, <2>2 DEF Agree, Running
  <2> QED
    BY <1>1, <1>2, <1>5, <2>1, <2>3 DEF Taken
<1> QED
  BY <1>4, <1>5

LEMMA WriteAgrees ==
  ASSUME Inv, Stage, Agree, todo # <<>>, WriteRegister
  PROVE  Agree'
<1> PICK call, w : call = Head(todo) /\ w = call.reg
  OBVIOUS
<1>1. /\ w \in Registers /\ DOMAIN call.set \subseteq FieldsOf(w) /\ Taken(w, call.set)
      /\ \A r \in Registers \ {w} : asked'[r] = asked[r] /\ device'[r] = device[r]
  BY WriteEffect
<1>2. \/ GiveUp(call.onError) /\ UNCHANGED <<chip, device, lost>>
      \/ Proceed /\ IF call.mirrored THEN Mirrored(w, call.set) ELSE device' = device
  BY WriteEffect
<1>3. call.op = "write" /\ (\/ phase = "init" /\ call \in BootCalls
                            \/ phase = "service" /\ call \in ServiceCalls)
  BY NextWrite DEF WriteRegister
<1>4. DOMAIN device'[Ifmode] = {}
  <2>1. CASE w # Ifmode
    BY <1>1, <2>1, RegistersOf DEF Agree
  <2>2. CASE w = Ifmode
    <3>1. ~call.mirrored
      BY <1>3, <2>2 DEF BootCalls, BootCall, ServiceCalls, ServiceCall
    <3> QED
      BY <1>2, <3>1 DEF Agree
  <2> QED
    BY <2>1, <2>2
<1>5. phase' = "init" => phase = "init"
  BY <1>2, ProceedStage, GiveUpStage
<1>6. ASSUME Running', NEW r \in Registers, NEW f \in DOMAIN device'[r],
             phase' = "init" \/ f \notin Volatile
      PROVE  device'[r][f] = asked'[r][f]
  <2>1. CASE r # w
    BY <1>1, <1>3, <1>5, <1>6, <2>1 DEF Agree, Running
  <2>2. CASE r = w /\ Proceed /\ IF call.mirrored THEN Mirrored(w, call.set) ELSE device' = device
    BY <1>5, <1>6, <2>2, DeviceFollows DEF Volatile
  <2>3. CASE r = w /\ GiveUp(call.onError) /\ UNCHANGED <<chip, device, lost>>
    <3>1. CASE f \notin DOMAIN call.set
      <4>1. device[r][f] = asked[r][f]
        BY <1>1, <1>3, <1>5, <1>6, <2>3 DEF Agree, Running
      <4>2. f \in DOMAIN asked[r]
        BY <1>1, <1>6, <2>3 DEF Inv, TypeOK
      <4> QED
        BY <1>1, <2>3, <3>1, <4>1, <4>2 DEF Taken
    <3>2. CASE f \in DOMAIN call.set /\ phase = "service"
      <4>1. f \in Volatile
        BY <1>3, <3>2 DEF ServiceCalls, ServiceCall
      <4> QED
        BY <1>5, <1>6, <3>2, <4>1
    <3>3. CASE f \in DOMAIN call.set /\ phase = "init"
      <4>1. call.onError = "return"
        BY <1>3, <3>3 DEF BootCalls, BootCall
      <4> QED
        BY <1>6, <2>3, <3>3, <4>1, GiveUpStage DEF Running
    <3> QED
      BY <1>3, <3>1, <3>2, <3>3
  <2> QED
    BY <1>2, <2>1, <2>2, <2>3
<1> QED
  BY <1>4, <1>6 DEF Agree

LEMMA WriteIsCurrent ==
  ASSUME Inv, Stage, Agree, StructureIsCurrent, todo # <<>>, WriteRegister
  PROVE  StructureIsCurrent'
<1> PICK call, w : call = Head(todo) /\ w = call.reg
  OBVIOUS
<1> SUFFICES ASSUME lost' = 0, NEW r \in Registers, NEW f \in DOMAIN device'[r] \ {"MODE"}
             PROVE  chip'[r] \cap Mask[f] = Bits(f, device'[r][f])
  BY DEF StructureIsCurrent, Holds
<1>1. /\ w \in Registers
      /\ \A q \in Registers \ {w} : chip'[q] = chip[q] /\ device'[q] = device[q]
  BY WriteEffect
<1>2. \/ UNCHANGED <<chip, device, lost>>
      \/ /\ IF call.mirrored THEN Mirrored(w, call.set) ELSE device' = device
         /\ chip'[w] = cache'[w] /\ lost' = lost
  BY WriteEffect
<1>3. CASE r # w \/ UNCHANGED <<chip, device, lost>>
  <2>1. lost = 0 /\ chip'[r] = chip[r] /\ device'[r] = device[r]
    BY <1>1, <1>2, <1>3
  <2> QED
    BY <2>1 DEF StructureIsCurrent, Holds
<1>4. CASE r = w /\ chip'[w] = cache'[w]
             /\ IF call.mirrored THEN Mirrored(w, call.set) ELSE device' = device
  <2>1. Inv'
    BY WriteKeeps
  <2>2. f \in DOMAIN asked'[w] /\ Holds(cache'[w], asked'[w])
    BY <1>1, <1>4, <2>1 DEF Inv, TypeOK, CopiesOK
  <2>3. device'[w][f] = asked'[w][f]
    BY <1>4, DeviceFollows
  <2> QED
    BY <1>4, <2>2, <2>3 DEF Holds
<1> QED
  BY <1>2, <1>3, <1>4

-----------------------------------------------------------------------------
(* The frame.  Until the driver reads its checksum mode every step leads to  *)
(* the next of the first calls or to an error.                               *)
LEMMA SettledBefore ==
  ASSUME Inv, Stage, todo # <<>>, Head(todo).op # "crc", Running', UpdateCRC \notin Left(todo'),
         NEW e, Proceed \/ (GiveUp(e) /\ (e = "return" \/ e = Head(todo).onError))
  PROVE  Settled
<1>1. Running
  BY NextOfService DEF Running
<1>2. CASE todo \in FirstCalls /\ phase = "init"
  <2>1. todo # After3
    BY InitScript DEF UpdateCRC, Call
  <2>2. todo \notin Seq(BootCalls)
    BY <1>2, FirstLeft, CrcIsFirst
  <2>3. Tail(todo) \in FirstCalls
    BY <1>2, <2>1, <2>2, NextOfInit DEF FirstCalls
  <2>4. ~Proceed
    BY <2>3, FirstLeft DEF Proceed
  <2> QED
    BY <1>2, <2>2, <2>4, GiveUpStage DEF Running
<1>3. CASE todo \in Seq(BootCalls) \cup Seq(ServiceCalls)
  BY <1>1, <1>3, CrcIsFirst DEF Settled
<1> QED
  BY <1>1, <1>2, <1>3 DEF Stage, Running

LEMMA After3Follows ==
  ASSUME Inv, Stage, todo # <<>>, todo' = After3, phase' = "init",
         NEW e, Proceed \/ (GiveUp(e) /\ (e = "return" \/ e = Head(todo).onError))
  PROVE  todo = After2 /\ phase = "init" /\ Head(todo) = WriteTable(Ifmode)
<1>1. phase = "init" /\ (Proceed \/ todo' = AfterLoop)
  BY ProceedStage, GiveUpStage
<1>2. Tail(todo) = After3
  BY <1>1, After3Alone DEF Proceed
<1> QED
  BY <1>1, <1>2, NextOfInit, After3Alone

LEMMA WriteFrames ==
  ASSUME Inv, Stage, Framed, todo # <<>>, WriteRegister
  PROVE  Framed'
<1> PICK call, w : call = Head(todo) /\ w = call.reg
  OBVIOUS
<1>1. /\ w \in Registers /\ DOMAIN call.set \subseteq FieldsOf(w) /\ Taken(w, call.set)
      /\ \A r \in Registers \ {w} : /\ asked'[r] = asked[r] /\ chip'[r] = chip[r]
                                    /\ cache'[r] = cache[r]
  BY WriteEffect
<1>2. \/ GiveUp(call.onError) /\ UNCHANGED <<chip, device, lost>>
      \/ Proceed /\ ((chip'[w] = cache'[w] /\ lost' = lost) \/ lost' > 0)
  BY WriteEffect
<1>3. call.op = "write" /\ (\/ phase = "init" /\ call \in BootCalls
                            \/ phase = "service" /\ call \in ServiceCalls)
  BY NextWrite DEF WriteRegister
<1>4. w = Ifmode => phase = "init" /\ call.onError = "return" /\ "CRC" \notin DOMAIN call.set
  BY <1>3 DEF BootCalls, BootCall, ServiceCalls, ServiceCall, Fixed
<1>5. "CRC" \in DOMAIN asked'[Ifmode] /\ asked'[Ifmode]["CRC"] = 2
  <2>1. "CRC" \in DOMAIN asked[Ifmode] /\ asked[Ifmode]["CRC"] = 2
    BY <1>3 DEF Framed, Running
  <2> QED
    BY <1>1, <1>4, <2>1, RegistersOf DEF Taken
<1>6. ASSUME lost' = 0, phase' = "init", todo' = After3
      PROVE  chip'[Ifmode] = cache'[Ifmode]
  <2>1. Head(todo) = WriteTable(Ifmode) /\ phase = "init"
    BY <1>2, <1>6, After3Follows
  <2>2. w = Ifmode
    BY <2>1 DEF WriteTable, Call
  <2>3. ~GiveUp(call.onError)
    BY <1>4, <1>6, <2>1, <2>2, GiveUpStage
  <2> QED
    BY <1>2, <1>6, <2>2, <2>3
<1>7. ASSUME lost' = 0, Settled'
      PROVE  chip'[Ifmode] = cache'[Ifmode] /\ useCRC' = "USE_CRC"
  <2>1. Settled
    BY <1>2, <1>3, <1>7, SettledBefore DEF Settled
  <2>2. lost = 0
    BY <1>2, <1>7
  <2>3. chip[Ifmode] = cache[Ifmode] /\ useCRC = "USE_CRC"
    BY <2>1, <2>2 DEF Framed
  <2>4. useCRC' = useCRC
    BY DEF WriteRegister
  <2>5. CASE w # Ifmode
    BY <1>1, <2>3, <2>4, <2>5, RegistersOf
  <2>6. CASE w = Ifmode
    <3>1. ~GiveUp(call.onError)
      BY <1>4, <1>7, <2>6, GiveUpStage DEF Settled, Running
    <3> QED
      BY <1>2, <1>7, <2>3, <2>4, <2>6, <3>1
  <2> QED
    BY <2>5, <2>6
<1> QED
  BY <1>5, <1>6, <1>7 DEF Framed

(* A checksum mode is not another one.                                       *)
LEMMA CrcBits == 2 \in Bits("CRC", 1) /\ 2 \notin Bits("CRC", 2)
<1>1. Place["CRC"][1] = 2 /\ Place["CRC"][2] = 2
  BY DEF Place
<1>2. (1 \div 2^0) % 2 = 1 /\ (2 \div 2^0) % 2 # 1
  OBVIOUS
<1>3. 0 \in 0 .. Place["CRC"][1] - 1
  BY <1>1
<1>4. 2 \in Bits("CRC", 1)
  <2>1. 0 \in {j \in 0 .. Place["CRC"][1] - 1 : (1 \div 2^j) % 2 = 1}
    BY <1>2, <1>3
  <2>2. Place["CRC"][2] + 0 = 2
    BY <1>1
  <2> QED
    BY <2>1, <2>2 DEF Bits
<1>5. ASSUME 2 \in Bits("CRC", 2) PROVE FALSE
  <2>1. PICK k \in 0 .. Place["CRC"][1] - 1 : (2 \div 2^k) % 2 = 1 /\ Place["CRC"][2] + k = 2
    BY <1>5 DEF Bits
  <2>2. k = 0
    BY <1>1, <2>1
  <2> QED
    BY <1>2, <2>1, <2>2
<1> QED
  BY <1>4, <1>5

(* The driver reads the checksum mode the table has put in the cache.        *)
LEMMA CrcFrames ==
  ASSUME Inv, Stage, Framed, todo # <<>>, UpdateCRCSetting
  PROVE  Framed'
<1>1. Head(todo).op = "crc" /\ Proceed /\ UNCHANGED <<copies, lost>>
  BY DEF UpdateCRCSetting
<1>2. phase = "init" /\ todo = After3 /\ Tail(todo) \in Seq(BootCalls)
  <2>1. /\ Reset.op # "crc" /\ WriteTable(Adcmode).op # "crc" /\ WriteTable(Ifmode).op # "crc"
        /\ \A call \in BootCalls \cup ServiceCalls : call.op # "crc"
    BY DEF Reset, WriteTable, Call, BootCalls, BootCall, ServiceCalls, ServiceCall
  <2> QED
    BY <1>1, <2>1, NextOfInit, NextOfService
<1>3. "CRC" \in DOMAIN asked[Ifmode] /\ asked[Ifmode]["CRC"] = 2
  BY <1>2 DEF Framed, Running
<1>4. lost = 0 => chip[Ifmode] = cache[Ifmode]
  BY <1>2 DEF Framed
<1>5. useCRC' = "USE_CRC"
  <2>1. cache[Ifmode] \cap Mask["CRC"] = Bits("CRC", 2)
    BY <1>3, RegistersOf DEF Inv, CopiesOK, Holds
  <2>2. Bits("CRC", 2) \subseteq cache[Ifmode]
    BY <2>1
  <2>3. 2 \notin cache[Ifmode]
    BY <2>1, CrcBits DEF Mask
  <2> QED
    BY <2>2, <2>3, CrcBits DEF UpdateCRCSetting
<1>6. todo' # After3
  BY <1>1, <1>2, After3Alone DEF Proceed
<1> QED
  BY <1>1, <1>3, <1>4, <1>5, <1>6 DEF Framed, copies

LEMMA ReadFrames ==
  ASSUME Inv, Stage, Framed, todo # <<>>, ReadRegister
  PROVE  Framed'
<1>1. /\ Head(todo).op \in {"read", "data"} /\ UNCHANGED <<copies, useCRC, lost>>
      /\ Proceed \/ GiveUp(Head(todo).onError)
  BY DEF ReadRegister
<1>2. Running
  BY NextOfService DEF Running
<1>3. ~(todo' = After3 /\ phase' = "init")
  BY <1>1, After3Follows DEF WriteTable, Call
<1>4. Settled' => Settled
  BY <1>1, SettledBefore DEF Settled
<1> QED
  BY <1>1, <1>2, <1>3, <1>4 DEF Framed, copies

LEMMA ResetFrames ==
  ASSUME Inv, Stage, Framed, todo # <<>>, ResetChip
  PROVE  Framed'
<1>1. /\ Head(todo).op = "reset" /\ UNCHANGED <<cache, device, asked, useCRC, lost>>
      /\ Proceed \/ GiveUp("return")
  BY DEF ResetChip
<1>2. Running
  BY NextOfService DEF Running
<1>3. ~(todo' = After3 /\ phase' = "init")
  BY <1>1, After3Follows DEF WriteTable, Call
<1>4. Settled' => Settled
  BY <1>1, SettledBefore DEF Settled
<1>5. chip'[Ifmode] = chip[Ifmode]
  BY ResetKeeps, RegistersOf
<1> QED
  BY <1>1, <1>2, <1>3, <1>4, <1>5 DEF Framed

-----------------------------------------------------------------------------
(* What is owed.  A call that has succeeded no longer owes: its register is  *)
(* in the chip as asked, and its fields are as configured.                   *)
Paid(r) == lost' > 0 \/ Holds(chip'[r], asked'[r])

LEMMA OwedGoesOn ==
  ASSUME Inv, Stage, Owed, phase = "init", todo # <<>>, Proceed,
         NEW r \in Registers \ {Gpiocon}, NEW call, call = Head(todo),
         \/ Paid(r)
         \/ UNCHANGED <<chip[r], asked[r], lost>> /\ ~(Required(call) /\ call.reg = r),
         \A f \in FieldsOf(r) :
           \/ asked'[r][f] = Configured(r)[f]
           \/ /\ asked'[r][f] = asked[r][f]
              /\ ~(Required(call) /\ call.reg = r /\ f \in DOMAIN call.set)
  PROVE  Configuring(r)'
<1>1. todo' = Tail(todo)
  BY DEF Proceed
<1>2. \A c \in Left(todo) : c = call \/ c \in Left(todo')
  <2>1. todo \in Seq(Ordinary \cup {Reset})
    BY InitScript DEF Stage, BootCalls
  <2> QED
    BY <1>1, <2>1, LeftTail
<1>3. Configuring(r)
  BY DEF Owed
<1>4. OwesWrite(todo', r) \/ lost' > 0 \/ Holds(chip'[r], asked'[r])
  BY <1>2, <1>3 DEF Configuring, OwesWrite, Paid
<1>5. \A f \in FieldsOf(r) : OwesField(todo', r, f) \/ asked'[r][f] = Configured(r)[f]
  BY <1>2, <1>3 DEF Configuring, OwesField
<1> QED
  BY <1>4, <1>5 DEF Configuring

LEMMA OwedAfterBreak ==
  ASSUME Inv, Owed, phase = "init", todo \in Seq(BootCalls), todo' = AfterLoop,
         NEW r \in Registers \ {Gpiocon},
         \A f \in FieldsOf(r) :
           asked'[r][f] = Configured(r)[f] \/ asked'[r][f] = asked[r][f]
  PROVE  Configuring(r)'
<1>1. Configuring(r)
  BY DEF Owed
<1>2. ASSUME NEW f \in FieldsOf(r) \cap Fixed
      PROVE  asked[r][f] = Configured(r)[f]
  <2>1. \A call \in Left(todo) : f \notin DOMAIN call.set
    BY <1>2 DEF Left, BootCalls, BootCall
  <2> QED
    BY <1>1, <1>2, <2>1 DEF Configuring, OwesField
<1> QED
  BY <1>2, AfterLoopOwes DEF Configuring

LEMMA WriteOwes ==
  ASSUME Inv, Stage, Owed, phase = "init", todo # <<>>, WriteRegister, phase' # "error",
         NEW r \in Registers \ {Gpiocon}
  PROVE  Configuring(r)'
<1> PICK call, w : call = Head(todo) /\ w = call.reg
  OBVIOUS
<1>1. /\ w \in Registers /\ Taken(w, call.set)
      /\ \A q \in Registers \ {w} : asked'[q] = asked[q] /\ chip'[q] = chip[q]
  BY WriteEffect
<1>2. \/ GiveUp(call.onError) /\ UNCHANGED <<chip, device, lost>>
      \/ Proceed /\ ((chip'[w] = cache'[w] /\ lost' = lost) \/ lost' > 0)
  BY WriteEffect
<1>3. call \in BootCalls /\ call.op = "write" /\ call.onError # "ignore"
  BY NextWrite DEF WriteRegister, BootCalls, BootCall
<1>4. \A f \in FieldsOf(r) :
        \/ asked'[r][f] = Configured(r)[f]
        \/ asked'[r][f] = asked[r][f] /\ ~(call.reg = r /\ f \in DOMAIN call.set)
  <2>1. CASE r # w
    BY <1>1, <2>1
  <2>2. CASE r = w
    <3>1. FieldsOf(r) \subseteq DOMAIN asked[r]
      BY DEF Owed
    <3>2. \A f \in DOMAIN call.set : call.set[f] = Configured(w)[f]
      BY <1>3 DEF BootCalls, BootCall
    <3> QED
      BY <1>1, <2>2, <3>1, <3>2 DEF Taken
  <2> QED
    BY <2>1, <2>2
<1>5. CASE Proceed /\ ((chip'[w] = cache'[w] /\ lost' = lost) \/ lost' > 0)
  <2>1. Paid(r) \/ (UNCHANGED <<chip[r], asked[r], lost>> /\ ~(call.reg = r))
    <3>1. CASE lost' > 0
      BY <3>1 DEF Paid
    <3>2. CASE chip'[w] = cache'[w] /\ lost' = lost /\ r = w
      <4>1. Inv'
        BY WriteKeeps
      <4> QED
        BY <1>1, <3>2, <4>1 DEF Inv, CopiesOK, Paid
    <3>3. CASE lost' = lost /\ r # w
      BY <1>1, <3>3
    <3> QED
      BY <1>5, <3>1, <3>2, <3>3
  <2> QED
    BY <1>4, <1>5, <2>1, OwedGoesOn
<1>6. CASE GiveUp(call.onError) /\ UNCHANGED <<chip, device, lost>>
  <2>1. todo \in Seq(BootCalls) /\ todo' = AfterLoop
    BY <1>3, <1>6, GiveUpStage
  <2> QED
    BY <1>4, <2>1, OwedAfterBreak
<1> QED
  BY <1>2, <1>5, <1>6

LEMMA OtherOwes ==
  ASSUME Inv, Stage, Owed, phase = "init", todo # <<>>, phase' # "error",
         ResetChip \/ UpdateCRCSetting \/ ReadRegister, NEW r \in Registers \ {Gpiocon}
  PROVE  Configuring(r)'
<1> PICK call : call = Head(todo)
  OBVIOUS
<1>1. /\ UNCHANGED <<asked, lost>> /\ chip'[r] = chip[r] /\ ~Required(call)
  BY ResetKeeps DEF ResetChip, UpdateCRCSetting, ReadRegister, copies, Required
<1>2. \/ Proceed
      \/ \E e \in {"return", "break", "ignore"} :
           GiveUp(e) /\ (e = "return" \/ e = call.onError)
  BY DEF ResetChip, UpdateCRCSetting, ReadRegister, GiveUp
<1>3. CASE Proceed
  BY <1>1, <1>3, OwedGoesOn
<1>4. CASE todo \in Seq(BootCalls) /\ todo' = AfterLoop
  BY <1>1, <1>4, OwedAfterBreak
<1> QED
  BY <1>2, <1>3, <1>4, GiveUpStage

-----------------------------------------------------------------------------
(* Every step.                                                               *)
Configures ==
  phase = "init" /\ phase' # "error" => \A r \in Registers \ {Gpiocon} : Configuring(r)'

LEMMA CallKeepsBoot ==
  ASSUME BootInv, DriverCall
  PROVE  BootInv' /\ Configures
<1>1. /\ Inv /\ Stage /\ Agree /\ StructureIsCurrent /\ Framed /\ Owed
      /\ todo # <<>>
  BY DEF BootInv, DriverCall
<1>2. Inv'
  BY <1>1, WriteKeeps, ResetKeeps, OtherCallsKeep DEF DriverCall
<1>3. \/ Proceed
      \/ \E e \in {"return", "break", "ignore"} :
           GiveUp(e) /\ (e = "return" \/ e = Head(todo).onError)
  BY DEF DriverCall, WriteRegister, ResetChip, UpdateCRCSetting, ReadRegister, GiveUp
<1>4. Stage' /\ (phase' = "init" => phase = "init") /\ (Running' => Running)
  <2>1. CASE Proceed
    BY <1>1, <2>1, ProceedStage, NextOfService DEF Running
  <2>2. ASSUME NEW e \in {"return", "break", "ignore"},
               GiveUp(e) /\ (e = "return" \/ e = Head(todo).onError)
        PROVE  Stage' /\ (phase' = "init" => phase = "init") /\ (Running' => Running)
    BY <1>1, <2>1, <2>2, GiveUpStage, NextOfService DEF Running
  <2> QED
    BY <1>3, <2>1, <2>2
<1>5. Framed'
  BY <1>1, WriteFrames, CrcFrames, ReadFrames, ResetFrames DEF DriverCall
<1>6. Configures
  BY <1>1, WriteOwes, OtherOwes DEF DriverCall, Configures
<1>7. CASE WriteRegister
  <2>1. Agree' /\ StructureIsCurrent'
    BY <1>1, <1>7, WriteAgrees, WriteIsCurrent
  <2>2. \A r \in Registers : FieldsOf(r) \subseteq DOMAIN asked'[r]
    <3> PICK call, w : call = Head(todo) /\ w = call.reg
      OBVIOUS
    <3>1. Taken(w, call.set) /\ \A r \in Registers \ {w} : asked'[r] = asked[r]
      BY <1>1, <1>7, WriteEffect
    <3> QED
      BY <1>1, <3>1 DEF Owed, Taken
  <2> QED
    BY <1>2, <1>4, <1>5, <1>6, <2>1, <2>2 DEF BootInv, Owed, Configures
<1>8. CASE ResetChip \/ UpdateCRCSetting \/ ReadRegister
  <2>1. UNCHANGED <<device, asked, lost>> /\ \A r \in Registers : chip'[r] = chip[r]
    BY <1>1, <1>8, ResetKeeps DEF ResetChip, UpdateCRCSetting, ReadRegister, copies
  <2>2. Agree'
    BY <1>1, <1>4, <2>1 DEF Agree
  <2>3. StructureIsCurrent'
    BY <1>1, <2>1 DEF StructureIsCurrent
  <2>4. Owed'
    BY <1>1, <1>4, <1>6, <2>1 DEF Owed, Configures
  <2> QED
    BY <1>2, <1>4, <1>5, <1>6, <2>2, <2>3, <2>4 DEF BootInv
<1> QED
  BY <1>7, <1>8 DEF DriverCall

(* What a handler calls sets every field of its register that is set in      *)
(* service.                                                                  *)
LEMMA HandlerCalls ==
  /\ \A c \in Channels :
       /\ \A on \in {0, 1} : <<SetChannelStatus(c, on)>> \in Seq(ServiceCalls)
       /\ \A rate \in Rates : <<ConfigureDeviceOdr(c, rate)>> \in Seq(ServiceCalls)
       /\ SingleRead(c) \in Seq(ServiceCalls)
  /\ \A m \in {"OFFSET", "GAIN", "CONTINUOUS"} :
       <<Patch(Adcmode, [MODE |-> ModeNumber[m]], "ignore")>> \in Seq(ServiceCalls)
  /\ <<ReadData("ignore")>> \in Seq(ServiceCalls)
<1>1. ASSUME NEW c \in Channels
      PROVE  /\ \A on \in {0, 1} : SetChannelStatus(c, on) \in ServiceCalls
             /\ \A rate \in Rates : ConfigureDeviceOdr(c, rate) \in ServiceCalls
  <2>1. /\ \A on \in {0, 1} : SetChannelStatus(c, on) \in Ordinary
        /\ \A rate \in Rates : ConfigureDeviceOdr(c, rate) \in Ordinary
    BY DEF Ordinary, Setters
  <2>2. Chmap(c) # Ifmode /\ Filtcon(c) # Ifmode
    BY DEF Chmap, Filtcon, Ifmode
  <2>3. /\ Volatile \cap FieldsOf(Chmap(c)) = {"CH_EN"}
        /\ Volatile \cap FieldsOf(Filtcon(c)) = {"ODR"}
    BY FieldsOfRegisters DEF Volatile
  <2>4. /\ \A on \in {0, 1} : ServiceCall(SetChannelStatus(c, on))
        /\ \A rate \in Rates : ServiceCall(ConfigureDeviceOdr(c, rate))
    BY <2>2, <2>3 DEF ServiceCall, SetChannelStatus, ConfigureDeviceOdr, Setter, Call
  <2> QED
    BY <2>1, <2>4 DEF ServiceCalls
<1>2. Adcmode # Ifmode /\ Volatile \cap FieldsOf(Adcmode) = {"MODE"}
  BY FieldsOfRegisters DEF Volatile, Adcmode, Ifmode
<1>3. \A m \in {"OFFSET", "GAIN", "CONTINUOUS"} :
        Patch(Adcmode, [MODE |-> ModeNumber[m]], "ignore") \in ServiceCalls
  BY <1>2 DEF ServiceCalls, ServiceCall, Patch, Call, Ordinary, Writes, ModeNumber
<1>4. SetAdcMode("SINGLE") \in ServiceCalls
  BY <1>2 DEF ServiceCalls, ServiceCall, SetAdcMode, Setter, Call, Ordinary, Setters
<1>5. \A e \in {"return", "ignore"} :
        ReadStatus(e) \in ServiceCalls /\ ReadData(e) \in ServiceCalls
  BY DEF ServiceCalls, ServiceCall, ReadStatus, ReadData, Call, Ordinary, Reads, Errors
<1>6. \A c \in Channels : SingleRead(c) \in Seq(ServiceCalls)
  BY <1>1, <1>4, <1>5 DEF SingleRead
<1> QED
  BY <1>1, <1>3, <1>5, <1>6

LEMMA BeginKeepsBoot ==
  ASSUME BootInv, NEW calls \in Seq(ServiceCalls), Begin(calls)
  PROVE  BootInv'
<1>1. calls \in Seq(Ordinary)
  BY DEF ServiceCalls
<1>2. Inv'
  BY <1>1, BeginKeeps DEF BootInv
<1>3. /\ phase = "service" /\ phase' = "service" /\ UNCHANGED <<copies, useCRC, lost>>
      /\ todo' = calls /\ UpdateCRC \notin Left(todo) /\ UpdateCRC \notin Left(todo')
  <2>1. todo \in Seq(ServiceCalls)
    BY DEF Begin, BootInv, Stage
  <2> QED
    BY <2>1, CrcIsFirst DEF Begin
<1> QED
  BY <1>2, <1>3
     DEF copies, BootInv, Stage, Agree, StructureIsCurrent, Framed, Settled, Running, Owed

LEMMA HandlerKeepsBoot ==
  ASSUME BootInv, Handler
  PROVE  BootInv' /\ Configures
<1>1. BootInv'
  BY HandlerCalls, BeginKeepsBoot DEF Handler
<1>2. phase = "service"
  BY DEF Handler, Begin
<1> QED
  BY <1>1, <1>2 DEF Configures

LEMMA NextBoot ==
  ASSUME BootInv, [Next]_vars
  PROVE  BootInv' /\ (Configures \/ UNCHANGED vars)
<1>1. CASE DriverCall
  BY <1>1, CallKeepsBoot
<1>2. CASE Handler
  BY <1>2, HandlerKeepsBoot
<1>3. CASE Remove
  <2>1. Inv'
    BY <1>3, NextInv DEF BootInv, Next
  <2>2. phase = "service" /\ phase' = "removed" /\ UNCHANGED <<todo, copies, useCRC, lost>>
        /\ todo = <<>>
    BY <1>3 DEF Remove
  <2>3. BootInv'
    BY <2>1, <2>2
       DEF copies, BootInv, Stage, Agree, StructureIsCurrent, Framed, Settled, Running, Owed
  <2> QED
    BY <2>2, <2>3 DEF Configures
<1>4. CASE UNCHANGED vars
  <2>1. Inv'
    BY <1>4, NextInv DEF BootInv
  <2> QED
    BY <1>4, <2>1
       DEF vars, copies, BootInv, Stage, Agree, StructureIsCurrent, Framed, Settled, Running,
           Owed, Configuring
<1> QED
  BY <1>1, <1>2, <1>3, <1>4 DEF Next, Over

LEMMA BootAlways == Spec => []BootInv
<1>1. BootInv /\ [Next]_vars => BootInv'
  BY NextBoot
<1> QED
  BY InitBoot, <1>1, PTL DEF Spec

(* As long as no write is dropped the configuration in the device structure  *)
(* is in the chip, whichever transfers fail with an error and whenever.      *)
THEOREM StructureMatches == Spec => []StructureIsCurrent
<1>1. BootInv => StructureIsCurrent
  BY DEF BootInv
<1> QED
  BY BootAlways, <1>1, PTL

(* A register is read with the checksum the chip sends, and a conversion     *)
(* with the status byte the chip adds, whatever malloc left in the driver.   *)
THEOREM FramesAgree == Spec => []FrameAgrees
<1>1. ASSUME BootInv, lost = 0, todo # <<>>, Head(todo).op \in {"read", "data"}
      PROVE  /\ useCRC = "USE_CRC" <=> ChipChecks
             /\ DataregSize(cache[Ifmode]) = DataregSize(chip[Ifmode])
  <2>1. Inv /\ Stage /\ Framed
    BY <1>1 DEF BootInv
  <2>2. Running /\ (todo \in Seq(BootCalls) \/ todo \in Seq(ServiceCalls))
    <3>1. /\ Reset.op = "reset" /\ WriteTable(Adcmode).op = "write"
          /\ WriteTable(Ifmode).op = "write" /\ UpdateCRC.op = "crc"
      BY DEF Reset, WriteTable, UpdateCRC, Call
    <3> QED
      BY <1>1, <2>1, <3>1, NextOfInit, NextOfService DEF Running
  <2>3. Settled
    BY <2>2, CrcIsFirst DEF Settled
  <2>4. chip[Ifmode] = cache[Ifmode] /\ useCRC = "USE_CRC"
    BY <1>1, <2>1, <2>3 DEF Framed
  <2>5. cache[Ifmode] \cap Mask["CRC"] = Bits("CRC", 2)
    BY <2>1, <2>2, RegistersOf DEF Framed, Inv, CopiesOK, Holds
  <2> QED
    BY <2>4, <2>5 DEF ChipChecks
<1>2. BootInv => FrameAgrees
  BY <1>1 DEF FrameAgrees
<1> QED
  BY BootAlways, <1>2, PTL

(* When the initialisation reports success every register the channels need  *)
(* is configured as the tables say, although the loop over the start values  *)
(* may have been broken off: whatever it skipped is written again by a call  *)
(* whose failure is reported.                                                *)
THEOREM ReadyOnSuccess == Spec => ReadyWhenOk
<1> DEFINE Step == phase = "init" /\ phase' = "service" /\ lost' = 0 =>
                     \A r \in Registers \ {Gpiocon} : Holds(chip'[r], Configured(r))
<1>1. ASSUME BootInv, [Next]_vars PROVE [Step]_vars
  <2> SUFFICES ASSUME phase = "init", phase' = "service", lost' = 0,
                      NEW r \in Registers \ {Gpiocon}
               PROVE  Holds(chip'[r], Configured(r))
    OBVIOUS
  <2>1. Configuring(r)' /\ BootInv'
    BY <1>1, NextBoot DEF Configures, vars
  <2>2. todo' = <<>>
    <3>1. DriverCall
      BY <1>1 DEF Next, Handler, Begin, Remove, Over, vars
    <3>2. Inv /\ Stage /\ todo # <<>>
      BY <1>1, <3>1 DEF BootInv, DriverCall
    <3> QED
      BY <3>1, <3>2, ProceedStage, GiveUpStage
         DEF DriverCall, WriteRegister, ResetChip, UpdateCRCSetting, ReadRegister
  <2>3. Left(todo') = {}
    BY <2>2, NoFields DEF Left
  <2>4. Holds(chip'[r], asked'[r]) /\ \A f \in FieldsOf(r) : asked'[r][f] = Configured(r)[f]
    BY <2>1, <2>3 DEF Configuring, OwesWrite, OwesField
  <2>5. DOMAIN asked'[r] = FieldsOf(r)
    BY <2>1 DEF BootInv, Owed, Inv, CopiesOK
  <2>6. DOMAIN Configured(r) = FieldsOf(r)
    BY ConfiguredDomain
  <2> QED
    BY <2>4, <2>5, <2>6 DEF Holds
<1> HIDE DEF Step
<1>2. Spec => [][Step]_vars
  BY <1>1, BootAlways, PTL DEF Spec
<1> QED
  BY <1>2 DEF ReadyWhenOk, Step
=============================================================================

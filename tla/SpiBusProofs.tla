----------------------------- MODULE SpiBusProofs -----------------------------
(* The properties of SpiBus for any devices, bus numbers and modes.  The     *)
(* properties lean on each other: a transfer runs only on a descriptor, so   *)
(* the pins are as the running transfer left them; PinInv says how.          *)
EXTENDS SpiBus, FiniteSetTheorems, TLAPS

(* A step belongs to a transfer, a transfer to a descriptor, a descriptor to *)
(* a bus number of the table; the first descriptor finds the pins high.  A   *)
(* message that has gone out leaves the clock at the level of its slave.     *)
PinInv ==
  /\ active = NoSlave => step = "nop"
  /\ active # NoSlave => active \in desc
  /\ \A s \in desc : DeviceId[s] \in BusNumbers
  /\ active # NoSlave /\ (i > 0 \/ (step = "deselect" /\ ret = 0)) => sclk = Cpol[active]

(* The call in progress is at a message it has accepted, and no transaction  *)
(* of it has failed before the one in progress.                              *)
ListInv ==
  active # NoSlave =>
    /\ i < Len(msgs) /\ msgs[i + 1] = "sound"
    /\ IF ret = 0 THEN failed = 0 ELSE ret = EIO /\ failed = 1 /\ step = "deselect"

Inv == ListInv /\ ListToItsEnd /\ TypeOK /\ PinInv /\ SelectedAlone /\ ClockAtRest /\ BusCounted

(* How many slaves are on a bus, when one is added or removed.               *)
LEMMA CountAdded ==
  ASSUME desc \in SUBSET Slaves, NEW s \in Slaves \ desc, desc' = desc \cup {s},
         NEW b \in BusNumbers
  PROVE  /\ IsFiniteSet(On(b)) /\ Cardinality(On(b)) \in Nat
         /\ DeviceId[s] = b => /\ On(b)' # {}
                               /\ Cardinality(On(b)') = Cardinality(On(b)) + 1
         /\ DeviceId[s] # b => On(b)' = On(b)
<1>1. IsFiniteSet(On(b))
  BY FS_Subset, SpiBusAssumption DEF On
<1>2. DeviceId[s] = b => On(b)' = On(b) \cup {s} /\ s \notin On(b)
  BY DEF On
<1>3. DeviceId[s] # b => On(b)' = On(b)
  BY DEF On
<1>4. Cardinality(On(b)) \in Nat
  BY <1>1, FS_CardinalityType
<1>5. s \notin On(b) => Cardinality(On(b) \cup {s}) = Cardinality(On(b)) + 1
  BY <1>1, FS_AddElement
<1> QED
  BY <1>1, <1>2, <1>3, <1>4, <1>5

LEMMA CountRemoved ==
  ASSUME desc \in SUBSET Slaves, NEW s \in desc, desc' = desc \ {s},
         NEW b \in BusNumbers
  PROVE  /\ Cardinality(On(b)) \in Nat
         /\ DeviceId[s] = b =>
              /\ On(b) # {}
              /\ Cardinality(On(b)) > 0
              /\ Cardinality(On(b)') = Cardinality(On(b)) - 1
              /\ Cardinality(On(b)) = 1 => On(b)' = {}
         /\ DeviceId[s] # b => On(b)' = On(b)
<1>1. IsFiniteSet(On(b))
  BY FS_Subset, SpiBusAssumption DEF On
<1>2. DeviceId[s] = b => On(b)' = On(b) \ {s} /\ s \in On(b)
  BY DEF On
<1>3. DeviceId[s] # b => On(b)' = On(b)
  BY DEF On
<1>4. Cardinality(On(b)) \in Nat
  BY <1>1, FS_CardinalityType
<1>5. s \in On(b) => /\ IsFiniteSet(On(b) \ {s})
                     /\ Cardinality(On(b) \ {s}) = Cardinality(On(b)) - 1
  BY <1>1, FS_RemoveElement
<1>6. s \in On(b) => Cardinality(On(b)) # 0
  BY <1>1, FS_EmptySet
<1>7. s \in On(b) /\ Cardinality(On(b)) = 1 => On(b) \ {s} = {}
  BY <1>5, FS_EmptySet
<1> QED
  BY <1>1, <1>2, <1>3, <1>4, <1>5, <1>6, <1>7

LEMMA InitInv == Init => Inv
<1> SUFFICES ASSUME Init PROVE Inv
  OBVIOUS
<1>1. BusCounted
  BY DEF Init, BusCounted, On
<1> QED
  BY <1>1, SpiBusAssumption
  DEF Init, Inv, TypeOK, PinInv, SelectedAlone, ClockAtRest, ListInv, ListToItsEnd, Null,
       EIO, EINVAL, Message

-----------------------------------------------------------------------------
LEMMA RaiseKeeps == ASSUME Inv, NEW s \in Slaves, RaiseChipSelect(s) PROVE Inv'
<1>1. BusCounted'
  BY DEF RaiseChipSelect, Inv, BusCounted, On, busVars, callVars
<1> QED
  BY <1>1
  DEF RaiseChipSelect, Inv, TypeOK, PinInv, SelectedAlone, ClockAtRest, ListInv,
      ListToItsEnd, busVars, callVars

(* The first descriptor needs all pins high; a later one finds them so.      *)
LEMMA SpiInitKeeps == ASSUME Inv, NEW s \in Slaves, SpiInit(s) PROVE Inv'
<1> DEFINE b0 == DeviceId[s]
           count == IF spi_table[b0] = Null THEN 0 ELSE spi_table[b0]
<1>1. /\ active = NoSlave /\ AllHigh /\ s \notin desc /\ b0 \in BusNumbers
      /\ UNCHANGED <<chip_select, sclk, active, step, msgs, i, ret, failed>>
      /\ PlatformInit(s, count)
  BY DEF SpiInit, pinVars, callVars
<1>2. IsFiniteSet(On(b0)) /\ count = Cardinality(On(b0)) /\ count \in Nat
  <2>1. IsFiniteSet(On(b0))
    BY FS_Subset, SpiBusAssumption DEF On, Inv, TypeOK
  <2>2. Cardinality(On(b0)) \in Nat
    BY <2>1, FS_CardinalityType
  <2>3. On(b0) = {} => Cardinality(On(b0)) = 0
    BY FS_EmptySet
  <2> QED
    BY <1>1, <2>1, <2>2, <2>3 DEF Inv, BusCounted
<1>3. CASE /\ spi_table' = [spi_table EXCEPT ![b0] = count + 1]
           /\ desc' = desc \cup {s}
  <2>1. spi_table' \in [BusNumbers -> Nat \cup {Null}]
    BY <1>1, <1>2, <1>3 DEF Inv, TypeOK
  <2>2. ASSUME NEW b \in BusNumbers
        PROVE  IF spi_table'[b] = Null THEN On(b)' = {}
                                       ELSE spi_table'[b] = Cardinality(On(b)')
    <3>1. CASE b = b0
      <4>1. spi_table'[b] = count + 1 /\ spi_table'[b] # Null
        BY <1>2, <1>3, <3>1 DEF Inv, TypeOK, Null
      <4>2. Cardinality(On(b)') = Cardinality(On(b)) + 1
        BY <1>1, <1>3, <3>1, CountAdded DEF Inv, TypeOK
      <4> QED
        BY <1>2, <3>1, <4>1, <4>2
    <3>2. CASE b # b0
      <4>1. spi_table'[b] = spi_table[b]
        BY <1>3, <3>2 DEF Inv, TypeOK
      <4>2. On(b)' = On(b)
        BY <1>1, <1>3, <3>2, CountAdded DEF Inv, TypeOK
      <4> QED
        BY <4>1, <4>2 DEF Inv, BusCounted
    <3> QED
      BY <3>1, <3>2
  <2>3. BusCounted'
    BY <2>2 DEF BusCounted
  <2> QED
    BY <1>1, <1>3, <2>1, <2>3
    DEF Inv, TypeOK, PinInv, SelectedAlone, ClockAtRest, ListInv, ListToItsEnd, AllHigh
<1>4. CASE /\ spi_table' = [spi_table EXCEPT ![b0] = count]
           /\ UNCHANGED desc
  <2>1. spi_table' \in [BusNumbers -> Nat \cup {Null}]
    BY <1>1, <1>2, <1>4 DEF Inv, TypeOK
  <2>2. ASSUME NEW b \in BusNumbers
        PROVE  IF spi_table'[b] = Null THEN On(b)' = {}
                                       ELSE spi_table'[b] = Cardinality(On(b)')
    <3>1. On(b)' = On(b)
      BY <1>4 DEF On
    <3>2. CASE b = b0
      BY <1>2, <1>4, <3>1, <3>2 DEF Inv, TypeOK, Null
    <3>3. CASE b # b0
      BY <1>4, <3>1, <3>3 DEF Inv, TypeOK, BusCounted
    <3> QED
      BY <3>2, <3>3
  <2>3. BusCounted'
    BY <2>2 DEF BusCounted
  <2> QED
    BY <1>1, <1>4, <2>1, <2>3
    DEF Inv, TypeOK, PinInv, SelectedAlone, ClockAtRest, ListInv, ListToItsEnd
<1> QED
  BY <1>1, <1>3, <1>4 DEF PlatformInit

LEMMA SpiRemoveKeeps == ASSUME Inv, NEW s \in Slaves, SpiRemove(s) PROVE Inv'
<1> DEFINE b0 == DeviceId[s]
<1>1. /\ active = NoSlave /\ s \in desc /\ b0 \in BusNumbers
      /\ spi_table' = [spi_table EXCEPT ![b0] = BusAfterRemove(spi_table[b0])]
      /\ desc' = desc \ {s}
      /\ chip_select' = [chip_select EXCEPT ![s] = 1]
      /\ UNCHANGED <<sclk, active, step, msgs, i, ret, failed>>
  BY DEF SpiRemove, Inv, PinInv, callVars
<1>2. /\ spi_table[b0] \in Nat /\ spi_table[b0] > 0
      /\ spi_table[b0] = Cardinality(On(b0))
  BY <1>1, CountRemoved DEF Inv, TypeOK, BusCounted
<1>3. spi_table' \in [BusNumbers -> Nat \cup {Null}]
  BY <1>1, <1>2 DEF Inv, TypeOK, BusAfterRemove
<1>4. ASSUME NEW b \in BusNumbers
      PROVE  IF spi_table'[b] = Null THEN On(b)' = {}
                                     ELSE spi_table'[b] = Cardinality(On(b)')
  <2>1. CASE b = b0
    <3>1. spi_table'[b] = BusAfterRemove(Cardinality(On(b)))
      BY <1>1, <1>2, <2>1 DEF Inv, TypeOK
    <3>2. /\ Cardinality(On(b)') = Cardinality(On(b)) - 1
          /\ Cardinality(On(b)) = 1 => On(b)' = {}
      BY <1>1, <2>1, CountRemoved DEF Inv, TypeOK
    <3> QED
      BY <1>2, <2>1, <3>1, <3>2 DEF BusAfterRemove, Null
  <2>2. CASE b # b0
    <3>1. spi_table'[b] = spi_table[b]
      BY <1>1, <2>2 DEF Inv, TypeOK
    <3>2. On(b)' = On(b)
      BY <1>1, <2>2, CountRemoved DEF Inv, TypeOK
    <3> QED
      BY <3>1, <3>2 DEF Inv, BusCounted
  <2> QED
    BY <2>1, <2>2
<1>5. BusCounted'
  BY <1>4 DEF BusCounted
<1>6. SelectedAlone'
  BY <1>1 DEF Inv, TypeOK, PinInv, SelectedAlone
<1> QED
  BY <1>1, <1>3, <1>5, <1>6 DEF Inv, TypeOK, PinInv, ClockAtRest, ListInv, ListToItsEnd

(* The loop comes to a message of the list, of which none has failed.        *)
LEMMA ComeToKeeps ==
  ASSUME Inv, NEW s \in desc, NEW list \in Seq(Message), NEW k \in Nat, k <= Len(list),
         ComeTo(s, k, list), msgs' = list, step' = "nop", failed' = 0,
         k > 0 => sclk' = Cpol[s], sclk' \in {0, 1}, desc' = desc
  PROVE  /\ ListInv' /\ ListToItsEnd' /\ PinInv' /\ ClockAtRest'
         /\ i' \in 0 .. Len(msgs') /\ ret' \in {0, EIO, EINVAL}
         /\ active' \in Slaves \cup {NoSlave}
<1>1. Len(list) \in Nat /\ s \in Slaves /\ s # NoSlave
  BY SpiBusAssumption DEF Inv, TypeOK
<1>2. CASE k = Len(list)
  <2>1. i' = k /\ active' = NoSlave /\ ret' = 0
    BY <1>2 DEF ComeTo
  <2> QED
    BY <1>1, <1>2, <2>1
    DEF ListInv, ListToItsEnd, PinInv, ClockAtRest, Inv, EIO, EINVAL
<1>3. CASE k # Len(list)
  <2>1. k < Len(list) /\ list[k + 1] \in Message
    BY <1>1, <1>3
  <2>2. i' = k /\ ret' = Verdict(list[k + 1])
    BY <1>3 DEF ComeTo
  <2>3. active' = IF list[k + 1] = "sound" THEN s ELSE NoSlave
    BY <1>3 DEF ComeTo
  <2>4. CASE list[k + 1] = "sound"
    <3>1. ret' = 0 /\ active' = s
      BY <2>2, <2>3, <2>4 DEF Verdict
    <3> QED
      BY <1>1, <2>1, <2>2, <2>4, <3>1
      DEF ListInv, ListToItsEnd, PinInv, ClockAtRest, Inv, EIO, EINVAL
  <2>5. CASE list[k + 1] = "split"
    <3>1. ret' = EINVAL /\ active' = NoSlave
      BY <2>2, <2>3, <2>5 DEF Verdict
    <3> QED
      BY <1>1, <2>1, <2>2, <2>5, <3>1
      DEF ListInv, ListToItsEnd, PinInv, ClockAtRest, Inv, EIO, EINVAL
  <2>6. CASE list[k + 1] = "empty"
    <3>1. ret' = EIO /\ active' = NoSlave
      BY <2>2, <2>3, <2>6 DEF Verdict
    <3> QED
      BY <1>1, <2>1, <2>2, <2>6, <3>1
      DEF ListInv, ListToItsEnd, PinInv, ClockAtRest, Inv, EIO, EINVAL
  <2> QED
    BY <2>1, <2>4, <2>5, <2>6 DEF Message
<1> QED
  BY <1>2, <1>3

(* The steps of a transfer leave the table alone.                            *)
LEMMA TransferKeeps ==
  ASSUME Inv, (\E s \in Slaves : Begin(s)) \/ Nop \/ Select \/ Clock \/ Deselect
  PROVE  Inv'
<1>1. BusCounted'
  BY DEF Inv, BusCounted, On, Begin, Nop, Select, Clock, Deselect, busVars
<1>2. ASSUME NEW s \in Slaves, Begin(s) PROVE Inv'
  <2>1. PICK n \in 0 .. MaxMessages : msgs' \in [1 .. n -> Message]
    BY <1>2 DEF Begin
  <2>2. n \in Nat
    BY SpiBusAssumption
  <2>3. msgs' \in Seq(Message)
    BY <2>1, <2>2
  <2>4. /\ active = NoSlave /\ s \in desc /\ ComeTo(s, 0, msgs')
        /\ step' = "nop" /\ failed' = 0
        /\ UNCHANGED <<spi_table, desc, chip_select, sclk>>
    BY <1>2 DEF Begin, busVars, pinVars
  <2>5. sclk' \in {0, 1} /\ 0 <= Len(msgs')
    BY <2>3, <2>4 DEF Inv, TypeOK
  <2>6. /\ ListInv' /\ ListToItsEnd' /\ PinInv' /\ ClockAtRest'
        /\ i' \in 0 .. Len(msgs') /\ ret' \in {0, EIO, EINVAL}
        /\ active' \in Slaves \cup {NoSlave}
    BY <2>3, <2>4, <2>5, ComeToKeeps
  <2>7. SelectedAlone'
    BY <2>4 DEF Inv, SelectedAlone, PinInv
  <2> QED
    BY <1>1, <2>3, <2>4, <2>6, <2>7 DEF Inv, TypeOK
<1> USE DEF Inv, TypeOK, PinInv, SelectedAlone, ClockAtRest, ListInv, ListToItsEnd, busVars,
             StepTo, EIO, EINVAL
<1>3. CASE Nop
  BY <1>1, <1>3, SpiBusAssumption DEF Nop
<1>4. CASE Select
  BY <1>1, <1>4 DEF Select
<1>5. CASE Clock
  BY <1>1, <1>5, SpiBusAssumption DEF Clock
<1>6. CASE Deselect
  <2> USE DEF Deselect
  <2>1. /\ msgs \in Seq(Message) /\ Len(msgs) \in Nat /\ msgs' = msgs /\ failed' = failed
        /\ UNCHANGED <<spi_table, desc, sclk>> /\ step' = "nop" /\ step = "deselect"
        /\ chip_select' = [chip_select EXCEPT ![active] = 1]
    BY <1>6
  <2>2. active \in Slaves /\ active # NoSlave /\ active \in desc
    BY <1>6, SpiBusAssumption
  <2>3. /\ i \in 0 .. Len(msgs) /\ i < Len(msgs) /\ msgs[i + 1] = "sound"
        /\ IF ret = 0 THEN failed = 0 ELSE ret = EIO /\ failed = 1
    BY <1>6, <2>2
  <2>4. SelectedAlone' /\ chip_select' \in [Slaves -> {0, 1}]
    BY <2>1, <2>2
  <2>5. CASE ret = 0
    <3>1. ComeTo(active, i + 1, msgs)
      BY <1>6, <2>5 DEF NextMessage
    <3>2. i + 1 \in Nat /\ i + 1 <= Len(msgs) /\ failed' = 0
      BY <2>1, <2>3, <2>5
    <3>3. sclk' = Cpol[active] /\ sclk' \in {0, 1}
      BY <2>1, <2>2, <2>5
    <3>4. Inv /\ desc' = desc
      BY <2>1
    <3> HIDE DEF Inv, TypeOK, PinInv, SelectedAlone, ClockAtRest, ListInv, ListToItsEnd,
                 Deselect
    <3>5. /\ ListInv' /\ ListToItsEnd' /\ PinInv' /\ ClockAtRest'
          /\ i' \in 0 .. Len(msgs') /\ ret' \in {0, EIO, EINVAL}
          /\ active' \in Slaves \cup {NoSlave}
      BY <2>1, <2>2, <3>1, <3>2, <3>3, <3>4, ComeToKeeps
    <3> QED
      BY <1>1, <2>1, <2>4, <3>2, <3>5 DEF Inv, TypeOK
  <2>6. CASE ret # 0
    <3>1. i' = i /\ active' = NoSlave /\ ret' = EIO
      BY <1>6, <2>3, <2>6 DEF NextMessage
    <3> QED
      BY <1>1, <2>1, <2>2, <2>3, <2>4, <2>6, <3>1
  <2> QED
    BY <2>5, <2>6
<1> QED
  BY <1>2, <1>3, <1>4, <1>5, <1>6

LEMMA NextInv == Inv /\ [Next]_vars => Inv'
<1> SUFFICES ASSUME Inv, [Next]_vars PROVE Inv'
  OBVIOUS
<1>1. CASE UNCHANGED vars
  BY <1>1
  DEF vars, busVars, pinVars, callVars, ListInv, ListToItsEnd, Inv, TypeOK, PinInv,
      SelectedAlone, ClockAtRest, BusCounted, On
<1>2. CASE Next
  BY <1>2, RaiseKeeps, SpiInitKeeps, SpiRemoveKeeps, TransferKeeps DEF Next
<1> QED
  BY <1>1, <1>2

-----------------------------------------------------------------------------
LEMMA InvAlways == Spec => []Inv
<1> QED
  BY InitInv, NextInv, PTL DEF Spec

(* The slave_number of a bus in no_os_spi.c is the number of descriptors on  *)
(* it, whichever initialisations fail in between.                            *)
THEOREM SlavesAreCounted == Spec => []BusCounted
<1>1. Inv => BusCounted
  BY DEF Inv
<1> QED
  BY InvAlways, <1>1, PTL

(* Once a device is on the bus only the slave of the running transfer of     *)
(* esp32_spi_write_read is selected.                                         *)
THEOREM TransfersAreAlone == Spec => []SelectedAlone
<1>1. Inv => SelectedAlone
  BY DEF Inv
<1> QED
  BY InvAlways, <1>1, PTL

(* Whichever of the unchecked transactions of esp32_spi_write_read fail, a   *)
(* message behind the first of a call finds the clock at the level of its    *)
(* slave.                                                                    *)
THEOREM RestIsConfined == Spec => []ClockAtRest
<1>1. Inv => ClockAtRest
  BY DEF Inv
<1> QED
  BY InvAlways, <1>1, PTL

(* no_os_spi_transfer stops at the first message that fails or is refused,   *)
(* and reports it, for lists of any length.                                  *)
THEOREM ListsRunToTheirEnd == Spec => []ListToItsEnd
<1>1. Inv => ListToItsEnd
  BY DEF Inv
<1> QED
  BY InvAlways, <1>1, PTL
=============================================================================

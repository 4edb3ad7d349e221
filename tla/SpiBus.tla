-------------------------------- MODULE SpiBus --------------------------------
(* The SPI layer: the table of bus descriptors of no_os_spi.c, its ESP32     *)
(* backend with chip selects driven by hand, and the one physical bus that   *)
(* the DACs (clock idle low) and the ADC (clock idle high) share.  Every     *)
(* call is made by the coordinator task; the bus mutexes are empty functions.*)
EXTENDS Integers, FiniteSets, Sequences

CONSTANTS
  Slaves,          \* the devices on the bus
  DeviceId,        \* DeviceId[s]: the bus number a slave is configured with
  Cpol,            \* Cpol[s]: the clock level at rest in the mode of s
  MaxBusNumber,    \* SPI_MAX_BUS_NUMBER
  NoSlave,         \* no device
  MaxMessages,     \* bound on the messages of a list
  InitFaults,      \* memory may run out, the backend may refuse a device
  TransferFaults   \* the transaction of a transfer may fail

ASSUME SpiBusAssumption ==
  /\ IsFiniteSet(Slaves)
  /\ NoSlave \notin Slaves
  /\ DeviceId \in [Slaves -> Nat]
  /\ Cpol \in [Slaves -> {0, 1}]
  /\ MaxBusNumber \in Nat /\ MaxMessages \in Nat \ {0}
  /\ InitFaults \in BOOLEAN /\ TransferFaults \in BOOLEAN

VARIABLES
  spi_table,     \* spi_table[b]: the slave_number of the bus, or Null
  desc,          \* the slaves that have a descriptor
  chip_select,   \* the level of each chip-select pin
  sclk,          \* the level at which the clock rests
  active,        \* the slave whose transfer runs, or NoSlave
  step,          \* the next step of that transfer
  msgs,          \* the messages of the call, by what is wrong with them
  i,             \* the messages of the call that are through
  ret,           \* the result of the call so far
  failed         \* the transactions of the call that failed (history)

busVars == <<spi_table, desc>>
pinVars == <<chip_select, sclk>>
callVars == <<active, step, msgs, i, ret, failed>>
vars == <<busVars, pinVars, callVars>>

Null == -1
EIO == -1
EINVAL == -22
BusNumbers == 0 .. MaxBusNumber

(* A message with one buffer for both ways, one with two or none, and one    *)
(* without a byte.                                                           *)
Message == {"sound", "split", "empty"}

TypeOK ==
  /\ spi_table \in [BusNumbers -> Nat \cup {Null}]
  /\ desc \in SUBSET Slaves
  /\ chip_select \in [Slaves -> {0, 1}]
  /\ sclk \in {0, 1}
  /\ active \in Slaves \cup {NoSlave}
  /\ step \in {"nop", "select", "clock", "deselect"}
  /\ msgs \in Seq(Message) /\ i \in 0 .. Len(msgs)
  /\ ret \in {0, EIO, EINVAL} /\ failed \in Nat

(* gpio_config makes the chip selects outputs before they are driven high.   *)
Init ==
  /\ spi_table = [b \in BusNumbers |-> Null]
  /\ desc = {}
  /\ chip_select = [s \in Slaves |-> 0]
  /\ sclk = 0
  /\ active = NoSlave
  /\ step = "nop"
  /\ msgs = <<>> /\ i = 0 /\ ret = 0 /\ failed = 0

-----------------------------------------------------------------------------
(* Coordinator::init drives the chip selects high one by one, before it      *)
(* touches the bus.                                                          *)
RaiseChipSelect(s) ==
  /\ active = NoSlave
  /\ desc = {}
  /\ chip_select[s] = 0
  /\ chip_select' = [chip_select EXCEPT ![s] = 1]
  /\ UNCHANGED <<busVars, sclk, callVars>>

AllHigh == \A s \in Slaves : chip_select[s] = 1

(* Mutant of PlatformInit: a slave is counted before its device is added.    *)
PlatformInitEager(s, count) ==
  \/ /\ spi_table' = [spi_table EXCEPT ![DeviceId[s]] = count + 1]
     /\ desc' = desc \cup {s}
  \/ /\ InitFaults
     /\ spi_table' = [spi_table EXCEPT ![DeviceId[s]] = count + 1]
     /\ UNCHANGED desc

(* platform_ops->init on a bus with `count` slaves; when it fails a new bus  *)
(* stays in the table, without a slave.                                      *)
PlatformInit(s, count) ==
  \/ /\ spi_table' = [spi_table EXCEPT ![DeviceId[s]] = count + 1]
     /\ desc' = desc \cup {s}
  \/ /\ InitFaults
     /\ spi_table' = [spi_table EXCEPT ![DeviceId[s]] = count]
     /\ UNCHANGED desc

(* no_os_spi_init; a bus number out of range or a failing allocation of the  *)
(* bus leave everything as it is.                                            *)
SpiInit(s) ==
  /\ active = NoSlave
  /\ AllHigh
  /\ s \notin desc
  /\ DeviceId[s] \in BusNumbers
  /\ LET count == spi_table[DeviceId[s]]
     IN  PlatformInit(s, IF count = Null THEN 0 ELSE count)
  /\ UNCHANGED <<pinVars, callVars>>

(* no_os_spibus_remove: the last slave takes the bus with it.                *)
BusAfterRemove(count) == IF count <= 1 THEN Null ELSE count - 1

(* no_os_spi_remove and esp32_spi_remove.                                    *)
SpiRemove(s) ==
  /\ active = NoSlave
  /\ s \in desc
  /\ spi_table' = [spi_table EXCEPT ![DeviceId[s]] = BusAfterRemove(@)]
  /\ desc' = desc \ {s}
  /\ chip_select' = [chip_select EXCEPT ![s] = 1]
  /\ UNCHANGED <<sclk, callVars>>

-----------------------------------------------------------------------------
(* The loop of no_os_spi_transfer comes to message k + 1: it is refused, by  *)
(* the loop or by esp32_spi_write_read, before anything happens to the pins, *)
(* or its transfer begins.                                                   *)
Verdict(message) ==
  CASE message = "split" -> EINVAL [] message = "empty" -> EIO [] OTHER -> 0

ComeTo(s, k, list) ==
  /\ i' = k
  /\ IF k = Len(list)
     THEN active' = NoSlave /\ ret' = 0
     ELSE /\ active' = IF list[k + 1] = "sound" THEN s ELSE NoSlave
          /\ ret' = Verdict(list[k + 1])

(* no_os_spi_transfer with a list of messages; a list of one is also         *)
(* no_os_spi_write_and_read.                                                 *)
Begin(s) ==
  /\ active = NoSlave
  /\ s \in desc
  /\ \E n \in 0 .. MaxMessages : msgs' \in [1 .. n -> Message]
  /\ failed' = 0 /\ step' = "nop"
  /\ ComeTo(s, 0, msgs')
  /\ UNCHANGED <<busVars, pinVars>>

(* esp32_spi_write_read for one message.                                     *)
StepTo(next) == step' = next /\ UNCHANGED <<active, msgs, i>>

(* Eight clocks with no slave selected: the controller switches to the mode  *)
(* of the device, and with it the level at rest.  When this transaction      *)
(* fails nobody looks at the result, and the slave is selected all the same. *)
Nop ==
  /\ active # NoSlave
  /\ step = "nop"
  /\ sclk' = Cpol[active] \/ (TransferFaults /\ sclk' = sclk)
  /\ StepTo("select")
  /\ UNCHANGED <<busVars, chip_select, ret, failed>>

Select ==
  /\ active # NoSlave
  /\ step = "select"
  /\ chip_select' = [chip_select EXCEPT ![active] = 0]
  /\ StepTo("clock")
  /\ UNCHANGED <<busVars, sclk, ret, failed>>

(* Mutant of Clock: a transaction that fails returns at once.                *)
ClockReturns ==
  /\ active # NoSlave
  /\ step = "clock"
  /\ \/ sclk' = Cpol[active] /\ StepTo("deselect") /\ UNCHANGED <<ret, failed>>
     \/ /\ TransferFaults /\ UNCHANGED <<sclk, msgs, i>>
        /\ step' = "nop" /\ active' = NoSlave /\ ret' = EIO /\ failed' = failed + 1
  /\ UNCHANGED <<busVars, chip_select>>

(* The transaction, or its failure: the chip select is raised in any case.   *)
Clock ==
  /\ active # NoSlave
  /\ step = "clock"
  /\ \/ sclk' = Cpol[active] /\ UNCHANGED <<ret, failed>>
     \/ TransferFaults /\ UNCHANGED sclk /\ ret' = EIO /\ failed' = failed + 1
  /\ StepTo("deselect")
  /\ UNCHANGED <<busVars, chip_select>>

(* Mutant of NextMessage: the loop goes on after a failure.                  *)
NextMessageAnyway == ComeTo(active, i + 1, msgs)

(* The rest of the loop: it ends at the first message that fails.            *)
NextMessage ==
  \/ ret = 0 /\ ComeTo(active, i + 1, msgs)
  \/ ret # 0 /\ active' = NoSlave /\ UNCHANGED <<i, ret>>

Deselect ==
  /\ active # NoSlave
  /\ step = "deselect"
  /\ chip_select' = [chip_select EXCEPT ![active] = 1]
  /\ step' = "nop"
  /\ NextMessage
  /\ UNCHANGED <<busVars, sclk, msgs, failed>>

Next ==
  \/ \E s \in Slaves : RaiseChipSelect(s) \/ SpiInit(s) \/ SpiRemove(s) \/ Begin(s)
  \/ Nop \/ Select \/ Clock \/ Deselect

Spec == Init /\ [][Next]_vars

-----------------------------------------------------------------------------
(* The slave number of a bus is the number of descriptors on it, and every   *)
(* descriptor has its bus, whatever initialisations fail in between: a bus   *)
(* is not freed under a descriptor that still points to it.                  *)
On(b) == {s \in desc : DeviceId[s] = b}

BusCounted ==
  \A b \in BusNumbers :
    IF spi_table[b] = Null THEN On(b) = {} ELSE spi_table[b] = Cardinality(On(b))

(* Once a device is on the bus, at most the slave of the running transfer is *)
(* selected, and it is when the transfer is clocked: two slaves selected at  *)
(* a time would take each other's frames and fight over MISO.                *)
SelectedAlone ==
  desc # {} =>
    {s \in Slaves : chip_select[s] = 0} =
      IF step \in {"clock", "deselect"} THEN {active} ELSE {}

(* The transaction ahead of each transfer may fail unseen, and then a slave  *)
(* may be selected with the clock at rest at the level of the other mode.    *)
(* This is confined to the first message of a call: a later one follows a    *)
(* message to the same slave that did go out, or the list has ended.         *)
ClockAtRest == step = "clock" /\ i > 0 => sclk = Cpol[active]

(* A list of messages has gone out to its end when the call returns 0, and   *)
(* otherwise to the message before the one that failed or was refused, which *)
(* is the last that was clocked: no result of a message is lost to that of a *)
(* later one.                                                                *)
ListToItsEnd ==
  active = NoSlave =>
    /\ ret = 0      => i = Len(msgs) /\ failed = 0
    /\ ret = EIO    => /\ i < Len(msgs)
                      /\ \/ failed = 1 /\ msgs[i + 1] = "sound"
                         \/ failed = 0 /\ msgs[i + 1] = "empty"
    /\ ret = EINVAL => i < Len(msgs) /\ failed = 0 /\ msgs[i + 1] = "split"
=============================================================================

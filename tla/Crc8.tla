--------------------------------- MODULE Crc8 ---------------------------------
(* The checksums of the ADC driver: AD717X_ComputeCRC8, which guards every   *)
(* register access, AD717X_ComputeXOR8, and the check of a register read.    *)
(* A byte is the set of its bits that are 1: 0 is {}, ^ is Xor.              *)
EXTENDS Integers, Sequences

CONSTANTS
  Messages,   \* the messages that are sent: sequences of bytes
  MaxBurst    \* the longest burst of flipped bits, in bits

Byte == SUBSET (0 .. 7)

ASSUME Crc8Assumption == Messages \subseteq Seq(Byte) /\ MaxBurst \in 1 .. 8

VARIABLES
  useCRC,   \* the checksum mode: "USE_CRC" or "USE_XOR"
  msg,      \* the message
  buffer,   \* the message and its checksum, as they go over the wire
  phase     \* "built", "sent", "clean" or "disturbed"

crcVars == <<useCRC, msg, buffer, phase>>

Xor(a, b) == (a \ b) \cup (b \ a)

(* The bits of a buffer from 1 on, most significant bit of a byte first.     *)
BitAt(pBuf, k) == LET byte == (k - 1) \div 8 + 1 IN 8 * byte - k \in pBuf[byte]

Shifted(crc) == {i + 1 : i \in crc \ {7}}

(* Mutant of CrcBit: the polynomial lacks its term x.                        *)
CrcBitShort(crc, bit) ==
  IF (7 \in crc) # bit THEN Xor(Shifted(crc), {0, 2}) ELSE Shifted(crc)

(* One turn of the inner loop: x^8 + x^2 + x + 1.                            *)
CrcBit(crc, bit) ==
  IF (7 \in crc) # bit THEN Xor(Shifted(crc), {0, 1, 2}) ELSE Shifted(crc)

(* Both loops: over the bytes, and over the bits of each.                    *)
ComputeCRC8(pBuf) ==
  LET crc[k \in 0 .. 8 * Len(pBuf)] ==
        IF k = 0 THEN {} ELSE CrcBit(crc[k - 1], BitAt(pBuf, k))
  IN  crc[8 * Len(pBuf)]

ComputeXOR8(pBuf) ==
  LET xor[k \in 0 .. Len(pBuf)] == IF k = 0 THEN {} ELSE Xor(xor[k - 1], pBuf[k])
  IN  xor[Len(pBuf)]

(* The checksum of a message in each mode.  The driver itself only ever      *)
(* sends the CRC, in both modes; the chip answers in the one it is set to.   *)
Checksum(mode, pBuf) ==
  IF mode = "USE_XOR" THEN ComputeXOR8(pBuf) ELSE ComputeCRC8(pBuf)

(* Mutant of Accepts: only a CRC is checked.                                 *)
AcceptsUnlessCrc(mode, pBuf) == mode = "USE_CRC" => ComputeCRC8(pBuf) = {}

(* ReadRegister accepts command, data and checksum that sum up to 0.         *)
Accepts(mode, pBuf) == Checksum(mode, pBuf) = {}

-----------------------------------------------------------------------------
(* Bursts of at most MaxBurst bits, anywhere in a buffer of len bytes: the   *)
(* first bit that is flipped, and others behind it.                          *)
Bursts(len) ==
  UNION {{{first} \cup rest :
            rest \in SUBSET ((first + 1 .. first + MaxBurst - 1) \cap (1 .. 8 * len))}
         : first \in 1 .. 8 * len}

(* A buffer after the bits of a burst have been flipped.                     *)
Flip(pBuf, burst) ==
  [k \in 1 .. Len(pBuf) |-> Xor(pBuf[k], {b \in 0 .. 7 : 8 * k - b \in burst})]

CrcInit ==
  /\ useCRC \in {"USE_CRC", "USE_XOR"}
  /\ msg \in Messages
  /\ buffer = msg
  /\ phase = "built"

Send ==
  /\ phase = "built"
  /\ buffer' = Append(msg, Checksum(useCRC, msg))
  /\ phase' = "sent"
  /\ UNCHANGED <<useCRC, msg>>

Arrive ==
  /\ phase = "sent"
  /\ phase' = "clean"
  /\ UNCHANGED <<useCRC, msg, buffer>>

(* Adjacent bits of the buffer are flipped on the wire.                      *)
Disturb ==
  /\ phase = "sent"
  /\ \E burst \in Bursts(Len(buffer)) : buffer' = Flip(buffer, burst)
  /\ phase' = "disturbed"
  /\ UNCHANGED <<useCRC, msg>>

Received == phase \in {"clean", "disturbed"} /\ UNCHANGED crcVars

CrcNext == Send \/ Arrive \/ Disturb \/ Received

CrcSpec == CrcInit /\ [][CrcNext]_crcVars

-----------------------------------------------------------------------------
(* A polynomial over GF(2) is the set of its exponents; a message of n bytes *)
(* is one of degree below 8 n, and is shifted by 8 for its checksum.         *)
Polynomial(pBuf) == {8 * Len(pBuf) + 8 - k : k \in {j \in 1 .. 8 * Len(pBuf) : BitAt(pBuf, j)}}

(* Long division: its remainder, with exponents below top, by x^8+x^2+x+1.   *)
Remainder(poly, top) ==
  LET r[j \in 0 .. top - 8] ==
        IF j = 0 THEN poly
        ELSE IF top - j \in r[j - 1]
             THEN Xor(r[j - 1], {top - j - 8 + e : e \in {8, 2, 1, 0}})
             ELSE r[j - 1]
  IN  r[top - 8]

(* The bit loop with its 8-bit register computes the remainder of the whole  *)
(* message, shifted by 8, in one polynomial division.                        *)
CrcIsRemainder ==
  phase = "sent" /\ useCRC = "USE_CRC" =>
    buffer[Len(buffer)] = Remainder(Polynomial(msg), 8 * Len(msg) + 8)

(* What an undisturbed chip answers to a read is accepted; a read with a     *)
(* burst of up to 8 flipped bits is refused (COMM_ERR), in either mode,      *)
(* wherever the burst begins.                                                *)
OnlyCleanAccepted ==
  phase \in {"clean", "disturbed"} => (Accepts(useCRC, buffer) <=> phase = "clean")
=============================================================================

SPECIFICATION Spec
CONSTANTS
  Messages <- MCMessages
  MaxBurst = 8
  HalfBits = 4
  ByteSize = 2
INVARIANTS CrcIsRemainder OnlyCleanAccepted FractionReduced WideProductExact FieldRoundTrip SwapTurnsOrder

------------------------------- MODULE NoOsUtil -------------------------------
(* The arithmetic, field and byte-order utilities of no_os_util.c, a call at *)
(* a time; the loops of Euclid and of the long division go turn by turn.     *)
(* A uint32_t has HalfBits bits here, a uint64_t twice as many.              *)
EXTENDS Integers, Sequences

CONSTANTS
  HalfBits,   \* the bits of a uint32_t
  ByteSize    \* how many values a byte has

ASSUME NoOsUtilAssumption ==
  HalfBits \in Nat \ {0, 1} /\ ByteSize \in Nat \ {0, 1}

VARIABLES
  call,    \* the function in progress, then "done"
  arg,     \* its name and arguments
  x, y,    \* its registers: a and b of Euclid, rem and low of the division
  turn,    \* the index of the loop of the division
  ret      \* its result

utilVars == <<call, arg, x, y, turn, ret>>

(* b to the power of k.                                                      *)
Power(b, k) ==
  LET p[j \in Nat] == IF j = 0 THEN 1 ELSE b * p[j - 1] IN p[k]

Half == Power(2, HalfBits)
Full == Half * Half
u32  == 0 .. Half - 1
u64  == 0 .. Full - 1

Larger(a, b) == IF a > b THEN a ELSE b

-----------------------------------------------------------------------------
(* Fields: a word is the set of its bits that are 1.                         *)
BitsOf(n) == {k \in 0 .. HalfBits - 1 : (n \div Power(2, k)) % 2 = 1}

Genmask(h, l) ==
  LET left == HalfBits - (h - l + 1) right == HalfBits - (h + 1)
  IN  {k - right : k \in left .. HalfBits - 1}

FirstSetBit(word) ==
  IF word = {} THEN HalfBits ELSE CHOOSE k \in word : \A j \in word : k <= j

(* Mutant of FieldPrep: shifted to the last bit of the mask.                 *)
FieldPrepLast(mask, val) ==
  {k + (CHOOSE h \in mask : \A j \in mask : j <= h) : k \in BitsOf(val)} \cap mask

FieldPrep(mask, val) == {k + FirstSetBit(mask) : k \in BitsOf(val)} \cap mask
FieldGet(mask, word) == {k - FirstSetBit(mask) : k \in word \cap mask}
FieldMax(mask)       == {k - FirstSetBit(mask) : k \in mask}

-----------------------------------------------------------------------------
(* Bytes: a number of n bytes, most or least significant byte first.         *)
PutBe(n, val) == [k \in 1 .. n |-> (val \div Power(ByteSize, n - k)) % ByteSize]
PutLe(n, val) == [k \in 1 .. n |-> (val \div Power(ByteSize, k - 1)) % ByteSize]

GetBe(buf) ==
  LET v[k \in 0 .. Len(buf)] == IF k = 0 THEN 0 ELSE ByteSize * v[k - 1] + buf[k]
  IN  v[Len(buf)]
GetLe(buf) == GetBe([k \in 1 .. Len(buf) |-> buf[Len(buf) + 1 - k]])

(* Mutant of Memswap64: a block is turned by one byte.                       *)
Memswap64Turned(buf, step) ==
  IF step \notin 2 .. 8 \/ Len(buf) < step \/ Len(buf) % step # 0 THEN buf
  ELSE [k \in 1 .. Len(buf) |-> buf[step * ((k - 1) \div step) + (k % step) + 1]]

Memswap64(buf, step) ==
  IF step \notin 2 .. 8 \/ Len(buf) < step \/ Len(buf) % step # 0 THEN buf
  ELSE [k \in 1 .. Len(buf) |->
          buf[step * ((k - 1) \div step) + step - ((k - 1) % step)]]

-----------------------------------------------------------------------------
(* no_os_rational_best_approximation over no_os_greatest_common_divisor.     *)
Rational(n, d, maxN, maxD) ==
  [fn |-> "rational", n |-> n, d |-> d, maxN |-> maxN, maxD |-> maxD]

(* One turn of Euclid's loop; a zero argument returns the other at once.     *)
GcdBegin(n, d) ==
  IF n = 0 \/ d = 0 THEN x = Larger(n, d) /\ y = 0 ELSE x = n /\ y = d

(* Mutant of GcdTurn: the remainder of the wrong number.                     *)
GcdTurnSwapped ==
  /\ call = "rational" /\ y # 0
  /\ x' = y /\ y' = (IF x = 0 THEN 0 ELSE y % x)
  /\ UNCHANGED <<call, arg, turn, ret>>

GcdTurn ==
  /\ call = "rational" /\ y # 0
  /\ x' = y /\ y' = x % y
  /\ UNCHANGED <<call, arg, turn, ret>>

Reduce ==
  /\ call = "rational" /\ y = 0
  /\ LET best == <<arg.n \div x, arg.d \div x>>
     IN  ret' = IF best[1] > arg.maxN \/ best[2] > arg.maxD THEN <<0, 0>> ELSE best
  /\ call' = "done"
  /\ UNCHANGED <<arg, x, y, turn>>

(* no_os_mul_u64_u32_div: the product in two words, then a bit per turn.     *)
MulDiv(a, mul, div) == [fn |-> "muldiv", a |-> a, mul |-> mul, div |-> div]

Low(a, mul)  == ((a % Half) * mul + (((a \div Half) * mul) % Half) * Half) % Full
High(a, mul) == ((a \div Half) * mul) \div Half + ((a % Half) * mul) \div Half

(* Mutant of DivTurn: a remainder equal to the divisor is kept.              *)
DivTurnStrict ==
  LET rem == (2 * x + y \div (Full \div 2)) % Full
  IN  /\ call = "muldiv" /\ turn < 2 * HalfBits
      /\ y' = (2 * y) % Full
      /\ IF rem > arg.div
         THEN x' = rem - arg.div /\ ret' = ret + Power(2, 2 * HalfBits - 1 - turn)
         ELSE x' = rem /\ UNCHANGED ret
      /\ turn' = turn + 1
      /\ UNCHANGED <<call, arg>>

DivTurn ==
  LET rem == (2 * x + y \div (Full \div 2)) % Full
  IN  /\ call = "muldiv" /\ turn < 2 * HalfBits
      /\ y' = (2 * y) % Full
      /\ IF rem >= arg.div
         THEN x' = rem - arg.div /\ ret' = ret + Power(2, 2 * HalfBits - 1 - turn)
         ELSE x' = rem /\ UNCHANGED ret
      /\ turn' = turn + 1
      /\ UNCHANGED <<call, arg>>

DivEnd ==
  /\ call = "muldiv" /\ turn = 2 * HalfBits
  /\ call' = "done"
  /\ UNCHANGED <<arg, x, y, turn, ret>>

(* no_os_mul_u64_u32_shr.                                                    *)
MulShr(a, mul, shift) ==
  (((a % Half) * mul) \div Power(2, shift)
     + ((a \div Half) * mul) * Power(2, HalfBits - shift)) % Full

-----------------------------------------------------------------------------
(* A fraction 0/0 divides by zero in the code, as a divisor of 0 does, and   *)
(* an empty mask shifts by 32 bits.                                          *)
UtilInit ==
  /\ turn = 0
  /\ \/ \E n, d, maxN, maxD \in u32 :
          /\ n # 0 \/ d # 0
          /\ arg = Rational(n, d, maxN, maxD)
          /\ call = "rational" /\ ret = <<0, 0>> /\ GcdBegin(n, d)
     \/ \E a \in u64, mul \in u32, div \in u32 \ {0} :
          /\ arg = MulDiv(a, mul, div)
          /\ call = "muldiv" /\ ret = 0 /\ x = High(a, mul) /\ y = Low(a, mul)
     \/ /\ call = "done" /\ x = 0 /\ y = 0
        /\ \/ \E a \in u64, mul \in u32, shift \in 0 .. HalfBits :
                 /\ arg = [fn |-> "mulshr", a |-> a, mul |-> mul, shift |-> shift]
                 /\ ret = MulShr(a, mul, shift)
           \/ \E h, l \in 0 .. HalfBits - 1, val \in u32 :
                 /\ l <= h
                 /\ arg = [fn |-> "field", h |-> h, l |-> l, val |-> val]
                 /\ ret = FieldPrep(Genmask(h, l), val)
           \/ \E step \in 2 .. 4 : \E one, two \in 0 .. Power(ByteSize, step) - 1 :
                 /\ arg = [fn |-> "memswap", step |-> step, values |-> <<one, two>>]
                 /\ ret = Memswap64(PutLe(step, one) \o PutLe(step, two), step)

UtilNext == GcdTurn \/ Reduce \/ DivTurn \/ DivEnd \/ (call = "done" /\ UNCHANGED utilVars)

UtilSpec == UtilInit /\ [][UtilNext]_utilVars

-----------------------------------------------------------------------------
Divides(k, n) == \E q \in 0 .. n : k * q = n

(* The approximation is the given fraction in lowest terms, for every order  *)
(* of the two numbers and with one of them 0; it is refused, as 0/0, when    *)
(* the lowest terms are beyond the limits, and then only.                    *)
FractionReduced ==
  call = "done" /\ arg.fn = "rational" =>
    \E g \in 1 .. Larger(arg.n, arg.d) :
      /\ \A k \in 1 .. Larger(arg.n, arg.d) :
            Divides(k, arg.n) /\ Divides(k, arg.d) => k <= g
      /\ Divides(g, arg.n) /\ Divides(g, arg.d)
      /\ IF arg.n > g * arg.maxN \/ arg.d > g * arg.maxD THEN ret = <<0, 0>>
         ELSE g * ret[1] = arg.n /\ g * ret[2] = arg.d

(* Multiplication in two words followed by a division bit by bit, or by a    *)
(* shift, is exact although no word holds the product: the shift modulo 2^64 *)
(* always, the division as long as the product of the low words fits one and *)
(* the quotient fits.  (Beyond that it is wrong: `high` counts the upper     *)
(* half of low_low once more and misses the carry.)                          *)
WideProductExact ==
  call = "done" =>
    /\ arg.fn = "mulshr" => ret = ((arg.a * arg.mul) \div Power(2, arg.shift)) % Full
    /\ arg.fn = "muldiv" /\ (arg.a % Half) * arg.mul < Half
         /\ arg.a * arg.mul < arg.div * Full
       => ret = (arg.a * arg.mul) \div arg.div

(* A value put in a field stays within the mask and is read back, whatever   *)
(* the rest of the word holds, if it is at most field_max; a larger one      *)
(* loses its upper bits and disturbs no other field.                         *)
FieldRoundTrip ==
  arg.fn = "field" =>
    LET mask == Genmask(arg.h, arg.l)
    IN  /\ mask = arg.l .. arg.h
        /\ ret \subseteq mask
        /\ \A rest \in SUBSET (BitsOf(Half - 1) \ mask) :
             FieldGet(mask, ret \cup rest) = BitsOf(arg.val) \cap FieldMax(mask)

(* Swapping a buffer of numbers whose bytes go in one order gives the bytes  *)
(* in the other order, number by number, and swapping it again undoes it;    *)
(* either image reads back as the numbers.                                   *)
SwapTurnsOrder ==
  arg.fn = "memswap" =>
    LET n == arg.step v == arg.values
    IN  /\ ret = PutBe(n, v[1]) \o PutBe(n, v[2])
        /\ Memswap64(ret, n) = PutLe(n, v[1]) \o PutLe(n, v[2])
        /\ GetBe(SubSeq(ret, n + 1, 2 * n)) = v[2]
        /\ GetLe(SubSeq(Memswap64(ret, n), 1, n)) = v[1]
===============================================================================

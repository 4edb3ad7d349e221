------------------------------ MODULE WordsProofs ------------------------------
(* The pure algorithms for words, bytes and messages of any size: Euclid's   *)
(* loop, the product in two words and its long division, the fields and the  *)
(* byte orders of no_os_util.c, and the checksums of the ADC driver.  What a *)
(* loop or a recursive function gives is proved from the least index at      *)
(* which it would not.                                                       *)
EXTENDS Crc8, NoOsUtil, WellFoundedInduction, SequenceTheorems, TLAPS

-----------------------------------------------------------------------------
(* Induction without an operator: a set of numbers has a least one.          *)
LEMMA Least ==
  ASSUME NEW T \in SUBSET Nat, T # {}
  PROVE  \E k \in T : \A j \in T : k <= j
<1> DEFINE less == {ss \in Nat \X Nat : ss[1] < ss[2]}
<1>1. IsWellFoundedOn(less, Nat)
  BY NatLessThanWellFounded DEF OpToRel
<1>2. PICK m \in T : \A l \in T : ~ (<<l, m>> \in less)
  <2> HIDE DEF less
  <2> QED
    BY <1>1, WFMin
<1>3. ASSUME NEW l \in T PROVE m <= l
  <2>1. l \in Nat /\ m \in Nat /\ ~ (l < m)
    BY <1>2
  <2> QED
    BY <2>1
<1> QED
  BY <1>3

(* A set with 0 and, from 0 to n, the successor of each of its numbers.      *)
LEMMA Upwards ==
  ASSUME NEW n \in Nat, NEW T, 0 \in T, \A k \in 0 .. n - 1 : k \in T => k + 1 \in T
  PROVE  0 .. n \subseteq T
<1> DEFINE bad == {k \in 0 .. n : k \notin T}
<1> SUFFICES ASSUME bad # {} PROVE FALSE
  OBVIOUS
<1>1. PICK k \in bad : \A j \in bad : k <= j
  <2>1. bad \in SUBSET Nat
    OBVIOUS
  <2> HIDE DEF bad
  <2> QED
    BY <2>1, Least
<1>2. k \in 0 .. n /\ k \notin T /\ k # 0
  OBVIOUS
<1>3. k - 1 \in 0 .. n - 1 /\ (k - 1) + 1 = k
  BY <1>2
<1>4. k - 1 \in T
  <2>1. k - 1 \in 0 .. n /\ ~(k <= k - 1)
    BY <1>2
  <2> QED
    BY <1>1, <2>1
<1> QED
  BY <1>2, <1>3, <1>4

(* Two functions on the numbers from 0 to n that begin alike and go on alike *)
(* are the same.                                                             *)
Same(f, g, n) == \A k \in 0 .. n : f[k] = g[k]

LEMMA Alike ==
  ASSUME NEW n \in Nat, NEW f, NEW g, f[0] = g[0],
         \A k \in 0 .. n - 1 : f[k] = g[k] => f[k + 1] = g[k + 1]
  PROVE  Same(f, g, n)
<1> DEFINE bad == {k \in 0 .. n : f[k] # g[k]}
<1> SUFFICES ASSUME bad # {} PROVE FALSE
  BY DEF Same
<1>1. PICK k \in bad : \A j \in bad : k <= j
  <2>1. bad \in SUBSET Nat
    OBVIOUS
  <2> HIDE DEF bad
  <2> QED
    BY <2>1, Least
<1>2. k \in 0 .. n /\ f[k] # g[k] /\ k # 0
  OBVIOUS
<1>3. k - 1 \in 0 .. n - 1 /\ k - 1 \in 0 .. n /\ k - 1 \notin bad /\ (k - 1) + 1 = k
  <2>1. k - 1 \in 0 .. n /\ ~(k <= k - 1)
    BY <1>2
  <2> QED
    BY <1>1, <1>2, <2>1
<1>4. f[k - 1] = g[k - 1]
  BY <1>3
<1> QED
  BY <1>2, <1>3, <1>4

(* What a recursive function is: it begins with c and goes on by the step G. *)
Goes(f, n, c, G) == f[0] = c /\ \A k \in 0 .. n - 1 : f[k + 1] = G[<<k, f[k]>>]

LEMMA RecursionUpto ==
  ASSUME NEW S, NEW c \in S, NEW G \in [Nat \X S -> S], NEW n \in Nat
  PROVE  \E g \in [0 .. n -> S] : Goes(g, n, c, G)
<1> DEFINE bad == {m \in Nat : ~ \E g \in [0 .. m -> S] : Goes(g, m, c, G)}
<1> SUFFICES ASSUME bad # {} PROVE FALSE
  OBVIOUS
<1>1. PICK m \in bad : \A j \in bad : m <= j
  <2>1. bad \in SUBSET Nat
    OBVIOUS
  <2> HIDE DEF bad
  <2> QED
    BY <2>1, Least
<1>2. CASE m = 0
  <2> DEFINE g == [k \in 0 .. 0 |-> c]
  <2>1. g \in [0 .. 0 -> S] /\ Goes(g, 0, c, G)
    BY DEF Goes
  <2> HIDE DEF g
  <2> QED
    BY <1>2, <2>1
<1>3. CASE m # 0
  <2>1. m - 1 \in Nat /\ m \in Nat /\ ~(m <= m - 1)
    BY <1>3
  <2>2. PICK g \in [0 .. m - 1 -> S] : Goes(g, m - 1, c, G)
    BY <1>1, <2>1
  <2> DEFINE h == [k \in 0 .. m |-> IF k = m THEN G[<<m - 1, g[m - 1]>>] ELSE g[k]]
  <2>3. g[m - 1] \in S
    BY <2>1
  <2>4. G[<<m - 1, g[m - 1]>>] \in S
    BY <2>1, <2>3
  <2>5. h \in [0 .. m -> S]
    BY <2>1, <2>4
  <2>6. ASSUME NEW k \in 0 .. m - 1 PROVE h[k] = g[k] /\ k + 1 \in 0 .. m
    BY <2>1
  <2>7. h[m] = G[<<m - 1, g[m - 1]>>]
    BY <2>1
  <2>8. 0 \in 0 .. m - 1 /\ m - 1 \in 0 .. m - 1
    BY <2>1, <1>3
  <2>9. h[0] = c
    BY <2>2, <2>6, <2>8 DEF Goes
  <2> HIDE DEF h
  <2>10. ASSUME NEW k \in 0 .. m - 1 PROVE h[k + 1] = G[<<k, h[k]>>]
    <3>1. CASE k = m - 1
      BY <2>1, <2>6, <2>7, <3>1
    <3>2. CASE k # m - 1
      <4>1. k \in 0 .. (m - 1) - 1 /\ k + 1 \in 0 .. m - 1
        BY <2>1, <3>2
      <4> QED
        BY <2>2, <2>6, <4>1 DEF Goes
    <3> QED
      BY <3>1, <3>2
  <2> QED
    BY <2>5, <2>9, <2>10 DEF Goes
<1> QED
  BY <1>2, <1>3

Follows(f, c, G) == f[0] = c /\ \A k \in Nat : f[k + 1] = G[<<k, f[k]>>]

(* Recursion over the numbers, with the step as a function.                  *)
LEMMA Recursion ==
  ASSUME NEW S, NEW c \in S, NEW G \in [Nat \X S -> S]
  PROVE  \E f \in [Nat -> S] : Follows(f, c, G)
<1> DEFINE part(n) == CHOOSE g \in [0 .. n -> S] : Goes(g, n, c, G)
           f == [n \in Nat |-> part(n)[n]]
<1>1. ASSUME NEW n \in Nat PROVE part(n) \in [0 .. n -> S] /\ Goes(part(n), n, c, G)
  BY RecursionUpto
<1> HIDE DEF part
<1>2. f \in [Nat -> S]
  BY <1>1
<1>3. f[0] = c
  BY <1>1 DEF Goes
<1>4. ASSUME NEW k \in Nat PROVE f[k + 1] = G[<<k, f[k]>>]
  <2>1. PICK g, h : g = part(k) /\ h = part(k + 1)
    OBVIOUS
  <2>2. Goes(g, k, c, G) /\ Goes(h, k + 1, c, G)
    BY <1>1, <2>1
  <2>3. ASSUME NEW j \in 0 .. k - 1, g[j] = h[j] PROVE g[j + 1] = h[j + 1]
    <3>1. j \in 0 .. (k + 1) - 1
      OBVIOUS
    <3> QED
      BY <2>2, <2>3, <3>1 DEF Goes
  <2>4. g[0] = h[0]
    BY <2>2 DEF Goes
  <2>5. \A j \in 0 .. k : g[j] = h[j]
    BY <2>3, <2>4, Alike DEF Same
  <2>6. g[k] = h[k] /\ k \in 0 .. (k + 1) - 1
    BY <2>5
  <2>7. h[k + 1] = G[<<k, h[k]>>]
    BY <2>2, <2>6 DEF Goes
  <2>8. f[k] = g[k] /\ f[k + 1] = h[k + 1]
    BY <2>1
  <2> QED
    BY <2>6, <2>7, <2>8
<1> HIDE DEF f
<1> QED
  BY <1>2, <1>3, <1>4 DEF Follows

-----------------------------------------------------------------------------
(* Powers.                                                                   *)
LEMMA PowerLaw ==
  ASSUME NEW b \in Nat \ {0}
  PROVE  /\ Power(b, 0) = 1
         /\ \A k \in Nat : Power(b, k) \in Nat \ {0} /\ Power(b, k + 1) = b * Power(b, k)
<1> DEFINE p[j \in Nat] == IF j = 0 THEN 1 ELSE b * p[j - 1]
           G == [kv \in Nat \X (Nat \ {0}) |-> b * kv[2]]
<1>1. p = CHOOSE q : q = [j \in Nat |-> IF j = 0 THEN 1 ELSE b * q[j - 1]]
  OBVIOUS
<1>2. \A k \in Nat : Power(b, k) = p[k]
  BY DEF Power
<1>3. G \in [Nat \X (Nat \ {0}) -> Nat \ {0}]
  <2>1. \A v \in Nat \ {0} : b * v \in Nat \ {0}
    OBVIOUS
  <2> QED
    BY <2>1
<1>4. PICK f \in [Nat -> Nat \ {0}] : f[0] = 1 /\ \A k \in Nat : f[k + 1] = G[<<k, f[k]>>]
  <2>1. PICK S : S = Nat \ {0}
    OBVIOUS
  <2>2. 1 \in S
    BY <2>1
  <2> HIDE DEF G
  <2>3. PICK H \in [Nat \X S -> S] : H = G
    BY <1>3, <2>1
  <2>5. PICK one \in S : one = 1
    BY <2>2
  <2>4. \E f \in [Nat -> S] : Follows(f, one, H)
    BY Recursion
  <2> QED
    BY <2>1, <2>3, <2>4, <2>5 DEF Follows
<1>5. \A k \in Nat : f[k + 1] = b * f[k]
  BY <1>4
<1>6. f = [j \in Nat |-> IF j = 0 THEN 1 ELSE b * f[j - 1]]
  <2>1. ASSUME NEW j \in Nat PROVE f[j] = IF j = 0 THEN 1 ELSE b * f[j - 1]
    <3>1. j # 0 => j - 1 \in Nat /\ (j - 1) + 1 = j
      OBVIOUS
    <3> QED
      BY <1>4, <1>5, <3>1
  <2> QED
    BY <2>1
<1> HIDE DEF p, G
<1>7. p = [j \in Nat |-> IF j = 0 THEN 1 ELSE b * p[j - 1]]
  BY <1>1, <1>6
<1>8. p[0] = 1 /\ \A k \in Nat : p[k + 1] = b * p[k]
  <2>1. \A k \in Nat : k + 1 \in Nat /\ k + 1 # 0 /\ (k + 1) - 1 = k
    OBVIOUS
  <2> QED
    BY <1>7, <2>1
<1>9. ASSUME NEW k \in Nat PROVE p[k] = f[k]
  <2>1. ASSUME NEW j \in 0 .. k - 1, p[j] = f[j] PROVE p[j + 1] = f[j + 1]
    BY <1>5, <1>8, <2>1
  <2>2. p[0] = f[0]
    BY <1>4, <1>8
  <2>3. \A j \in 0 .. k : p[j] = f[j]
    BY <2>1, <2>2, Alike DEF Same
  <2> QED
    BY <2>3
<1> QED
  BY <1>2, <1>4, <1>8, <1>9

LEMMA PowerSum ==
  ASSUME NEW b \in Nat \ {0}, NEW m \in Nat, NEW n \in Nat
  PROVE  Power(b, m + n) = Power(b, m) * Power(b, n)
<1> DEFINE f == [k \in Nat |-> Power(b, m + k)]
           g == [k \in Nat |-> Power(b, m) * Power(b, k)]
<1>1. f[0] = g[0]
  BY PowerLaw
<1>2. ASSUME NEW k \in 0 .. n - 1, f[k] = g[k] PROVE f[k + 1] = g[k + 1]
  <2>1. k \in Nat /\ m + k \in Nat /\ m + (k + 1) = (m + k) + 1
    OBVIOUS
  <2>2. f[k + 1] = b * f[k]
    BY <2>1, PowerLaw
  <2>3. g[k + 1] = b * g[k]
    BY <2>1, PowerLaw
  <2> QED
    BY <1>2, <2>2, <2>3
<1>3. f[n] = g[n]
  <2> HIDE DEF f, g
  <2>1. \A k \in 0 .. n : f[k] = g[k]
    BY <1>1, <1>2, Alike DEF Same
  <2> QED
    BY <2>1
<1> QED
  BY <1>3

-----------------------------------------------------------------------------

(* Euclid's loop: what it leaves in x is the greatest common divisor, so the *)
(* result is the fraction in lowest terms.  The invariant says that the      *)
(* common divisors of the two registers are those of the two arguments.      *)
IsMultiple(n, k) == \E q \in Nat : k * q = n

Common(k, a, b) == IsMultiple(a, k) /\ IsMultiple(b, k)

LEMMA DividesIsMultiple ==
  ASSUME NEW k \in Nat \ {0}, NEW n \in Nat
  PROVE  Divides(k, n) <=> IsMultiple(n, k)
<1>1. ASSUME NEW q \in Nat, k * q = n PROVE q \in 0 .. n
  <2>1. k * q >= q
    OBVIOUS
  <2> QED
    BY <1>1, <2>1
<1> QED
  BY <1>1 DEF Divides, IsMultiple

LEMMA Division ==
  ASSUME NEW a \in Nat, NEW b \in Nat \ {0}
  PROVE  /\ a \div b \in Nat /\ a % b \in Nat /\ a % b < b
         /\ a = b * (a \div b) + (a % b)
<1>1. b \in Int /\ b > 0
  OBVIOUS
<1>2. a % b \in Int /\ 0 <= a % b /\ a % b < b
  BY <1>1
<1>3. a \div b \in Int /\ a = b * (a \div b) + (a % b)
  BY <1>1
<1>4. a \div b >= 0
  BY <1>1, <1>2, <1>3
<1> QED
  BY <1>2, <1>3, <1>4

LEMMA QuotientOf ==
  ASSUME NEW q \in Nat, NEW g \in Nat \ {0}
  PROVE  (g * q) \div g = q
<1>1. g * q \in Nat
  OBVIOUS
<1> DEFINE p == (g * q) \div g  r == (g * q) % g
<1>2. p \in Nat /\ r \in Nat /\ r < g /\ g * q = g * p + r
  BY <1>1, Division
<1> HIDE DEF p, r
<1>3. g * (q - p) = r
  BY <1>2
<1>4. q - p < 1
  BY <1>2, <1>3
<1>5. q - p > -1
  BY <1>2, <1>3
<1> QED
  BY <1>2, <1>4, <1>5 DEF p

LEMMA MultipleOfDifference ==
  ASSUME NEW k \in Nat \ {0}, NEW a \in Nat, NEW b \in Nat, NEW t \in Nat, NEW r \in Nat,
         a = b * t + r, IsMultiple(b, k)
  PROVE  IsMultiple(a, k) <=> IsMultiple(r, k)
<1>1. PICK v \in Nat : k * v = b
  BY DEF IsMultiple
<1>2. b * t = k * (v * t) /\ v * t \in Nat
  BY <1>1
<1>3. ASSUME NEW u \in Nat, k * u = a PROVE IsMultiple(r, k)
  <2>1. k * (u - v * t) = r
    BY <1>2, <1>3
  <2>2. u - v * t \in Int /\ u - v * t > -1
    BY <1>2, <2>1
  <2> QED
    BY <2>1, <2>2 DEF IsMultiple
<1>4. ASSUME NEW u \in Nat, k * u = r PROVE IsMultiple(a, k)
  <2>1. k * (u + v * t) = a /\ u + v * t \in Nat
    BY <1>2, <1>4
  <2> QED
    BY <2>1 DEF IsMultiple
<1> QED
  BY <1>3, <1>4 DEF IsMultiple

(* One turn of Euclid's loop keeps the common divisors.                      *)
LEMMA EuclidTurn ==
  ASSUME NEW a \in Nat, NEW b \in Nat \ {0}, NEW k \in Nat \ {0}
  PROVE  Common(k, b, a % b) <=> Common(k, a, b)
  BY Division, MultipleOfDifference DEF Common

-----------------------------------------------------------------------------
(* Fields.  The mask of the bits h to l, and a value that goes through it.   *)
LEMMA MaskIs ==
  ASSUME NEW h \in 0 .. HalfBits - 1, NEW l \in 0 .. HalfBits - 1, l <= h
  PROVE  Genmask(h, l) = l .. h
<1>1. HalfBits \in Nat \ {0, 1}
  BY NoOsUtilAssumption
<1> DEFINE left == HalfBits - (h - l + 1)  right == HalfBits - (h + 1)
<1>2. Genmask(h, l) = {k - right : k \in left .. HalfBits - 1}
  BY DEF Genmask
<1>3. ASSUME NEW k \in left .. HalfBits - 1 PROVE k - right \in l .. h
  BY <1>1
<1>4. ASSUME NEW j \in l .. h PROVE j + right \in left .. HalfBits - 1 /\ (j + right) - right = j
  BY <1>1
<1> HIDE DEF left, right
<1> QED
  BY <1>2, <1>3, <1>4

LEMMA FirstOf ==
  ASSUME NEW h \in Nat, NEW l \in Nat, l <= h
  PROVE  FirstSetBit(l .. h) = l
<1>1. l \in l .. h /\ \A j \in l .. h : l <= j
  OBVIOUS
<1>2. ASSUME NEW k \in l .. h, \A j \in l .. h : k <= j PROVE k = l
  BY <1>1, <1>2
<1> DEFINE first == CHOOSE k \in l .. h : \A j \in l .. h : k <= j
<1>3. first = l
  BY <1>1, <1>2
<1>4. l .. h # {}
  BY <1>1
<1> HIDE DEF first
<1> QED
  BY <1>3, <1>4 DEF FirstSetBit, first

LEMMA FieldKept ==
  ASSUME NEW h \in 0 .. HalfBits - 1, NEW l \in 0 .. HalfBits - 1, l <= h, NEW val,
         NEW rest \in SUBSET (Int \ (l .. h))
  PROVE  /\ FieldPrep(l .. h, val) \subseteq l .. h
         /\ FieldGet(l .. h, FieldPrep(l .. h, val) \cup rest)
              = BitsOf(val) \cap FieldMax(l .. h)
<1> DEFINE mask == l .. h  word == FieldPrep(mask, val)  bits == BitsOf(val)
<1>1. h \in Nat /\ l \in Nat
  BY NoOsUtilAssumption
<1>2. FirstSetBit(mask) = l
  BY <1>1, FirstOf
<1>3. bits \subseteq Nat
  BY NoOsUtilAssumption DEF BitsOf
<1>4. /\ word = {k + l : k \in bits} \cap mask
      /\ FieldMax(mask) = {k - l : k \in mask}
      /\ FieldGet(mask, word \cup rest) = {k - l : k \in (word \cup rest) \cap mask}
  BY <1>2, Zenon DEF FieldPrep, FieldMax, FieldGet
<1> HIDE DEF word, bits
<1>5. (word \cup rest) \cap mask = word /\ word \subseteq mask
  BY <1>4
<1>6. ASSUME NEW k \in word PROVE k - l \in bits \cap FieldMax(mask)
  <2>1. PICK b \in bits : k = b + l
    BY <1>4
  <2>2. b \in Nat /\ k - l = b
    BY <1>1, <1>3, <2>1
  <2>3. k \in mask
    BY <1>4
  <2> QED
    BY <1>4, <2>2, <2>3
<1>7. ASSUME NEW b \in bits \cap FieldMax(mask) PROVE \E k \in word : b = k - l
  <2>1. PICK k \in mask : b = k - l
    BY <1>4
  <2>2. k = b + l
    BY <1>1, <2>1
  <2>3. k \in word
    BY <1>4, <2>2
  <2> QED
    BY <2>1, <2>3
<1>8. {k - l : k \in word} = bits \cap FieldMax(mask)
  BY <1>6, <1>7
<1> QED
  BY <1>4, <1>5, <1>8 DEF word, bits

-----------------------------------------------------------------------------
InProgress ==
  call = "rational" =>
    /\ arg.fn = "rational"
    /\ arg.n \in Nat /\ arg.d \in Nat /\ arg.maxN \in Nat /\ arg.maxD \in Nat
    /\ arg.n # 0 \/ arg.d # 0
    /\ x \in Nat \ {0} /\ y \in Nat
    /\ \A k \in Nat \ {0} : Common(k, x, y) <=> Common(k, arg.n, arg.d)

Inv ==
  /\ InProgress
  /\ call = "muldiv" => arg.fn = "muldiv"
  /\ FractionReduced

LEMMA InitInv == UtilInit => Inv
<1> SUFFICES ASSUME UtilInit PROVE Inv
  OBVIOUS
<1>1. ASSUME NEW n \in u32, NEW d \in u32, NEW maxN \in u32, NEW maxD \in u32,
             n # 0 \/ d # 0, arg = Rational(n, d, maxN, maxD),
             call = "rational", GcdBegin(n, d)
      PROVE  Inv
  <2>1. n \in Nat /\ d \in Nat /\ maxN \in Nat /\ maxD \in Nat
    BY DEF u32
  <2>2. /\ arg.fn = "rational" /\ arg.n = n /\ arg.d = d
        /\ arg.maxN = maxN /\ arg.maxD = maxD
    BY <1>1 DEF Rational
  <2>3. CASE n # 0 /\ d # 0
    <3>1. x = n /\ y = d
      BY <1>1, <2>3 DEF GcdBegin
    <3> QED
      BY <1>1, <2>1, <2>2, <2>3, <3>1 DEF Inv, InProgress, FractionReduced
  <2>4. CASE n = 0 \/ d = 0
    <3>1. /\ x \in Nat \ {0} /\ y = 0
          /\ (x = n /\ d = 0) \/ (x = d /\ n = 0)
      BY <1>1, <2>1, <2>4 DEF GcdBegin, Larger
    <3>2. \A k : Common(k, x, y) <=> Common(k, n, d)
      BY <3>1 DEF Common
    <3> QED
      BY <1>1, <2>1, <2>2, <3>1, <3>2 DEF Inv, InProgress, FractionReduced
  <2> QED
    BY <2>3, <2>4
<1>2. CASE call = "muldiv" /\ arg.fn = "muldiv"
  BY <1>2 DEF Inv, InProgress, FractionReduced
<1>3. CASE call = "done" /\ arg.fn \in {"mulshr", "field", "memswap"}
  BY <1>3 DEF Inv, InProgress, FractionReduced
<1> QED
  BY <1>1, <1>2, <1>3 DEF UtilInit, MulDiv

LEMMA TurnKeeps == ASSUME Inv, GcdTurn PROVE Inv'
<1>1. /\ x \in Nat \ {0} /\ y \in Nat \ {0} /\ x' = y /\ y' = x % y
      /\ call' = call /\ arg' = arg /\ ret' = ret /\ call = "rational"
  BY DEF Inv, InProgress, GcdTurn
<1>2. y' \in Nat
  BY <1>1, Division
<1>3. \A k \in Nat \ {0} : Common(k, x', y') <=> Common(k, x, y)
  BY <1>1, EuclidTurn
<1>4. InProgress'
  BY <1>1, <1>2, <1>3 DEF Inv, InProgress
<1> QED
  BY <1>1, <1>4 DEF Inv, FractionReduced

(* A common divisor that every other one divides gives the lowest terms.     *)
LEMMA LowestTerms ==
  ASSUME NEW n \in Nat, NEW d \in Nat, n # 0 \/ d # 0, NEW g \in Nat \ {0},
         \A k \in Nat \ {0} : Common(k, g, 0) <=> Common(k, n, d)
  PROVE  /\ g \in 1 .. Larger(n, d)
         /\ \A k \in 1 .. Larger(n, d) : Divides(k, n) /\ Divides(k, d) => k <= g
         /\ Divides(g, n) /\ Divides(g, d)
         /\ n \div g \in Nat /\ g * (n \div g) = n
         /\ d \div g \in Nat /\ g * (d \div g) = d
<1>1. \A k \in Nat \ {0} : IsMultiple(0, k)
  <2> TAKE k \in Nat \ {0}
  <2>1. k * 0 = 0
    OBVIOUS
  <2> QED
    BY <2>1 DEF IsMultiple
<1>2. IsMultiple(g, g)
  <2>1. g * 1 = g
    OBVIOUS
  <2> QED
    BY <2>1 DEF IsMultiple
<1>3. Common(g, n, d)
  BY <1>1, <1>2 DEF Common
<1>4. Divides(g, n) /\ Divides(g, d)
  BY <1>3, DividesIsMultiple DEF Common
<1>5. PICK p \in Nat : g * p = n
  BY <1>3 DEF Common, IsMultiple
<1>6. PICK q \in Nat : g * q = d
  BY <1>3 DEF Common, IsMultiple
<1>7. n \div g = p /\ d \div g = q
  BY <1>5, <1>6, QuotientOf
<1>8. g \in 1 .. Larger(n, d)
  <2>1. (n # 0 => g <= n) /\ (d # 0 => g <= d)
    BY <1>5, <1>6
  <2> QED
    BY <2>1 DEF Larger
<1>9. ASSUME NEW k \in 1 .. Larger(n, d), Divides(k, n), Divides(k, d)
      PROVE  k <= g
  <2>1. k \in Nat \ {0}
    BY DEF Larger
  <2>2. IsMultiple(g, k)
    BY <1>9, <2>1, DividesIsMultiple DEF Common
  <2>3. PICK u \in Nat : k * u = g
    BY <2>2 DEF IsMultiple
  <2> QED
    BY <2>1, <2>3
<1> QED
  BY <1>4, <1>5, <1>6, <1>7, <1>8, <1>9

LEMMA Comparison ==
  ASSUME NEW g \in Nat \ {0}, NEW p \in Nat, NEW max \in Nat
  PROVE  g * p > g * max <=> p > max
  OBVIOUS

(* The loop is over: x is the greatest common divisor.                       *)
LEMMA ReduceKeeps == ASSUME Inv, Reduce PROVE Inv'
<1>1. /\ arg.n \in Nat /\ arg.d \in Nat /\ arg.maxN \in Nat /\ arg.maxD \in Nat
      /\ arg.n # 0 \/ arg.d # 0
      /\ x \in Nat \ {0} /\ arg.fn = "rational" /\ arg' = arg /\ call' = "done"
      /\ \A k \in Nat \ {0} : Common(k, x, 0) <=> Common(k, arg.n, arg.d)
  BY DEF Inv, InProgress, Reduce
<1>2. /\ x \in 1 .. Larger(arg.n, arg.d)
      /\ \A k \in 1 .. Larger(arg.n, arg.d) :
            Divides(k, arg.n) /\ Divides(k, arg.d) => k <= x
      /\ Divides(x, arg.n) /\ Divides(x, arg.d)
  BY <1>1, LowestTerms
<1>3. PICK n \in Nat, d \in Nat, g \in Nat \ {0} : n = arg.n /\ d = arg.d /\ g = x
  BY <1>1
<1> DEFINE p == n \div g  q == d \div g
<1>4. p \in Nat /\ g * p = n /\ q \in Nat /\ g * q = d
  <2>1. (n # 0 \/ d # 0) /\ \A k \in Nat \ {0} : Common(k, g, 0) <=> Common(k, n, d)
    BY <1>1, <1>3
  <2> QED
    BY <2>1, LowestTerms
<1>5. ret' = IF p > arg.maxN \/ q > arg.maxD THEN <<0, 0>> ELSE <<p, q>>
  BY <1>3 DEF Reduce
<1> HIDE DEF p, q
<1>6. (arg.n > x * arg.maxN <=> p > arg.maxN) /\ (arg.d > x * arg.maxD <=> q > arg.maxD)
  BY <1>1, <1>3, <1>4, Comparison
<1>7. IF arg.n > x * arg.maxN \/ arg.d > x * arg.maxD THEN ret' = <<0, 0>>
      ELSE x * ret'[1] = arg.n /\ x * ret'[2] = arg.d
  BY <1>3, <1>4, <1>5, <1>6
<1>8. FractionReduced'
  BY <1>1, <1>2, <1>7 DEF FractionReduced
<1> QED
  BY <1>1, <1>8 DEF Inv, InProgress

LEMMA NextInv == Inv /\ [UtilNext]_utilVars => Inv'
<1> SUFFICES ASSUME Inv, [UtilNext]_utilVars PROVE Inv'
  OBVIOUS
<1>1. CASE DivTurn
  BY <1>1 DEF DivTurn, Inv, InProgress, FractionReduced
<1>2. CASE DivEnd
  BY <1>2 DEF DivEnd, Inv, InProgress, FractionReduced
<1>3. CASE UNCHANGED utilVars
  BY <1>3 DEF utilVars, Inv, InProgress, FractionReduced
<1> QED
  BY <1>1, <1>2, <1>3, TurnKeeps, ReduceKeeps DEF UtilNext

(* no_os_rational_best_approximation, with words of any width, gives the     *)
(* fraction in lowest terms, or refuses it as 0/0 when these are beyond the  *)
(* limits, whichever way round Euclid's loop is entered.                     *)
THEOREM FractionsAreReduced == UtilSpec => []FractionReduced
<1>1. Inv => FractionReduced
  BY DEF Inv
<1> QED
  BY InitInv, NextInv, <1>1, PTL DEF UtilSpec

-----------------------------------------------------------------------------
(* The calls without a loop: their result is there at once and stays.        *)
Named ==
  /\ call = "rational" => arg.fn = "rational"
  /\ call = "muldiv" => arg.fn = "muldiv"

AtOnce == {"mulshr", "field", "memswap"}

LEMMA InitNamed == UtilInit => Named
  BY DEF UtilInit, Named, Rational, MulDiv

LEMMA StepNamed ==
  ASSUME Named, [UtilNext]_utilVars
  PROVE  Named' /\ arg' = arg /\ (arg.fn \in AtOnce => ret' = ret)
<1>1. CASE GcdTurn
  BY <1>1 DEF GcdTurn, Named
<1>2. CASE Reduce
  BY <1>2 DEF Reduce, Named, AtOnce
<1>3. CASE DivTurn
  BY <1>3 DEF DivTurn, Named, AtOnce
<1>4. CASE DivEnd
  BY <1>4 DEF DivEnd, Named
<1>5. CASE UNCHANGED utilVars
  BY <1>5 DEF utilVars, Named
<1> QED
  BY <1>1, <1>2, <1>3, <1>4, <1>5 DEF UtilNext

(* What a call puts in a field comes out of it.                              *)
LEMMA FieldCall ==
  ASSUME NEW h \in 0 .. HalfBits - 1, NEW l \in 0 .. HalfBits - 1, NEW val, l <= h,
         arg = [fn |-> "field", h |-> h, l |-> l, val |-> val],
         ret = FieldPrep(Genmask(h, l), val)
  PROVE  FieldRoundTrip
<1>1. arg.h = h /\ arg.l = l /\ arg.val = val
  OBVIOUS
<1>2. Genmask(h, l) = l .. h
  BY MaskIs
<1>3. ret = FieldPrep(l .. h, val)
  BY <1>2
<1>4. FieldPrep(l .. h, val) \subseteq l .. h
  BY FieldKept
<1>5. ASSUME NEW rest \in SUBSET (BitsOf(Half - 1) \ (l .. h))
      PROVE  FieldGet(l .. h, ret \cup rest) = BitsOf(val) \cap FieldMax(l .. h)
  <2>1. BitsOf(Half - 1) \subseteq Int
    BY NoOsUtilAssumption DEF BitsOf
  <2>2. rest \in SUBSET (Int \ (l .. h))
    BY <2>1
  <2> QED
    BY <1>3, <2>2, FieldKept
<1> QED
  BY <1>1, <1>2, <1>3, <1>4, <1>5 DEF FieldRoundTrip

LEMMA FieldStart == UtilInit => FieldRoundTrip
<1> SUFFICES ASSUME UtilInit, arg.fn = "field" PROVE FieldRoundTrip
  BY DEF FieldRoundTrip
<1>1. PICK h \in 0 .. HalfBits - 1, l \in 0 .. HalfBits - 1, val \in u32 :
        /\ l <= h
        /\ arg = [fn |-> "field", h |-> h, l |-> l, val |-> val]
        /\ ret = FieldPrep(Genmask(h, l), val)
  BY DEF UtilInit, Rational, MulDiv
<1> QED
  BY <1>1, FieldCall

(* no_os_field_prep and no_os_field_get, with words of any width: a value    *)
(* stays within its mask, is read back whole if it fits, loses its upper     *)
(* bits if not, and never touches another field.                             *)
THEOREM FieldsRoundTrip == UtilSpec => []FieldRoundTrip
<1> DEFINE I == Named /\ FieldRoundTrip
<1>1. UtilInit => I
  BY InitNamed, FieldStart
<1>2. I /\ [UtilNext]_utilVars => I'
  <2> SUFFICES ASSUME I, [UtilNext]_utilVars PROVE I'
    OBVIOUS
  <2>1. Named' /\ arg' = arg /\ (arg.fn = "field" => ret' = ret)
    BY StepNamed DEF AtOnce
  <2>2. FieldRoundTrip'
    BY <2>1 DEF FieldRoundTrip
  <2> QED
    BY <2>1, <2>2
<1>3. I => FieldRoundTrip
  OBVIOUS
<1> QED
  BY <1>1, <1>2, <1>3, PTL DEF UtilSpec

-----------------------------------------------------------------------------
(* Quotients: what SMT does not find by itself about div and %.              *)
LEMMA DivisionIs ==
  ASSUME NEW d \in Nat \ {0}, NEW q \in Int, NEW r \in Nat, r < d
  PROVE  (d * q + r) \div d = q /\ (d * q + r) % d = r
<1> DEFINE n == d * q + r  p == n \div d  s == n % d
<1>1. n \in Int /\ d \in Int /\ d > 0
  OBVIOUS
<1>2. p \in Int /\ s \in Int /\ 0 <= s /\ s < d /\ n = d * p + s
  BY <1>1
<1>3. d * (q - p) = s - r
  BY <1>2
<1> HIDE DEF p, s
<1>4. q - p \in Int /\ d * (q - p) < d * 1 /\ d * (q - p) > d * (-1)
  BY <1>2, <1>3
<1>5. q - p < 1 /\ q - p > -1
  BY <1>4
<1>6. q = p /\ r = s
  BY <1>2, <1>3, <1>5
<1> QED
  BY <1>6 DEF p, s

LEMMA DivisionOfLess ==
  ASSUME NEW d \in Nat \ {0}, NEW r \in Nat, r < d
  PROVE  r \div d = 0 /\ r % d = r
<1>1. PICK q \in Int : q = 0
  OBVIOUS
<1>2. (d * q + r) \div d = q /\ (d * q + r) % d = r
  BY DivisionIs
<1>3. d * q + r = r
  BY <1>1
<1> QED
  BY <1>1, <1>2, <1>3

LEMMA DivisionShifts ==
  ASSUME NEW d \in Nat \ {0}, NEW q \in Nat, NEW n \in Nat
  PROVE  (d * q + n) \div d = q + n \div d
<1>1. n \div d \in Nat /\ n % d \in Nat /\ n % d < d /\ n = d * (n \div d) + (n % d)
  BY Division
<1>2. PICK p \in Nat, r \in Nat : p = n \div d /\ r = n % d
  BY <1>1
<1>3. PICK m \in Int : m = q + p
  OBVIOUS
<1>4. d * q + n = d * m + r /\ r < d
  BY <1>1, <1>2, <1>3
<1>5. (d * m + r) \div d = m
  BY <1>4, DivisionIs
<1> QED
  BY <1>2, <1>3, <1>4, <1>5

LEMMA DivisionTwice ==
  ASSUME NEW n \in Nat, NEW d \in Nat \ {0}, NEW e \in Nat \ {0}
  PROVE  (n \div d) \div e = n \div (d * e)
<1>1. PICK p \in Nat, r \in Nat : p = n \div d /\ r < d /\ n = d * p + r
  BY Division
<1>2. PICK q \in Nat, s \in Nat : q = p \div e /\ s < e /\ p = e * q + s
  BY Division
<1>3. PICK de \in Nat \ {0} : de = d * e
  OBVIOUS
<1>4. PICK t \in Nat : t = d * s + r
  OBVIOUS
<1>5. n = de * q + t
  <2>1. PICK u \in Nat : u = e * q
    OBVIOUS
  <2>2. d * (u + s) = d * u + d * s
    OBVIOUS
  <2>3. d * u = de * q
    BY <1>3, <2>1
  <2>4. d * p = de * q + d * s
    BY <1>2, <2>1, <2>2, <2>3
  <2> QED
    BY <1>1, <1>4, <2>4
<1>6. t < de
  <2>1. d * s <= d * (e - 1)
    BY <1>2
  <2>2. d * (e - 1) = de - d
    BY <1>3
  <2> QED
    BY <1>1, <1>3, <1>4, <2>1, <2>2
<1>7. (de * q + t) \div de = q
  BY <1>6, DivisionIs
<1> QED
  BY <1>1, <1>2, <1>3, <1>5, <1>7

-----------------------------------------------------------------------------
(* The widths: a uint64_t has as many values as two uint32_t together.       *)
LEMMA Widths ==
  /\ HalfBits \in Nat /\ HalfBits > 1
  /\ Half = Power(2, HalfBits) /\ Half \in Nat /\ Half >= 4
  /\ Full = Power(2, 2 * HalfBits) /\ Full \in Nat /\ Full = Half * Half
<1>1. HalfBits \in Nat /\ HalfBits > 1
  BY NoOsUtilAssumption
<1>2. Half = Power(2, HalfBits) /\ Half \in Nat \ {0}
  BY <1>1, PowerLaw DEF Half
<1>3. Full = Half * Half /\ Full \in Nat
  BY <1>2 DEF Full
<1>4. Full = Power(2, 2 * HalfBits)
  <2>1. Power(2, HalfBits + HalfBits) = Power(2, HalfBits) * Power(2, HalfBits)
    BY <1>1, PowerSum
  <2> QED
    BY <1>1, <1>2, <1>3, <2>1
<1>5. Half >= 4
  <2>1. Power(2, 0) = 1 /\ Power(2, 0 + 1) = 2 * Power(2, 0) /\ Power(2, 1 + 1) = 2 * Power(2, 1)
    BY PowerLaw
  <2>2. PICK m \in Nat : m = HalfBits - 2
    BY <1>1
  <2>3. Power(2, 2 + m) = Power(2, 2) * Power(2, m) /\ Power(2, m) \in Nat \ {0}
    BY PowerSum, PowerLaw
  <2>4. Power(2, 2) = 4 /\ 2 + m = HalfBits
    BY <1>1, <2>1, <2>2
  <2> QED
    BY <1>2, <2>3, <2>4
<1> QED
  BY <1>1, <1>2, <1>3, <1>4, <1>5

(* The halves of a uint64_t.                                                 *)
LEMMA Halves ==
  ASSUME NEW a \in u64
  PROVE  /\ a \in Nat /\ a \div Half \in Nat /\ a % Half \in Nat /\ a % Half < Half
         /\ a = Half * (a \div Half) + (a % Half)
<1>1. PICK h \in Nat \ {0} : h = Half
  BY Widths
<1>2. a \in Nat
  BY Widths DEF u64
<1>3. a \div h \in Nat /\ a % h \in Nat /\ a % h < h /\ a = h * (a \div h) + (a % h)
  BY <1>2, Division
<1> QED
  BY <1>1, <1>2, <1>3

(* The product shifted right in its two words, for every operand.            *)
LEMMA ShiftExact ==
  ASSUME NEW a \in u64, NEW mul \in u32, NEW shift \in 0 .. HalfBits
  PROVE  MulShr(a, mul, shift) = ((a * mul) \div Power(2, shift)) % Full
<1>1. PICK high \in Nat, low \in Nat :
        high = a \div Half /\ low = a % Half /\ a = Half * high + low
  BY Halves
<1>2. PICK p \in Nat \ {0}, q \in Nat :
        p = Power(2, shift) /\ q = Power(2, HalfBits - shift) /\ Half = p * q
  <2>1. shift \in Nat /\ HalfBits - shift \in Nat /\ shift + (HalfBits - shift) = HalfBits
    BY Widths
  <2>2. PICK rest \in Nat : rest = HalfBits - shift
    BY <2>1
  <2>3. Power(2, shift + rest) = Power(2, shift) * Power(2, rest)
    BY <2>1, PowerSum
  <2>4. Power(2, shift) \in Nat \ {0} /\ Power(2, rest) \in Nat
    BY <2>1, PowerLaw
  <2> QED
    BY <2>1, <2>2, <2>3, <2>4, Widths
<1>3. mul \in Nat
  BY Widths DEF u32
<1>4. a * mul = p * ((high * mul) * q) + low * mul
  <2>1. a * mul = (p * q) * high * mul + low * mul
    BY <1>1, <1>2, <1>3
  <2> QED
    BY <1>1, <1>2, <1>3, <2>1
<1>5. PICK m \in Nat, n \in Nat : m = (high * mul) * q /\ n = low * mul
  <2>1. high * mul \in Nat /\ low * mul \in Nat
    BY <1>3
  <2>2. (high * mul) * q \in Nat
    BY <2>1
  <2> QED
    BY <2>1, <2>2
<1>6. (p * m + n) \div p = m + n \div p /\ n \div p \in Nat
  BY DivisionShifts, Division
<1>7. MulShr(a, mul, shift) = (n \div p + m) % Full
  BY <1>1, <1>2, <1>5 DEF MulShr
<1> QED
  BY <1>2, <1>4, <1>5, <1>6, <1>7

-----------------------------------------------------------------------------
(* The long division of a product in two words.                              *)
LEMMA TwoWords ==
  ASSUME NEW a \in u64, NEW mul \in u32, (a % Half) * mul < Half
  PROVE  /\ High(a, mul) \in Nat /\ Low(a, mul) \in 0 .. Full - 1
         /\ a * mul = High(a, mul) * Full + Low(a, mul)
<1>1. PICK h \in Nat, l \in Nat : h = a \div Half /\ l = a % Half /\ a = Half * h + l
  BY Halves
<1>2. PICK w \in Nat \ {0} : w = Half /\ Full = w * w
  BY Widths
<1>3. mul \in Nat
  BY Widths DEF u32
<1>4. PICK n \in Nat, m \in Nat : n = h * mul /\ m = l * mul
  <2>1. h * mul \in Nat /\ l * mul \in Nat
    BY <1>3
  <2> QED
    BY <2>1
<1>5. m < w
  BY <1>1, <1>2, <1>4
<1>6. PICK p \in Nat, q \in Nat : p = n \div w /\ q = n % w /\ q < w /\ n = w * p + q
  BY Division
<1>7. PICK v \in Nat : v = m + q * w
  OBVIOUS
<1>8. v < w * w
  <2>1. q * w <= (w - 1) * w
    BY <1>6
  <2>2. (w - 1) * w = w * w - w
    OBVIOUS
  <2> QED
    BY <1>5, <1>7, <2>1, <2>2
<1>9. m \div w = 0
  <2>1. (w * 0 + m) \div w = 0
    BY <1>5, DivisionIs
  <2> QED
    BY <2>1
<1>10. High(a, mul) = p
  <2>1. High(a, mul) = n \div w + m \div w
    BY <1>1, <1>2, <1>4, Zenon DEF High
  <2> QED
    BY <1>6, <1>9, <2>1
<1>11. Low(a, mul) = v
  <2>1. PICK ww \in Nat \ {0} : ww = w * w
    OBVIOUS
  <2>2. (ww * 0 + v) % ww = v
    BY <1>8, <2>1, DivisionIs
  <2>3. Low(a, mul) = v % ww
    BY <1>1, <1>2, <1>4, <1>6, <1>7, <2>1 DEF Low
  <2> QED
    BY <2>1, <2>2, <2>3
<1>12. a * mul = w * n + m
  <2>1. a * mul = (w * h) * mul + l * mul
    BY <1>1, <1>2, <1>3
  <2>2. (w * h) * mul = w * n
    BY <1>3, <1>4
  <2> QED
    BY <1>4, <2>1, <2>2
<1>13. w * n = p * (w * w) + q * w
  <2>1. PICK u \in Nat : u = w * p
    OBVIOUS
  <2>2. w * (u + q) = w * u + w * q
    OBVIOUS
  <2>3. w * u = p * (w * w)
    BY <2>1
  <2> QED
    BY <1>6, <2>1, <2>2, <2>3
<1> QED
  BY <1>2, <1>7, <1>8, <1>10, <1>11, <1>12, <1>13

(* One bit: what is left of the low word is t places up in its register.     *)
BitOf(left, r, t, f) ==
  \E bit \in {0, 1}, rest \in 0 .. r - 1 :
    /\ left = bit * r + rest
    /\ (left * t) \div (f \div 2) = bit
    /\ (2 * (left * t)) % f = rest * (2 * t)

LEMMA BitOut ==
  ASSUME NEW t \in Nat \ {0}, NEW r \in Nat \ {0}, NEW left \in Nat, left < 2 * r,
         NEW f, f = t * (2 * r)
  PROVE  BitOf(left, r, t, f)
<1>1. PICK bit \in {0, 1}, rest \in 0 .. r - 1 : left = bit * r + rest
  <2>1. CASE left < r
    BY <2>1
  <2>2. CASE left >= r
    BY <2>2
  <2> QED
    BY <2>1, <2>2
<1>2. PICK d \in Nat \ {0} : d = t * r /\ f = 2 * d
  BY Zenon, SMT
<1>3. PICK s \in Nat : s = rest * t
  OBVIOUS
<1>4. s < d
  <2>1. rest * t <= (r - 1) * t
    OBVIOUS
  <2>2. (r - 1) * t = t * r - t
    OBVIOUS
  <2> QED
    BY <1>2, <1>3, <2>1, <2>2
<1>5. left * t = d * bit + s
  BY <1>1, <1>2, <1>3
<1>6. f \div 2 = d
  <2>1. (2 * d + 0) \div 2 = d
    BY DivisionIs
  <2> QED
    BY <1>2, <2>1
<1>7. (d * bit + s) \div d = bit
  BY <1>4, DivisionIs
<1>8. (f * bit + 2 * s) % f = 2 * s
  <2>1. f \in Nat \ {0} /\ 2 * s \in Nat /\ 2 * s < f
    BY <1>2, <1>4
  <2> QED
    BY <2>1, DivisionIs
<1>9. 2 * (left * t) = f * bit + 2 * s
  BY <1>2, <1>5
<1>10. 2 * s = rest * (2 * t)
  BY <1>3
<1> QED
  BY <1>1, <1>5, <1>6, <1>7, <1>8, <1>9, <1>10 DEF BitOf

(* The dividend is what has been divided, the remainder of it, and the bits  *)
(* of the low word that are still to come.                                   *)
Fits == (arg.a % Half) * arg.mul < Half /\ arg.a * arg.mul < arg.div * Full

ToCome == Power(2, 2 * HalfBits - turn)

Divided ==
  /\ x \in 0 .. arg.div - 1 /\ ret \in Nat
  /\ \E left \in 0 .. ToCome - 1 :
       /\ y = left * Power(2, turn)
       /\ arg.a * arg.mul = arg.div * ret + x * ToCome + left

LongDivision ==
  call = "muldiv" =>
    /\ arg.fn = "muldiv"
    /\ arg.a \in u64 /\ arg.mul \in u32 /\ arg.div \in u32 \ {0}
    /\ turn \in 0 .. 2 * HalfBits
    /\ Fits => Divided

LEMMA DivisionBegins ==
  ASSUME NEW a \in u64, NEW mul \in u32, NEW div \in u32 \ {0},
         arg = MulDiv(a, mul, div), turn = 0, ret = 0,
         x = High(a, mul), y = Low(a, mul)
  PROVE  LongDivision
<1>1. arg.fn = "muldiv" /\ arg.a = a /\ arg.mul = mul /\ arg.div = div
  BY DEF MulDiv
<1>2. turn \in 0 .. 2 * HalfBits
  BY Widths
<1>3. ASSUME Fits PROVE Divided
  <2>1. /\ x \in Nat /\ y \in 0 .. Full - 1
        /\ a * mul = x * Full + y
    BY <1>1, <1>3, TwoWords DEF Fits
  <2>2. PICK f \in Nat : f = Full
    BY Widths
  <2>3. div \in Nat
    BY Widths DEF u32
  <2>4. x < div
    <3>1. x * f < div * f
      BY <1>1, <1>3, <2>1, <2>2, <2>3 DEF Fits
    <3> QED
      BY <2>1, <2>3, <3>1
  <2>5. ToCome = f
    BY <2>2, Widths DEF ToCome
  <2>6. Power(2, turn) = 1
    BY PowerLaw
  <2> QED
    BY <1>1, <2>1, <2>2, <2>3, <2>4, <2>5, <2>6 DEF Divided
<1> QED
  BY <1>1, <1>2, <1>3 DEF LongDivision

LEMMA DivisionTurns ==
  ASSUME LongDivision, DivTurn
  PROVE  LongDivision'
<1>1. /\ call = "muldiv" /\ arg' = arg /\ turn' = turn + 1 /\ turn < 2 * HalfBits
      /\ arg.fn = "muldiv" /\ turn \in 0 .. 2 * HalfBits
      /\ arg.a \in u64 /\ arg.mul \in u32 /\ arg.div \in u32 \ {0}
  BY DEF LongDivision, DivTurn
<1>2. turn \in Nat /\ turn' \in 0 .. 2 * HalfBits
  BY <1>1, Widths
<1>3. ASSUME Fits PROVE Divided'
  <2>1. Divided
    BY <1>1, <1>3 DEF LongDivision
  <2>2. PICK t \in Nat \ {0}, r \in Nat \ {0} :
          /\ t = Power(2, turn) /\ 2 * t = Power(2, turn')
          /\ r = Power(2, 2 * HalfBits - 1 - turn) /\ 2 * r = ToCome /\ r = ToCome'
          /\ Full = t * (2 * r)
    <3>1. PICK m \in Nat : m = 2 * HalfBits - 1 - turn
      BY <1>1, <1>2, Widths
    <3>2. Power(2, m) \in Nat \ {0} /\ Power(2, m + 1) = 2 * Power(2, m)
      BY PowerLaw
    <3>3. Power(2, turn) \in Nat \ {0} /\ Power(2, turn + 1) = 2 * Power(2, turn)
      <4>1. PICK k \in Nat : k = turn
        BY <1>2
      <4>2. Power(2, k) \in Nat \ {0} /\ Power(2, k + 1) = 2 * Power(2, k)
        BY PowerLaw
      <4> QED
        BY <4>1, <4>2
    <3>4. Power(2, turn + (m + 1)) = Power(2, turn) * Power(2, m + 1)
      BY <1>2, PowerSum
    <3>5. m + 1 = 2 * HalfBits - turn /\ turn + (m + 1) = 2 * HalfBits
          /\ m = 2 * HalfBits - turn'
      BY <1>1, <1>2, <3>1, Widths
    <3> QED
      BY <1>1, <3>1, <3>2, <3>3, <3>4, <3>5, Widths DEF ToCome
  <2>3. PICK left \in 0 .. 2 * r - 1 :
          y = left * t /\ arg.a * arg.mul = arg.div * ret + x * (2 * r) + left
    BY <2>1, <2>2 DEF Divided
  <2>4. PICK bit \in {0, 1}, rest \in 0 .. r - 1 :
          /\ left = bit * r + rest
          /\ y \div (Full \div 2) = bit
          /\ (2 * y) % Full = rest * (2 * t)
    <3>1. left \in Nat /\ left < 2 * r
      OBVIOUS
    <3>2. PICK f : f = Full /\ f = t * (2 * r)
      BY <2>2
    <3>3. BitOf(left, r, t, f)
      BY <3>1, <3>2, BitOut
    <3> QED
      BY <2>3, <3>2, <3>3, Zenon DEF BitOf
  <2>5. PICK d \in Nat : d = arg.div /\ d < Half
    BY <1>1, Widths DEF u32
  <2>6. x \in 0 .. d - 1 /\ ret \in Nat
    BY <2>1, <2>5 DEF Divided
  <2>7. PICK rem \in Nat : rem = 2 * x + bit /\ rem < 2 * d
    BY <2>6
  <2>8. (2 * x + y \div (Full \div 2)) % Full = rem
    <3>1. PICK f \in Nat : f = Full /\ rem < f /\ f # 0
      <4>1. Half * Half >= 4 * Half
        BY Widths
      <4> QED
        BY <2>5, <2>7, <4>1, Widths
    <3>2. (f * 0 + rem) % f = rem
      BY <3>1, DivisionIs
    <3> QED
      BY <2>4, <2>7, <3>1, <3>2
  <2>9. y' = rest * Power(2, turn')
    BY <2>2, <2>4 DEF DivTurn
  <2>10. arg.a * arg.mul = d * ret + rem * r + rest
    <3>1. x * (2 * r) + bit * r = rem * r
      BY <2>6, <2>7
    <3> QED
      BY <2>3, <2>4, <2>5, <2>6, <3>1
  <2>11. CASE rem >= d
    <3>1. x' = rem - d /\ ret' = ret + r
      BY <2>2, <2>5, <2>8, <2>11 DEF DivTurn
    <3>2. d * (ret + r) + (rem - d) * r = d * ret + rem * r
      BY <2>6
    <3>3. arg.a * arg.mul = d * ret' + x' * r + rest
      BY <2>10, <3>1, <3>2
    <3>4. x' \in 0 .. d - 1 /\ ret' \in Nat
      BY <2>6, <2>7, <2>11, <3>1
    <3> QED
      BY <1>1, <2>2, <2>5, <2>9, <3>3, <3>4 DEF Divided
  <2>12. CASE rem < d
    <3>1. x' = rem /\ ret' = ret
      BY <2>5, <2>8, <2>12 DEF DivTurn
    <3>2. x' \in 0 .. d - 1 /\ ret' \in Nat
      BY <2>6, <2>12, <3>1
    <3> QED
      BY <1>1, <2>2, <2>5, <2>9, <2>10, <3>1, <3>2 DEF Divided
  <2> QED
    BY <2>7, <2>11, <2>12
<1>4. Fits' => Fits
  BY <1>1 DEF Fits
<1> QED
  BY <1>1, <1>2, <1>3, <1>4 DEF LongDivision

LEMMA DivisionEnds ==
  ASSUME LongDivision, DivEnd
  PROVE  WideProductExact'
<1>1. /\ call = "muldiv" /\ arg' = arg /\ ret' = ret /\ turn = 2 * HalfBits
      /\ arg.fn = "muldiv" /\ arg.div \in u32 \ {0}
  BY DEF LongDivision, DivEnd
<1>2. ASSUME Fits PROVE ret = (arg.a * arg.mul) \div arg.div
  <2>1. Divided
    BY <1>1, <1>2 DEF LongDivision
  <2>2. ToCome = 1
    <3>1. Power(2, 0) = 1 /\ 2 * HalfBits - turn = 0
      BY <1>1, PowerLaw, Widths
    <3> QED
      BY <3>1 DEF ToCome
  <2>3. PICK d \in Nat \ {0} : d = arg.div
    BY <1>1, Widths DEF u32
  <2>4. x \in Nat /\ x < d /\ ret \in Nat /\ arg.a * arg.mul = d * ret + x
    BY <2>1, <2>2, <2>3 DEF Divided
  <2>5. (d * ret + x) \div d = ret
    BY <2>4, DivisionIs
  <2> QED
    BY <2>3, <2>4, <2>5
<1> QED
  BY <1>1, <1>2 DEF WideProductExact, Fits

(* Multiplication in two words is exact: followed by a shift always, by a    *)
(* division bit by bit when the low words' product fits one word and the     *)
(* quotient fits two.  Widths and operands are any.                          *)
THEOREM WideProductsAreExact == UtilSpec => []WideProductExact
<1> DEFINE I == Named /\ LongDivision /\ WideProductExact
<1>1. UtilInit => I
  <2> SUFFICES ASSUME UtilInit PROVE I
    OBVIOUS
  <2>1. Named /\ turn = 0
    BY InitNamed DEF UtilInit
  <2>2. ASSUME call = "muldiv" PROVE LongDivision
    <3>1. PICK a \in u64, mul \in u32, div \in u32 \ {0} :
            /\ arg = MulDiv(a, mul, div)
            /\ ret = 0 /\ x = High(a, mul) /\ y = Low(a, mul)
      BY <2>2 DEF UtilInit
    <3> QED
      BY <2>1, <3>1, DivisionBegins
  <2>3. LongDivision
    BY <2>2 DEF LongDivision
  <2>4. ASSUME call = "done", arg.fn = "mulshr"
        PROVE  ret = ((arg.a * arg.mul) \div Power(2, arg.shift)) % Full
    <3>1. PICK a \in u64, mul \in u32, shift \in 0 .. HalfBits :
            /\ arg = [fn |-> "mulshr", a |-> a, mul |-> mul, shift |-> shift]
            /\ ret = MulShr(a, mul, shift)
      BY <2>4 DEF UtilInit
    <3>2. arg.a = a /\ arg.mul = mul /\ arg.shift = shift
      BY <3>1
    <3> QED
      BY <3>1, <3>2, ShiftExact
  <2>5. call = "done" => arg.fn # "muldiv"
    BY DEF UtilInit
  <2> QED
    BY <2>1, <2>3, <2>4, <2>5 DEF WideProductExact
<1>2. I /\ [UtilNext]_utilVars => I'
  <2> SUFFICES ASSUME I, [UtilNext]_utilVars PROVE I'
    OBVIOUS
  <2>1. Named'
    BY StepNamed
  <2>2. CASE GcdTurn
    BY <2>1, <2>2 DEF GcdTurn, LongDivision, WideProductExact
  <2>3. CASE Reduce
    BY <2>1, <2>3 DEF Reduce, Named, LongDivision, WideProductExact
  <2>4. CASE DivTurn
    <3>1. WideProductExact'
      BY <2>4 DEF DivTurn, WideProductExact
    <3> QED
      BY <2>1, <2>4, <3>1, DivisionTurns
  <2>5. CASE DivEnd
    <3>1. LongDivision'
      BY <2>5 DEF DivEnd, LongDivision
    <3> QED
      BY <2>1, <2>5, <3>1, DivisionEnds
  <2>6. CASE UNCHANGED utilVars
    BY <2>1, <2>6 DEF utilVars, LongDivision, WideProductExact, Fits, Divided, ToCome
  <2> QED
    BY <2>2, <2>3, <2>4, <2>5, <2>6 DEF UtilNext
<1>3. I => WideProductExact
  OBVIOUS
<1> QED
  BY <1>1, <1>2, <1>3, PTL DEF UtilSpec

-----------------------------------------------------------------------------
(* Bytes.  A number read from its bytes, and a buffer of two turned numbers. *)
Reads(v, n, buf) ==
  /\ v[0] = 0 /\ v[n] = GetBe(buf)
  /\ \A k \in 0 .. n - 1 : v[k + 1] = ByteSize * v[k] + buf[k + 1]

LEMMA GetBeLaw ==
  ASSUME NEW n \in Nat, NEW buf \in [1 .. n -> Nat], Len(buf) = n
  PROVE  \E v : Reads(v, n, buf)
<1> DEFINE v[k \in 0 .. n] == IF k = 0 THEN 0 ELSE ByteSize * v[k - 1] + buf[k]
           G == [kw \in Nat \X Nat |->
                   ByteSize * kw[2] + (IF kw[1] < n THEN buf[kw[1] + 1] ELSE 0)]
<1>1. v = CHOOSE w : w = [k \in 0 .. n |->
                            IF k = 0 THEN 0 ELSE ByteSize * w[k - 1] + buf[k]]
  OBVIOUS
<1>2. GetBe(buf) = v[n]
  BY DEF GetBe
<1>3. G \in [Nat \X Nat -> Nat]
  <2>1. ASSUME NEW k \in Nat, NEW w \in Nat
        PROVE  ByteSize * w + (IF k < n THEN buf[k + 1] ELSE 0) \in Nat
    <3>1. (IF k < n THEN buf[k + 1] ELSE 0) \in Nat
      OBVIOUS
    <3> QED
      BY <3>1, NoOsUtilAssumption
  <2> QED
    BY <2>1
<1>4. PICK f \in [Nat -> Nat] : Follows(f, 0, G)
  <2> HIDE DEF G
  <2>1. 0 \in Nat
    OBVIOUS
  <2> QED
    BY <1>3, <2>1, Recursion
<1>5. f[0] = 0 /\ \A k \in 0 .. n - 1 : f[k + 1] = ByteSize * f[k] + buf[k + 1]
  <2>1. ASSUME NEW k \in 0 .. n - 1 PROVE f[k + 1] = ByteSize * f[k] + buf[k + 1]
    <3>1. k \in Nat /\ k < n /\ f[k] \in Nat
      OBVIOUS
    <3>2. G[<<k, f[k]>>] = ByteSize * f[k] + buf[k + 1]
      BY <3>1
    <3> HIDE DEF G
    <3> QED
      BY <1>4, <3>1, <3>2 DEF Follows
  <2> HIDE DEF G
  <2> QED
    BY <1>4, <2>1 DEF Follows
<1>6. [k \in 0 .. n |-> f[k]]
        = [k \in 0 .. n |-> IF k = 0 THEN 0
                           ELSE ByteSize * [j \in 0 .. n |-> f[j]][k - 1] + buf[k]]
  <2>1. ASSUME NEW k \in 0 .. n, k # 0
        PROVE  f[k] = ByteSize * f[k - 1] + buf[k] /\ k - 1 \in 0 .. n
    <3>1. k - 1 \in 0 .. n - 1 /\ (k - 1) + 1 = k
      BY <2>1
    <3> QED
      BY <1>5, <3>1
  <2> QED
    BY <1>5, <2>1
<1> HIDE DEF v, G
<1>7. v = [k \in 0 .. n |-> IF k = 0 THEN 0 ELSE ByteSize * v[k - 1] + buf[k]]
  <2>1. PICK g : g = [k \in 0 .. n |-> f[k]]
    OBVIOUS
  <2>2. g = [k \in 0 .. n |-> IF k = 0 THEN 0 ELSE ByteSize * g[k - 1] + buf[k]]
    BY <1>6, <2>1, Zenon
  <2> QED
    BY <1>1, <2>2
<1>8. v[0] = 0
  BY <1>7
<1>9. ASSUME NEW k \in 0 .. n - 1 PROVE v[k + 1] = ByteSize * v[k] + buf[k + 1]
  <2>1. k + 1 \in 0 .. n /\ k + 1 # 0 /\ (k + 1) - 1 = k
    OBVIOUS
  <2> QED
    BY <1>7, <2>1
<1> QED
  BY <1>2, <1>8, <1>9 DEF Reads

(* The bytes of a number, most significant first, read back as the number.   *)
LEMMA BytesRead ==
  ASSUME NEW n \in Nat, NEW val \in 0 .. Power(ByteSize, n) - 1
  PROVE  GetBe(PutBe(n, val)) = val
<1>1. PICK b \in Nat \ {0} : b = ByteSize
  BY NoOsUtilAssumption
<1>2. val \in Nat /\ \A k \in Nat : Power(b, k) \in Nat \ {0}
  <2>1. \A k \in Nat : Power(b, k) \in Nat \ {0}
    BY PowerLaw
  <2>2. Power(ByteSize, n) \in Nat
    BY <1>1, <2>1
  <2> QED
    BY <2>1, <2>2
<1> DEFINE buf == PutBe(n, val)
           g == [k \in 0 .. n |-> val \div Power(b, n - k)]
<1>3. /\ buf \in [1 .. n -> Nat] /\ Len(buf) = n
      /\ \A k \in 1 .. n : buf[k] = (val \div Power(b, n - k)) % b
  <2>1. buf = [k \in 1 .. n |-> (val \div Power(b, n - k)) % b]
    BY <1>1 DEF PutBe
  <2>2. ASSUME NEW k \in 1 .. n PROVE (val \div Power(b, n - k)) % b \in Nat
    <3>1. PICK p \in Nat \ {0} : p = Power(b, n - k)
      BY <1>2
    <3>2. val \div p \in Nat
      BY <1>2, Division
    <3>3. (val \div p) % b \in Nat
      BY <3>2, Division
    <3> QED
      BY <3>1, <3>3
  <2> HIDE DEF buf
  <2> QED
    BY <2>1, <2>2
<1> HIDE DEF buf
<1>4. PICK v : /\ v[0] = 0 /\ v[n] = GetBe(buf)
              /\ \A k \in 0 .. n - 1 : v[k + 1] = b * v[k] + buf[k + 1]
  <2>1. PICK v : Reads(v, n, buf)
    BY <1>3, GetBeLaw
  <2> QED
    BY <1>1, <2>1 DEF Reads
<1>5. g[0] = 0
  <2>1. PICK p \in Nat \ {0} : p = Power(b, n)
    BY <1>2
  <2>2. val < p
    BY <1>1, <2>1
  <2>3. val \div p = 0
    BY <1>2, <2>2, DivisionOfLess
  <2> QED
    BY <2>1, <2>3
<1>6. g[n] = val
  <2>1. Power(b, 0) = 1
    BY PowerLaw
  <2>2. val \div 1 = val
    BY <1>2
  <2> QED
    BY <2>1, <2>2
<1>7. ASSUME NEW k \in 0 .. n - 1, v[k] = g[k] PROVE v[k + 1] = g[k + 1]
  <2>1. PICK m \in Nat : m = n - (k + 1)
    OBVIOUS
  <2>2. PICK p \in Nat \ {0} : p = Power(b, m)
    BY <1>2
  <2>3. Power(b, n - k) = b * p
    <3>1. Power(b, m + 1) = b * Power(b, m)
      BY PowerLaw
    <3> QED
      BY <2>1, <2>2, <3>1
  <2>4. PICK w \in Nat : w = val \div p
    BY <1>2, Division
  <2>5. w \div b \in Nat /\ w = b * (w \div b) + (w % b)
    BY Division
  <2>6. w \div b = val \div (p * b)
    BY <1>2, <2>4, DivisionTwice
  <2>7. k \in 0 .. n /\ k + 1 \in 0 .. n /\ k + 1 \in 1 .. n
    OBVIOUS
  <2>8. g[k] = w \div b
    <3>1. p * b = b * p
      OBVIOUS
    <3> QED
      BY <2>3, <2>6, <2>7, <3>1
  <2>9. g[k + 1] = w
    BY <2>1, <2>2, <2>4, <2>7
  <2>10. buf[k + 1] = w % b
    BY <1>3, <2>1, <2>2, <2>4, <2>7
  <2> HIDE DEF g
  <2> QED
    BY <1>4, <1>7, <2>5, <2>8, <2>9, <2>10
<1> HIDE DEF g
<1>8. \A k \in 0 .. n : v[k] = g[k]
  <2>1. v[0] = g[0]
    BY <1>4, <1>5
  <2> QED
    BY <1>7, <2>1, Alike DEF Same
<1> QED
  BY <1>4, <1>6, <1>8 DEF buf

Turned(s) == [k \in 1 .. Len(s) |-> s[Len(s) + 1 - k]]

LEMMA OrdersTurn ==
  ASSUME NEW n \in Nat, NEW val
  PROVE  /\ DOMAIN PutBe(n, val) = 1 .. n /\ Len(PutBe(n, val)) = n
         /\ DOMAIN PutLe(n, val) = 1 .. n /\ Len(PutLe(n, val)) = n
         /\ \A k \in 1 .. n : PutLe(n, val)[k] = PutBe(n, val)[n + 1 - k]
         /\ \A k \in 1 .. n : PutBe(n, val)[k] = PutLe(n, val)[n + 1 - k]
         /\ Turned(PutLe(n, val)) = PutBe(n, val)
<1> DEFINE be == PutBe(n, val)  le == PutLe(n, val)
<1>1. /\ be = [k \in 1 .. n |-> (val \div Power(ByteSize, n - k)) % ByteSize]
      /\ le = [k \in 1 .. n |-> (val \div Power(ByteSize, k - 1)) % ByteSize]
  BY DEF PutBe, PutLe
<1> HIDE DEF be, le
<1>2. DOMAIN be = 1 .. n /\ DOMAIN le = 1 .. n /\ Len(be) = n /\ Len(le) = n
  BY <1>1
<1>3. ASSUME NEW k \in 1 .. n PROVE le[k] = be[n + 1 - k] /\ be[k] = le[n + 1 - k]
  <2>1. n + 1 - k \in 1 .. n /\ n - (n + 1 - k) = k - 1 /\ (n + 1 - k) - 1 = n - k
    OBVIOUS
  <2> QED
    BY <1>1, <2>1
<1>4. Turned(le) = be
  <2>1. Turned(le) = [k \in 1 .. n |-> le[n + 1 - k]]
    BY <1>2 DEF Turned
  <2> QED
    BY <1>1, <1>2, <1>3, <2>1
<1> QED
  BY <1>2, <1>3, <1>4 DEF be, le

LEMMA TwoOfThem ==
  ASSUME NEW n \in Nat, NEW s \in Seq(Int), NEW t \in Seq(Int), Len(s) = n, Len(t) = n
  PROVE  /\ s \o t \in Seq(Int) /\ Len(s \o t) = 2 * n
         /\ DOMAIN (s \o t) = 1 .. 2 * n
         /\ \A k \in 1 .. n : (s \o t)[k] = s[k] /\ (s \o t)[n + k] = t[k]
<1>1. PICK m \in Nat : m = Len(s) /\ m = Len(t) /\ m = n
  OBVIOUS
<1>2. /\ s \o t \in Seq(Int) /\ Len(s \o t) = m + m
      /\ \A i \in 1 .. m + m : (s \o t)[i] = IF i <= m THEN s[i] ELSE t[i - m]
  BY <1>1, ConcatProperties
<1>3. ASSUME NEW k \in 1 .. n PROVE (s \o t)[k] = s[k] /\ (s \o t)[n + k] = t[k]
  <2>1. k \in 1 .. m + m /\ m + k \in 1 .. m + m /\ k <= m /\ ~(m + k <= m) /\ (m + k) - m = k
    BY <1>1
  <2> QED
    BY <1>1, <1>2, <2>1
<1>4. DOMAIN (s \o t) = 1 .. Len(s \o t)
  BY <1>2
<1> QED
  BY <1>1, <1>2, <1>3, <1>4

LEMMA FirstOfThem ==
  ASSUME NEW n \in Nat, NEW s \in Seq(Int), NEW t \in Seq(Int), Len(s) = n, Len(t) = n
  PROVE  SubSeq(s \o t, 1, n) = s
<1>1. PICK st :
        /\ st = s \o t
        /\ \A k \in 1 .. n : st[k] = s[k]
  <2>1. \A k \in 1 .. n : (s \o t)[k] = s[k]
    BY TwoOfThem
  <2> QED
    BY <2>1, Zenon
<1>2. s \in [1 .. n -> Int]
  BY LenProperties
<1>3. \A k \in 1 .. n : st[k] \in Int
  BY <1>1, <1>2
<1>4. PICK sub \in Seq(Int) :
        /\ sub = SubSeq(st, 1, n) /\ Len(sub) = n
        /\ \A k \in 1 .. n : sub[k] = st[k]
  <2>1. PICK m \in Int : m = 1
    OBVIOUS
  <2>2. \A k \in m .. n : st[k] \in Int
    BY <1>3, <2>1
  <2>3. /\ SubSeq(st, m, n) \in Seq(Int)
        /\ Len(SubSeq(st, m, n)) = IF m <= n THEN n - m + 1 ELSE 0
        /\ \A i \in 1 .. n - m + 1 : SubSeq(st, m, n)[i] = st[m + i - 1]
    BY <2>2, SubSeqProperties
  <2>4. PICK sub : sub = SubSeq(st, m, n)
    OBVIOUS
  <2>5. ASSUME NEW k \in 1 .. n PROVE sub[k] = st[k]
    <3>1. k \in 1 .. n - m + 1 /\ m + k - 1 = k
      BY <2>1
    <3> QED
      BY <2>3, <2>4, <3>1
  <2>6. Len(sub) = n
    BY <2>1, <2>3, <2>4
  <2> QED
    BY <2>1, <2>3, <2>4, <2>5, <2>6
<1>5. sub \in [1 .. n -> Int]
  BY <1>4, LenProperties
<1> QED
  BY <1>1, <1>2, <1>4, <1>5

LEMMA SecondOfThem ==
  ASSUME NEW n \in Nat, NEW s \in Seq(Int), NEW t \in Seq(Int), Len(s) = n, Len(t) = n
  PROVE  SubSeq(s \o t, n + 1, 2 * n) = t
<1>1. PICK st :
        /\ st = s \o t
        /\ \A k \in 1 .. n : st[n + k] = t[k]
  <2>1. \A k \in 1 .. n : (s \o t)[n + k] = t[k]
    BY TwoOfThem
  <2> QED
    BY <2>1, Zenon
<1>2. t \in [1 .. n -> Int]
  BY LenProperties
<1>3. PICK m \in Int, e \in Int : m = n + 1 /\ e = 2 * n
  OBVIOUS
<1>4. \A i \in m .. e : st[i] \in Int
  <2> TAKE i \in m .. e
  <2>1. PICK k \in 1 .. n : i = n + k
    <3>1. i - n \in 1 .. n /\ i = n + (i - n)
      BY <1>3
    <3> QED
      BY <3>1
  <2> QED
    BY <1>1, <1>2, <2>1
<1>5. /\ SubSeq(st, m, e) \in Seq(Int)
      /\ Len(SubSeq(st, m, e)) = IF m <= e THEN e - m + 1 ELSE 0
      /\ \A i \in 1 .. e - m + 1 : SubSeq(st, m, e)[i] = st[m + i - 1]
  BY <1>4, SubSeqProperties
<1>6. PICK sub : sub = SubSeq(st, m, e)
  OBVIOUS
<1>7. ASSUME NEW k \in 1 .. n PROVE sub[k] = t[k]
  <2>1. k \in 1 .. e - m + 1 /\ m + k - 1 = n + k
    BY <1>3
  <2> QED
    BY <1>1, <1>5, <1>6, <2>1
<1>8. sub \in Seq(Int) /\ Len(sub) = n
  BY <1>3, <1>5, <1>6
<1>9. sub \in [1 .. n -> Int]
  BY <1>8, LenProperties
<1> QED
  BY <1>1, <1>2, <1>3, <1>6, <1>7, <1>9

(* Two numbers of n bytes, each turned round by a swap.                      *)
Swaps(n, s, t, u, w) == Memswap64(s \o t, n) = u \o w

IsTurned(u, s, n) == \A k \in 1 .. n : u[k] = s[n + 1 - k]

LEMMA SwapTwo ==
  ASSUME NEW n \in Nat, n \in 2 .. 8, NEW s \in Seq(Int), NEW t \in Seq(Int),
         NEW u \in Seq(Int), NEW w \in Seq(Int),
         Len(s) = n, Len(t) = n, Len(u) = n, Len(w) = n,
         IsTurned(u, s, n), IsTurned(w, t, n)
  PROVE  Swaps(n, s, t, u, w)
<1>1. PICK buf :
        /\ buf = s \o t /\ Len(buf) = 2 * n
        /\ \A k \in 1 .. n : buf[k] = s[k] /\ buf[n + k] = t[k]
  <2>1. /\ Len(s \o t) = 2 * n
        /\ \A k \in 1 .. n : (s \o t)[k] = s[k] /\ (s \o t)[n + k] = t[k]
    BY TwoOfThem
  <2> QED
    BY <2>1, Zenon
<1>2. PICK out :
        /\ out = u \o w /\ out \in Seq(Int) /\ Len(out) = 2 * n
        /\ \A k \in 1 .. n : out[k] = u[k] /\ out[n + k] = w[k]
  <2>1. /\ u \o w \in Seq(Int) /\ Len(u \o w) = 2 * n
        /\ \A k \in 1 .. n : (u \o w)[k] = u[k] /\ (u \o w)[n + k] = w[k]
    BY TwoOfThem
  <2> QED
    BY <2>1, Zenon
<1>3. (2 * n) % n = 0 /\ ~(2 * n < n)
  <2>1. (n * 2 + 0) % n = 0
    BY DivisionIs
  <2> QED
    BY <2>1
<1>4. Memswap64(buf, n)
        = [k \in 1 .. 2 * n |-> buf[n * ((k - 1) \div n) + n - ((k - 1) % n)]]
  BY <1>1, <1>3, Zenon DEF Memswap64
<1>5. ASSUME NEW k \in 1 .. 2 * n
      PROVE  buf[n * ((k - 1) \div n) + n - ((k - 1) % n)] = out[k]
  <2>1. CASE k <= n
    <3>1. PICK j \in Nat : j = k - 1 /\ j < n
      BY <2>1
    <3>2. j \div n = 0 /\ j % n = j
      <4>1. n \in Nat \ {0}
        OBVIOUS
      <4> QED
        BY <3>1, <4>1, DivisionOfLess
    <3>3. n * ((k - 1) \div n) + n - ((k - 1) % n) = n + 1 - k
      BY <3>1, <3>2
    <3>4. k \in 1 .. n /\ n + 1 - k \in 1 .. n
      BY <2>1
    <3>5. out[k] = u[k] /\ u[k] = s[n + 1 - k] /\ buf[n + 1 - k] = s[n + 1 - k]
      BY <1>1, <1>2, <3>4 DEF IsTurned
    <3> QED
      BY <3>3, <3>5
  <2>2. CASE k > n
    <3>1. PICK j \in Nat : j = k - 1 - n /\ j < n
      BY <2>2
    <3>2. (n * 1 + j) \div n = 1 /\ (n * 1 + j) % n = j
      BY <3>1, DivisionIs
    <3>3. n * ((k - 1) \div n) + n - ((k - 1) % n) = n + (n - j)
      BY <3>1, <3>2
    <3>4. n - j \in 1 .. n /\ j + 1 \in 1 .. n /\ n + (j + 1) = k /\ n + 1 - (j + 1) = n - j
      BY <3>1
    <3>5. out[k] = w[j + 1] /\ w[j + 1] = t[n - j] /\ buf[n + (n - j)] = t[n - j]
      BY <1>1, <1>2, <3>4 DEF IsTurned
    <3> QED
      BY <3>3, <3>5
  <2> QED
    BY <2>1, <2>2
<1>6. out = [k \in 1 .. 2 * n |-> out[k]]
  <2>1. out \in [1 .. Len(out) -> Int]
    BY <1>2, LenProperties
  <2> QED
    BY <1>2, <2>1, Zenon
<1>7. [k \in 1 .. 2 * n |-> buf[n * ((k - 1) \div n) + n - ((k - 1) % n)]]
        = [k \in 1 .. 2 * n |-> out[k]]
  BY <1>5
<1> QED
  BY <1>1, <1>2, <1>4, <1>6, <1>7 DEF Swaps

(* The bytes of a number are natural numbers.                                *)
LEMMA BytesAre ==
  ASSUME NEW n \in Nat, NEW val \in Nat
  PROVE  PutBe(n, val) \in Seq(Nat) /\ PutLe(n, val) \in Seq(Nat)
<1>1. ASSUME NEW k \in Nat PROVE (val \div Power(ByteSize, k)) % ByteSize \in Nat
  <2>1. PICK b \in Nat \ {0} : b = ByteSize
    BY NoOsUtilAssumption
  <2>2. PICK p \in Nat \ {0} : p = Power(b, k)
    BY PowerLaw
  <2>3. val \div p \in Nat
    BY Division
  <2>4. (val \div p) % b \in Nat
    BY <2>3, Division
  <2> QED
    BY <2>1, <2>2, <2>4
<1>2. ASSUME NEW k \in 1 .. n PROVE n - k \in Nat /\ k - 1 \in Nat
  OBVIOUS
<1>3. PutBe(n, val) \in [1 .. n -> Nat] /\ PutLe(n, val) \in [1 .. n -> Nat]
  BY <1>1, <1>2 DEF PutBe, PutLe
<1> QED
  BY <1>3

LEMMA SwapCall ==
  ASSUME NEW n \in Nat, n \in 2 .. 8,
         NEW one \in 0 .. Power(ByteSize, n) - 1, NEW two \in 0 .. Power(ByteSize, n) - 1
  PROVE  LET be == PutBe(n, one) \o PutBe(n, two)
             le == PutLe(n, one) \o PutLe(n, two)
         IN  /\ Memswap64(le, n) = be /\ Memswap64(be, n) = le
             /\ GetBe(SubSeq(be, n + 1, 2 * n)) = two
             /\ GetLe(SubSeq(le, 1, n)) = one
<1>1. one \in Nat /\ two \in Nat
  <2>1. Power(ByteSize, n) \in Nat
    BY PowerLaw, NoOsUtilAssumption
  <2> QED
    BY <2>1
<1>2. PICK b1, l1, b2, l2 :
        b1 = PutBe(n, one) /\ l1 = PutLe(n, one) /\ b2 = PutBe(n, two) /\ l2 = PutLe(n, two)
  OBVIOUS
<1>3. /\ b1 \in Seq(Nat) /\ l1 \in Seq(Nat) /\ b2 \in Seq(Nat) /\ l2 \in Seq(Nat)
      /\ Len(b1) = n /\ Len(l1) = n /\ Len(b2) = n /\ Len(l2) = n
      /\ IsTurned(b1, l1, n) /\ IsTurned(l1, b1, n) /\ IsTurned(b2, l2, n) /\ IsTurned(l2, b2, n)
      /\ Turned(l1) = b1
  BY <1>1, <1>2, BytesAre, OrdersTurn DEF IsTurned
<1>4. b1 \in Seq(Int) /\ l1 \in Seq(Int) /\ b2 \in Seq(Int) /\ l2 \in Seq(Int)
  BY <1>3
<1>5. Memswap64(l1 \o l2, n) = b1 \o b2
  <2>1. Swaps(n, l1, l2, b1, b2)
    BY <1>3, <1>4, SwapTwo
  <2> QED
    BY <2>1 DEF Swaps
<1>6. Memswap64(b1 \o b2, n) = l1 \o l2
  <2>1. Swaps(n, b1, b2, l1, l2)
    BY <1>3, <1>4, SwapTwo
  <2> QED
    BY <2>1 DEF Swaps
<1>7. SubSeq(b1 \o b2, n + 1, 2 * n) = b2
  BY <1>3, <1>4, SecondOfThem
<1>8. SubSeq(l1 \o l2, 1, n) = l1
  BY <1>3, <1>4, FirstOfThem
<1>9. GetBe(b1) = one /\ GetBe(b2) = two
  BY <1>2, BytesRead
<1>10. GetLe(l1) = GetBe(Turned(l1))
  BY DEF GetLe, Turned
<1> QED
  BY <1>2, <1>3, <1>5, <1>6, <1>7, <1>8, <1>9, <1>10

LEMMA SwapStart == UtilInit => SwapTurnsOrder
<1> SUFFICES ASSUME UtilInit, arg.fn = "memswap" PROVE SwapTurnsOrder
  BY DEF SwapTurnsOrder
<1>1. PICK n \in 2 .. 4 : \E one, two \in 0 .. Power(ByteSize, n) - 1 :
        /\ arg = [fn |-> "memswap", step |-> n, values |-> <<one, two>>]
        /\ ret = Memswap64(PutLe(n, one) \o PutLe(n, two), n)
  BY DEF UtilInit, Rational, MulDiv
<1>2. PICK one \in 0 .. Power(ByteSize, n) - 1, two \in 0 .. Power(ByteSize, n) - 1 :
        /\ arg = [fn |-> "memswap", step |-> n, values |-> <<one, two>>]
        /\ ret = Memswap64(PutLe(n, one) \o PutLe(n, two), n)
  BY <1>1
<1>3. arg.step = n /\ arg.values[1] = one /\ arg.values[2] = two
  BY <1>2
<1>4. n \in Nat /\ n \in 2 .. 8
  OBVIOUS
<1>5. PICK be, le :
        be = PutBe(n, one) \o PutBe(n, two) /\ le = PutLe(n, one) \o PutLe(n, two)
  OBVIOUS
<1>6. /\ Memswap64(le, n) = be /\ Memswap64(be, n) = le
      /\ GetBe(SubSeq(be, n + 1, 2 * n)) = two
      /\ GetLe(SubSeq(le, 1, n)) = one
  BY <1>4, <1>5, SwapCall
<1>7. ret = be
  BY <1>2, <1>5, <1>6, Zenon
<1> QED
  BY <1>3, <1>5, <1>6, <1>7 DEF SwapTurnsOrder

(* no_os_memswap64 turns a buffer of numbers from one byte order to the      *)
(* other and back, and no_os_get_unaligned reads either image as the numbers *)
(* that were put, for bytes and numbers of any size.                         *)
THEOREM SwapsTurnTheOrder == UtilSpec => []SwapTurnsOrder
<1> DEFINE I == Named /\ SwapTurnsOrder
<1>1. UtilInit => I
  BY InitNamed, SwapStart
<1>2. I /\ [UtilNext]_utilVars => I'
  <2> SUFFICES ASSUME I, [UtilNext]_utilVars PROVE I'
    OBVIOUS
  <2>1. Named' /\ arg' = arg /\ (arg.fn = "memswap" => ret' = ret)
    BY StepNamed DEF AtOnce
  <2>2. SwapTurnsOrder'
    BY <2>1 DEF SwapTurnsOrder
  <2> QED
    BY <2>1, <2>2
<1>3. I => SwapTurnsOrder
  OBVIOUS
<1> QED
  BY <1>1, <1>2, <1>3, PTL DEF UtilSpec

-----------------------------------------------------------------------------
(* The CRC register, a bit of the message at a time.                         *)
LEMMA ShiftedBits ==
  ASSUME NEW c \in Byte, NEW i \in 0 .. 7
  PROVE  i \in Shifted(c) <=> i # 0 /\ i - 1 \in c
<1>1. c \subseteq 0 .. 7
  BY DEF Byte
<1>2. ASSUME i \in Shifted(c) PROVE i # 0 /\ i - 1 \in c
  <2>1. PICK j \in c \ {7} : i = j + 1
    BY <1>2 DEF Shifted
  <2> QED
    BY <1>1, <2>1
<1>3. ASSUME i # 0, i - 1 \in c PROVE i \in Shifted(c)
  <2>1. i - 1 \in c \ {7} /\ i = (i - 1) + 1
    BY <1>3
  <2> QED
    BY <2>1 DEF Shifted
<1> QED
  BY <1>2, <1>3

LEMMA ShiftedByte ==
  ASSUME NEW c \in Byte
  PROVE  Shifted(c) \in Byte
<1>1. ASSUME NEW i \in c \ {7} PROVE i + 1 \in 0 .. 7
  BY DEF Byte
<1> QED
  BY <1>1 DEF Shifted, Byte

LEMMA XorByte ==
  ASSUME NEW c \in Byte, NEW d \in Byte
  PROVE  Xor(c, d) \in Byte
  BY DEF Xor, Byte

LEMMA CrcBitByte ==
  ASSUME NEW c \in Byte, NEW bit
  PROVE  CrcBit(c, bit) \in Byte
<1>1. {0, 1, 2} \in Byte
  BY DEF Byte
<1> QED
  BY <1>1, ShiftedByte, XorByte DEF CrcBit

(* Which bits the register has after a turn, by whether it is divided.       *)
LEMMA Divides8 ==
  ASSUME NEW c \in Byte, NEW bit \in BOOLEAN, (7 \in c) # bit, NEW i \in 0 .. 7
  PROVE  i \in CrcBit(c, bit) <=> ~ (i \in {0, 1, 2} <=> i # 0 /\ i - 1 \in c)
<1>1. CrcBit(c, bit) = Xor(Shifted(c), {0, 1, 2})
  BY DEF CrcBit
<1> QED
  BY <1>1, ShiftedBits DEF Xor

LEMMA Shifts8 ==
  ASSUME NEW c \in Byte, NEW bit \in BOOLEAN, (7 \in c) = bit, NEW i \in 0 .. 7
  PROVE  i \in CrcBit(c, bit) <=> i # 0 /\ i - 1 \in c
<1>1. CrcBit(c, bit) = Shifted(c)
  BY DEF CrcBit
<1> QED
  BY <1>1, ShiftedBits

(* The register is linear: two computations differ by a computation on what  *)
(* they differ in.                                                           *)
LEMMA Linear ==
  ASSUME NEW c \in Byte, NEW d \in Byte, NEW bit \in BOOLEAN, NEW other \in BOOLEAN
  PROVE  Xor(CrcBit(c, bit), CrcBit(d, other)) = CrcBit(Xor(c, d), bit # other)
<1> DEFINE cd == Xor(c, d)  differ == (bit # other)
<1>1. /\ cd \in Byte /\ differ \in BOOLEAN
      /\ \A i : i \in cd <=> ~ (i \in c <=> i \in d)
  BY XorByte DEF Xor
<1>2. CrcBit(c, bit) \in Byte /\ CrcBit(d, other) \in Byte /\ CrcBit(cd, differ) \in Byte
  BY <1>1, CrcBitByte
<1>3. ((7 \in cd) # differ) <=> ~ (((7 \in c) # bit) <=> ((7 \in d) # other))
  BY <1>1
<1> HIDE DEF cd, differ
<1>4. ASSUME NEW i \in 0 .. 7
      PROVE  i \in CrcBit(cd, differ) <=> ~ (i \in CrcBit(c, bit) <=> i \in CrcBit(d, other))
  <2>1. CASE (7 \in c) # bit /\ (7 \in d) # other
    <3>1. (7 \in cd) = differ
      BY <1>1, <1>3, <2>1
    <3> QED
      BY <1>1, <2>1, <3>1, Divides8, Shifts8
  <2>2. CASE (7 \in c) # bit /\ (7 \in d) = other
    <3>1. (7 \in cd) # differ
      BY <1>1, <1>3, <2>2
    <3> QED
      BY <1>1, <2>2, <3>1, Divides8, Shifts8
  <2>3. CASE (7 \in c) = bit /\ (7 \in d) # other
    <3>1. (7 \in cd) # differ
      BY <1>1, <1>3, <2>3
    <3> QED
      BY <1>1, <2>3, <3>1, Divides8, Shifts8
  <2>4. CASE (7 \in c) = bit /\ (7 \in d) = other
    <3>1. (7 \in cd) = differ
      BY <1>1, <1>3, <2>4
    <3> QED
      BY <1>1, <2>4, <3>1, Shifts8
  <2> QED
    BY <2>1, <2>2, <2>3, <2>4
<1>5. ASSUME NEW i
      PROVE  i \in Xor(CrcBit(c, bit), CrcBit(d, other)) <=> i \in CrcBit(cd, differ)
  <2>1. CASE i \in 0 .. 7
    BY <1>4, <2>1 DEF Xor
  <2>2. CASE i \notin 0 .. 7
    BY <1>2, <2>2 DEF Xor, Byte
  <2> QED
    BY <2>1, <2>2
<1>6. Xor(CrcBit(c, bit), CrcBit(d, other)) = CrcBit(cd, differ)
  BY <1>5
<1> QED
  BY <1>6 DEF cd, differ

(* The three loops over a buffer, as what each turn makes of the one before. *)
CrcOf(c, n, buf) ==
  /\ c[0] = {} /\ c[n] = ComputeCRC8(buf)
  /\ \A k \in 0 .. n : c[k] \in Byte
  /\ \A k \in 0 .. n - 1 : c[k + 1] = CrcBit(c[k], BitAt(buf, k + 1))

LEMMA CrcLaw ==
  ASSUME NEW buf, NEW n \in Nat, n = 8 * Len(buf)
  PROVE  \E c : CrcOf(c, n, buf)
<1> DEFINE v[k \in 0 .. n] == IF k = 0 THEN {} ELSE CrcBit(v[k - 1], BitAt(buf, k))
           G == [kw \in Nat \X Byte |-> CrcBit(kw[2], BitAt(buf, kw[1] + 1))]
<1>1. v = CHOOSE w : w = [k \in 0 .. n |->
                            IF k = 0 THEN {} ELSE CrcBit(w[k - 1], BitAt(buf, k))]
  OBVIOUS
<1>2. ComputeCRC8(buf) = v[n]
  BY DEF ComputeCRC8
<1>3. G \in [Nat \X Byte -> Byte]
  BY CrcBitByte
<1>4. PICK g \in [0 .. n -> Byte] : Goes(g, n, {}, G)
  <2> HIDE DEF G
  <2>1. PICK zero \in Byte : zero = {}
    BY DEF Byte
  <2>2. \E g \in [0 .. n -> Byte] : Goes(g, n, zero, G)
    BY <1>3, RecursionUpto
  <2> QED
    BY <2>1, <2>2
<1>5. g[0] = {} /\ \A k \in 0 .. n - 1 : g[k + 1] = CrcBit(g[k], BitAt(buf, k + 1))
  <2>1. ASSUME NEW k \in 0 .. n - 1 PROVE g[k + 1] = CrcBit(g[k], BitAt(buf, k + 1))
    <3>1. k \in Nat /\ g[k] \in Byte
      OBVIOUS
    <3>2. G[<<k, g[k]>>] = CrcBit(g[k], BitAt(buf, k + 1))
      BY <3>1
    <3> HIDE DEF G
    <3> QED
      BY <1>4, <3>2 DEF Goes
  <2> HIDE DEF G
  <2> QED
    BY <1>4, <2>1 DEF Goes
<1> HIDE DEF v, G
<1>6. g = [k \in 0 .. n |-> IF k = 0 THEN {} ELSE CrcBit(g[k - 1], BitAt(buf, k))]
  <2>1. ASSUME NEW k \in 0 .. n, k # 0 PROVE g[k] = CrcBit(g[k - 1], BitAt(buf, k))
    <3>1. k - 1 \in 0 .. n - 1 /\ (k - 1) + 1 = k
      BY <2>1
    <3> QED
      BY <1>5, <3>1
  <2> QED
    BY <1>5, <2>1
<1>7. v = [k \in 0 .. n |-> IF k = 0 THEN {} ELSE CrcBit(v[k - 1], BitAt(buf, k))]
  BY <1>1, <1>6
<1>8. v[0] = {}
  BY <1>7
<1>9. ASSUME NEW k \in 0 .. n - 1 PROVE v[k + 1] = CrcBit(v[k], BitAt(buf, k + 1))
  <2>1. k + 1 \in 0 .. n /\ k + 1 # 0 /\ (k + 1) - 1 = k
    OBVIOUS
  <2> QED
    BY <1>7, <2>1
<1>10. \A k \in 0 .. n : v[k] = g[k]
  <2>1. ASSUME NEW k \in 0 .. n - 1, v[k] = g[k] PROVE v[k + 1] = g[k + 1]
    BY <1>5, <1>9, <2>1
  <2>2. v[0] = g[0]
    BY <1>5, <1>8
  <2>3. Same(v, g, n)
    BY <2>1, <2>2, Alike
  <2> QED
    BY <2>3 DEF Same
<1> QED
  BY <1>2, <1>8, <1>9, <1>10 DEF CrcOf

XorOf(c, n, buf) ==
  /\ c[0] = {} /\ c[n] = ComputeXOR8(buf)
  /\ \A k \in 0 .. n : c[k] \in Byte
  /\ \A k \in 0 .. n - 1 : c[k + 1] = Xor(c[k], buf[k + 1])

LEMMA XorLaw ==
  ASSUME NEW buf, NEW n \in Nat, n = Len(buf), \A k \in 1 .. n : buf[k] \in Byte
  PROVE  \E c : XorOf(c, n, buf)
<1> DEFINE v[k \in 0 .. n] == IF k = 0 THEN {} ELSE Xor(v[k - 1], buf[k])
           G == [kw \in Nat \X Byte |->
                   IF kw[1] < n THEN Xor(kw[2], buf[kw[1] + 1]) ELSE {}]
<1>1. v = CHOOSE w : w = [k \in 0 .. n |-> IF k = 0 THEN {} ELSE Xor(w[k - 1], buf[k])]
  OBVIOUS
<1>2. ComputeXOR8(buf) = v[n]
  BY DEF ComputeXOR8
<1>3. G \in [Nat \X Byte -> Byte]
  <2>1. ASSUME NEW k \in Nat, NEW w \in Byte
        PROVE  (IF k < n THEN Xor(w, buf[k + 1]) ELSE {}) \in Byte
    <3>1. CASE k < n
      <4>1. k + 1 \in 1 .. n
        BY <3>1
      <4> QED
        BY <3>1, <4>1, XorByte
    <3>2. CASE ~ (k < n)
      BY <3>2 DEF Byte
    <3> QED
      BY <3>1, <3>2
  <2> QED
    BY <2>1
<1>4. PICK g \in [0 .. n -> Byte] : Goes(g, n, {}, G)
  <2> HIDE DEF G
  <2>1. PICK zero \in Byte : zero = {}
    BY DEF Byte
  <2>2. \E g \in [0 .. n -> Byte] : Goes(g, n, zero, G)
    BY <1>3, RecursionUpto
  <2> QED
    BY <2>1, <2>2
<1>5. g[0] = {} /\ \A k \in 0 .. n - 1 : g[k + 1] = Xor(g[k], buf[k + 1])
  <2>1. ASSUME NEW k \in 0 .. n - 1 PROVE g[k + 1] = Xor(g[k], buf[k + 1])
    <3>1. k \in Nat /\ k < n /\ g[k] \in Byte
      OBVIOUS
    <3>2. G[<<k, g[k]>>] = Xor(g[k], buf[k + 1])
      BY <3>1
    <3> HIDE DEF G
    <3> QED
      BY <1>4, <3>2 DEF Goes
  <2> HIDE DEF G
  <2> QED
    BY <1>4, <2>1 DEF Goes
<1> HIDE DEF v, G
<1>6. g = [k \in 0 .. n |-> IF k = 0 THEN {} ELSE Xor(g[k - 1], buf[k])]
  <2>1. ASSUME NEW k \in 0 .. n, k # 0 PROVE g[k] = Xor(g[k - 1], buf[k])
    <3>1. k - 1 \in 0 .. n - 1 /\ (k - 1) + 1 = k
      BY <2>1
    <3> QED
      BY <1>5, <3>1
  <2> QED
    BY <1>5, <2>1
<1>7. v = [k \in 0 .. n |-> IF k = 0 THEN {} ELSE Xor(v[k - 1], buf[k])]
  BY <1>1, <1>6
<1>8. v[0] = {}
  BY <1>7
<1>9. ASSUME NEW k \in 0 .. n - 1 PROVE v[k + 1] = Xor(v[k], buf[k + 1])
  <2>1. k + 1 \in 0 .. n /\ k + 1 # 0 /\ (k + 1) - 1 = k
    OBVIOUS
  <2> QED
    BY <1>7, <2>1
<1>10. \A k \in 0 .. n : v[k] = g[k]
  <2>1. ASSUME NEW k \in 0 .. n - 1, v[k] = g[k] PROVE v[k + 1] = g[k + 1]
    BY <1>5, <1>9, <2>1
  <2>2. v[0] = g[0]
    BY <1>5, <1>8
  <2>3. Same(v, g, n)
    BY <2>1, <2>2, Alike
  <2> QED
    BY <2>3 DEF Same
<1> QED
  BY <1>2, <1>8, <1>9, <1>10 DEF XorOf

(* The bits of a buffer, of a buffer with a byte more, of a disturbed one.   *)
LEMMA BitPlace ==
  ASSUME NEW n \in Nat, NEW k \in 1 .. 8 * n
  PROVE  /\ (k - 1) \div 8 + 1 \in 1 .. n
         /\ 8 * ((k - 1) \div 8 + 1) - k \in 0 .. 7
<1>1. PICK d \in Int : d = (k - 1) \div 8 /\ 8 * d <= k - 1 /\ k - 1 < 8 * d + 8
  OBVIOUS
<1>2. d >= 0 /\ d < n
  BY <1>1
<1> QED
  BY <1>1, <1>2

LEMMA BitIs ==
  ASSUME NEW pBuf, NEW k
  PROVE  BitAt(pBuf, k) \in BOOLEAN
  BY DEF BitAt

LEMMA BitOfOne ==
  ASSUME NEW pBuf, NEW n \in Nat, NEW j \in 1 .. 8
  PROVE  BitAt(pBuf, 8 * n + j) <=> 8 - j \in pBuf[n + 1]
<1>1. (8 * n + j - 1) \div 8 = n
  OBVIOUS
<1>2. 8 * (n + 1) - (8 * n + j) = 8 - j
  OBVIOUS
<1> QED
  BY <1>1, <1>2 DEF BitAt

LEMMA BitOfLonger ==
  ASSUME NEW n \in Nat, NEW s, NEW t, \A i \in 1 .. n : s[i] = t[i], NEW k \in 1 .. 8 * n
  PROVE  BitAt(s, k) <=> BitAt(t, k)
<1>1. PICK byte \in 1 .. n : byte = (k - 1) \div 8 + 1
  BY BitPlace
<1>2. s[byte] = t[byte]
  BY <1>1
<1> QED
  BY <1>1, <1>2 DEF BitAt

LEMMA BitOfFlipped ==
  ASSUME NEW n \in Nat, NEW s, Len(s) = n, NEW burst, NEW k \in 1 .. 8 * n
  PROVE  BitAt(Flip(s, burst), k) <=> (BitAt(s, k) # (k \in burst))
<1>1. PICK byte \in 1 .. n, b \in 0 .. 7 : byte = (k - 1) \div 8 + 1 /\ b = 8 * byte - k
  BY BitPlace
<1>2. Flip(s, burst)[byte] = Xor(s[byte], {i \in 0 .. 7 : 8 * byte - i \in burst})
  BY DEF Flip
<1>3. 8 * byte - b = k
  BY <1>1
<1>4. b \in {i \in 0 .. 7 : 8 * byte - i \in burst} <=> k \in burst
  BY <1>3
<1>5. b \in Flip(s, burst)[byte] <=> ~ (b \in s[byte] <=> k \in burst)
  BY <1>2, <1>4, Zenon DEF Xor
<1>6. /\ BitAt(s, k) <=> b \in s[byte]
      /\ BitAt(Flip(s, burst), k) <=> b \in Flip(s, burst)[byte]
  BY <1>1, Zenon DEF BitAt
<1>7. BitAt(s, k) \in BOOLEAN
  BY BitIs
<1> QED
  BY <1>5, <1>6, <1>7

LEMMA FlipLength ==
  ASSUME NEW s, NEW n \in Nat, Len(s) = n, NEW burst
  PROVE  Len(Flip(s, burst)) = n
<1>1. PICK t : t = [k \in 1 .. n |-> Xor(s[k], {b \in 0 .. 7 : 8 * k - b \in burst})]
  OBVIOUS
<1>2. Len(t) = n
  BY <1>1
<1> QED
  BY <1>1, <1>2 DEF Flip

(* A message with its CRC sums up to 0: the CRC is shifted out bit by bit.   *)
LEMMA CrcOfClean ==
  ASSUME NEW m, NEW n \in Nat, Len(m) = n, NEW s, Len(s) = n + 1,
         \A i \in 1 .. n : s[i] = m[i], s[n + 1] = ComputeCRC8(m)
  PROVE  ComputeCRC8(s) = {}
<1>1. PICK top \in Nat, end \in Nat : top = 8 * n /\ end = top + 8
  OBVIOUS
<1>2. PICK c : CrcOf(c, top, m)
  BY <1>1, CrcLaw
<1>3. PICK d : CrcOf(d, end, s)
  <2>1. end = 8 * Len(s)
    BY <1>1
  <2> QED
    BY <2>1, CrcLaw
<1>4. ASSUME NEW k \in 0 .. top - 1, c[k] = d[k] PROVE c[k + 1] = d[k + 1]
  <2>1. k + 1 \in 1 .. top /\ k \in 0 .. end - 1
    BY <1>1
  <2>2. BitAt(m, k + 1) = BitAt(s, k + 1)
    <3>1. \A i \in 1 .. n : m[i] = s[i]
      OBVIOUS
    <3>2. BitAt(m, k + 1) <=> BitAt(s, k + 1)
      BY <1>1, <2>1, <3>1, BitOfLonger
    <3> QED
      BY <3>2, BitIs
  <2>3. c[k + 1] = CrcBit(c[k], BitAt(m, k + 1)) /\ d[k + 1] = CrcBit(d[k], BitAt(s, k + 1))
    BY <1>2, <1>3, <2>1 DEF CrcOf
  <2> QED
    BY <1>4, <2>2, <2>3
<1>5. PICK crc \in Byte : crc = ComputeCRC8(m) /\ d[top] = crc
  <2>1. c[0] = d[0]
    BY <1>2, <1>3 DEF CrcOf
  <2>2. Same(c, d, top)
    BY <1>4, <2>1, Alike
  <2> QED
    BY <1>2, <2>2 DEF CrcOf, Same
<1> DEFINE f == [j \in 0 .. 8 |-> d[top + j]]
           g == [j \in 0 .. 8 |-> {i \in 0 .. 7 : i - j \in crc}]
<1>6. f[0] = g[0]
  BY <1>5 DEF Byte
<1>7. ASSUME NEW j \in 0 .. 7, f[j] = g[j] PROVE f[j + 1] = g[j + 1]
  <2>1. top + j \in 0 .. end - 1 /\ (top + j) + 1 = top + (j + 1)
    BY <1>1
  <2>2. d[top + (j + 1)] = CrcBit(d[top + j], BitAt(s, top + (j + 1))) /\ d[top + j] \in Byte
    BY <1>3, <2>1 DEF CrcOf
  <2>3. d[top + j] = {i \in 0 .. 7 : i - j \in crc}
    BY <1>7
  <2>4. (7 \in d[top + j]) = BitAt(s, top + (j + 1))
    <3>1. BitAt(s, 8 * n + (j + 1)) <=> 8 - (j + 1) \in crc
      <4>1. PICK h \in 1 .. 8 : h = j + 1
        OBVIOUS
      <4>2. BitAt(s, 8 * n + h) <=> 8 - h \in s[n + 1]
        BY BitOfOne
      <4> QED
        BY <1>5, <4>1, <4>2
    <3>2. 7 \in d[top + j] <=> 7 - j \in crc
      BY <2>3
    <3>3. 8 - (j + 1) = 7 - j
      OBVIOUS
    <3> QED
      BY <1>1, <3>1, <3>2, <3>3, BitIs
  <2>5. PICK bit \in BOOLEAN, e \in Byte :
          bit = BitAt(s, top + (j + 1)) /\ e = d[top + j] /\ (7 \in e) = bit
    BY <2>2, <2>4, BitIs
  <2>6. \A i \in 0 .. 7 : i \in CrcBit(e, bit) <=> i # 0 /\ i - 1 \in e
    BY <2>5, Shifts8
  <2>7. CrcBit(e, bit) \in Byte
    BY CrcBitByte
  <2>8. ASSUME NEW i \in 0 .. 7
        PROVE  i \in CrcBit(e, bit) <=> i - (j + 1) \in crc
    <3>1. i = 0 => i - (j + 1) \notin crc
      BY DEF Byte
    <3>2. i # 0 => (i - 1 \in e <=> (i - 1) - j \in crc)
      BY <2>3, <2>5
    <3>3. (i - 1) - j = i - (j + 1)
      OBVIOUS
    <3> QED
      BY <2>6, <3>1, <3>2, <3>3
  <2>9. CrcBit(e, bit) = {i \in 0 .. 7 : i - (j + 1) \in crc}
    BY <2>7, <2>8 DEF Byte
  <2>10. d[top + (j + 1)] = {i \in 0 .. 7 : i - (j + 1) \in crc}
    BY <2>2, <2>5, <2>9
  <2>11. f[j + 1] = d[top + (j + 1)] /\ g[j + 1] = {i \in 0 .. 7 : i - (j + 1) \in crc}
    OBVIOUS
  <2> QED
    BY <2>10, <2>11
<1>8. f[8] = g[8]
  <2>1. PICK eight \in Nat : eight = 8
    OBVIOUS
  <2> HIDE DEF f, g
  <2>2. \A j \in 0 .. eight - 1 : f[j] = g[j] => f[j + 1] = g[j + 1]
    BY <1>7, <2>1
  <2>3. Same(f, g, eight)
    BY <1>6, <2>2, Alike
  <2> QED
    BY <2>1, <2>3 DEF Same
<1>9. g[8] = {}
  BY DEF Byte
<1>10. d[end] = {}
  BY <1>1, <1>8, <1>9
<1> QED
  BY <1>3, <1>10 DEF CrcOf

(* A burst of at most 8 bits leaves the CRC different: the register of the   *)
(* difference gets a bit at the first flip, near its low end, and no later   *)
(* flip of the burst meets that bit.                                         *)
IsBurst(burst, first) ==
  first \in burst /\ \A k \in burst : k \in Int /\ first <= k /\ k <= first + 7

LEMMA CrcOfDisturbed ==
  ASSUME NEW s, NEW len \in Nat, Len(s) = len, ComputeCRC8(s) = {},
         NEW burst, NEW first \in 1 .. 8 * len, IsBurst(burst, first)
  PROVE  ComputeCRC8(Flip(s, burst)) # {}
<1>0. PICK n \in Nat : n = 8 * len
  OBVIOUS
<1>1. PICK t : n = 8 * len /\ t = Flip(s, burst) /\ Len(t) = len
  <2>1. Len(Flip(s, burst)) = len
    BY FlipLength
  <2> QED
    BY <1>0, <2>1
<1>2. PICK c : CrcOf(c, n, s)
  BY <1>1, CrcLaw
<1>3. PICK d : CrcOf(d, n, t)
  BY <1>1, CrcLaw
<1> DEFINE diff == [k \in 0 .. n |-> Xor(c[k], d[k])]
<1>4. ASSUME NEW k \in 0 .. n PROVE diff[k] \in Byte
  BY <1>2, <1>3, XorByte DEF CrcOf
<1>5. diff[0] = {}
  BY <1>2, <1>3 DEF CrcOf, Xor
<1>6. ASSUME NEW k \in 0 .. n - 1
      PROVE  diff[k + 1] = CrcBit(diff[k], k + 1 \in burst)
  <2>1. PICK sent \in BOOLEAN, got \in BOOLEAN :
          sent = BitAt(s, k + 1) /\ got = BitAt(t, k + 1)
    BY BitIs
  <2>2. k + 1 \in 1 .. 8 * len
    BY <1>1
  <2>3. BitAt(t, k + 1) <=> (BitAt(s, k + 1) # (k + 1 \in burst))
    BY <1>1, <2>2, BitOfFlipped
  <2>4. (sent # got) = (k + 1 \in burst)
    BY <2>1, <2>3
  <2>5. c[k + 1] = CrcBit(c[k], sent) /\ d[k + 1] = CrcBit(d[k], got)
    BY <1>2, <1>3, <2>1 DEF CrcOf
  <2>6. k \in 0 .. n /\ k + 1 \in 0 .. n
    OBVIOUS
  <2>7. c[k] \in Byte /\ d[k] \in Byte
    BY <1>2, <1>3, <2>6 DEF CrcOf
  <2>8. Xor(CrcBit(c[k], sent), CrcBit(d[k], got)) = CrcBit(Xor(c[k], d[k]), sent # got)
    BY <2>7, Linear
  <2>9. diff[k] = Xor(c[k], d[k]) /\ diff[k + 1] = Xor(c[k + 1], d[k + 1])
    BY <2>6
  <2> QED
    BY <2>4, <2>5, <2>8, <2>9
<1>7. diff[n] = ComputeCRC8(t)
  <2>1. c[n] = {} /\ d[n] = ComputeCRC8(t) /\ n \in 0 .. n
    BY <1>2, <1>3 DEF CrcOf
  <2> QED
    BY <2>1 DEF Xor
<1> HIDE DEF diff
<1> DEFINE low(k) == \E i \in diff[k] : i <= k - first
           T == {k \in 0 .. n : /\ k < first => diff[k] = {}
                                /\ first <= k => diff[k] # {}
                                /\ first <= k /\ k <= first + 7 => low(k)}
<1>8. 0 \in T
  BY <1>5
<1>9. ASSUME NEW k \in 0 .. n - 1, k \in T PROVE k + 1 \in T
  <2>1. PICK e \in Byte, flip \in BOOLEAN :
          e = diff[k] /\ flip = (k + 1 \in burst) /\ diff[k + 1] = CrcBit(e, flip)
    <3>1. k \in 0 .. n /\ diff[k] \in Byte
      BY <1>4
    <3>2. PICK flip \in BOOLEAN : flip = (k + 1 \in burst)
      <4>1. (k + 1 \in burst) \in BOOLEAN
        OBVIOUS
      <4> QED
        BY <4>1, Zenon
    <3>3. diff[k + 1] = CrcBit(diff[k], flip)
      BY <1>6, <3>2
    <3> QED
      BY <3>1, <3>2, <3>3
  <2>11. /\ k < first => e = {}
         /\ first <= k => e # {}
         /\ first <= k /\ k <= first + 7 => \E i \in e : i <= k - first
    BY <1>9, <2>1
  <2> HIDE DEF T
  <2>12. /\ k + 1 < first => ~ flip
         /\ k + 1 = first => flip
         /\ k + 1 > first + 7 => ~ flip
    <3>1. flip <=> k + 1 \in burst
      BY <2>1
    <3>2. first \in burst /\ (k + 1 \in burst => first <= k + 1 /\ k + 1 <= first + 7)
      BY DEF IsBurst
    <3> QED
      BY <3>1, <3>2
  <2>13. ASSUME k + 1 < first => diff[k + 1] = {},
                first <= k + 1 => diff[k + 1] # {},
                first <= k + 1 /\ k + 1 <= first + 7 => low(k + 1)
         PROVE  k + 1 \in T
    BY <2>13 DEF T
  <2>2. \A i \in e : i \in 0 .. 7
    BY DEF Byte
  <2>3. (7 \in e) # flip => \A i \in 0 .. 7 :
          i \in CrcBit(e, flip) <=> ~ (i \in {0, 1, 2} <=> i # 0 /\ i - 1 \in e)
    BY Divides8
  <2>4. (7 \in e) = flip => \A i \in 0 .. 7 : i \in CrcBit(e, flip) <=> i # 0 /\ i - 1 \in e
    BY Shifts8
  <2>5. (7 \in e) # flip => 0 \in diff[k + 1]
    BY <2>1, <2>3
  <2>6. k + 1 \in 0 .. n
    OBVIOUS
  <2>7. CASE k + 1 < first
    <3>1. e = {} /\ ~ flip
      BY <2>7, <2>11, <2>12
    <3>2. \A i \in 0 .. 7 : i \notin CrcBit(e, flip)
      BY <2>4, <3>1
    <3>3. CrcBit(e, flip) = {}
      BY <3>2, CrcBitByte DEF Byte
    <3> QED
      BY <2>1, <2>7, <2>13, <3>3
  <2>8. CASE k + 1 = first
    <3>1. e = {} /\ flip
      BY <2>8, <2>11, <2>12
    <3>2. 0 \in diff[k + 1]
      BY <2>5, <3>1
    <3> QED
      BY <2>8, <2>13, <3>2
  <2>9. CASE first <= k /\ k + 1 <= first + 7
    <3>1. PICK i \in e : i <= k - first
      BY <2>9, <2>11
    <3>2. i \in 0 .. 6 /\ i + 1 \in 0 .. 7 /\ i + 1 # 0 /\ (i + 1) - 1 = i
      BY <2>2, <2>9, <3>1
    <3>3. CASE (7 \in e) # flip
      BY <2>5, <2>9, <2>13, <3>3
    <3>4. CASE (7 \in e) = flip
      <4>1. i + 1 \in diff[k + 1]
        BY <2>1, <2>4, <3>1, <3>2, <3>4
      <4>2. i + 1 <= (k + 1) - first
        BY <3>1, <3>2
      <4> QED
        BY <2>9, <2>13, <4>1, <4>2
    <3> QED
      BY <3>3, <3>4
  <2>10. CASE first <= k /\ k + 1 > first + 7
    <3>1. e # {} /\ ~ flip
      BY <2>10, <2>11, <2>12
    <3>2. CASE 7 \in e
      BY <2>5, <2>10, <2>13, <3>1, <3>2
    <3>3. CASE 7 \notin e
      <4>1. PICK i \in e : i \in 0 .. 6
        BY <2>2, <3>1, <3>3
      <4>2. i + 1 \in 0 .. 7 /\ i + 1 # 0 /\ (i + 1) - 1 = i
        BY <4>1
      <4>3. i + 1 \in CrcBit(e, flip)
        <5>1. PICK j \in 0 .. 7 : j = i + 1
          BY <4>2
        <5> QED
          BY <2>4, <3>1, <3>3, <4>1, <4>2, <5>1
      <4> QED
        BY <2>1, <2>10, <2>13, <4>3
    <3> QED
      BY <3>2, <3>3
  <2> QED
    BY <2>7, <2>8, <2>9, <2>10
<1>10. n \in T
  <2> HIDE DEF T
  <2>1. 0 .. n \subseteq T
    BY <1>8, <1>9, Upwards
  <2> QED
    BY <2>1
<1>11. diff[n] # {}
  BY <1>1, <1>10
<1> QED
  BY <1>1, <1>7, <1>11

(* The other checksum: a message with it sums up to 0, and a burst of at     *)
(* most 8 bits flips one bit of the sum where it begins.                     *)
XorSums(s, m) == ComputeXOR8(s) = {} /\ ComputeXOR8(m) \in Byte

LEMMA XorOfClean ==
  ASSUME NEW m, NEW n \in Nat, Len(m) = n, \A k \in 1 .. n : m[k] \in Byte,
         NEW s, Len(s) = n + 1,
         \A i \in 1 .. n : s[i] = m[i], s[n + 1] = ComputeXOR8(m)
  PROVE  XorSums(s, m)
<1>1. PICK c : XorOf(c, n, m)
  BY XorLaw
<1>2. ComputeXOR8(m) \in Byte
  BY <1>1 DEF XorOf
<1>3. PICK end \in Nat : end = n + 1
  OBVIOUS
<1>4. \A k \in 1 .. end : s[k] \in Byte
  <2> TAKE k \in 1 .. end
  <2>1. k \in 1 .. n \/ k = n + 1
    BY <1>3
  <2> QED
    BY <1>2, <2>1
<1>5. PICK d : XorOf(d, end, s)
  BY <1>3, <1>4, XorLaw
<1>6. ASSUME NEW k \in 0 .. n - 1, c[k] = d[k] PROVE c[k + 1] = d[k + 1]
  <2>1. k \in 0 .. end - 1 /\ k + 1 \in 1 .. n
    BY <1>3
  <2>2. c[k + 1] = Xor(c[k], m[k + 1]) /\ d[k + 1] = Xor(d[k], s[k + 1])
    BY <1>1, <1>5, <2>1 DEF XorOf
  <2>3. m[k + 1] = s[k + 1]
    BY <2>1
  <2> QED
    BY <1>6, <2>2, <2>3
<1>7. d[n] = ComputeXOR8(m)
  <2>1. c[0] = d[0]
    BY <1>1, <1>5 DEF XorOf
  <2>2. Same(c, d, n)
    BY <1>6, <2>1, Alike
  <2> QED
    BY <1>1, <2>2 DEF XorOf, Same
<1>8. d[n + 1] = Xor(d[n], s[n + 1])
  BY <1>3, <1>5 DEF XorOf
<1>9. d[n + 1] = {}
  BY <1>7, <1>8 DEF Xor
<1> QED
  BY <1>2, <1>3, <1>5, <1>9 DEF XorOf, XorSums

LEMMA XorOfDisturbed ==
  ASSUME NEW s, NEW n \in Nat, Len(s) = n, \A k \in 1 .. n : s[k] \in Byte,
         ComputeXOR8(s) = {},
         NEW burst, NEW first \in 1 .. 8 * n, IsBurst(burst, first)
  PROVE  ComputeXOR8(Flip(s, burst)) # {}
<1>1. PICK byte \in 1 .. n, b \in 0 .. 7 : first = 8 * byte - b
  <2>1. PICK byte \in 1 .. n, b \in 0 .. 7 :
          byte = (first - 1) \div 8 + 1 /\ b = 8 * byte - first
    BY BitPlace
  <2>2. first = 8 * byte - b
    BY <2>1
  <2> QED
    BY <2>2, Zenon
<1> DEFINE F(k) == {i \in 0 .. 7 : 8 * k - i \in burst}
<1>2. PICK t : /\ t = Flip(s, burst) /\ Len(t) = n
               /\ \A k \in 1 .. n : t[k] = Xor(s[k], F(k))
  <2>1. Len(Flip(s, burst)) = n
    BY FlipLength
  <2>2. \A k \in 1 .. n : Flip(s, burst)[k] = Xor(s[k], F(k))
    BY DEF Flip
  <2> QED
    BY <2>1, <2>2
<1>3. ASSUME NEW k \in 1 .. n PROVE b \in F(k) <=> k = byte
  <2>1. first \in burst /\ \A i \in burst : first <= i /\ i <= first + 7
    BY DEF IsBurst
  <2>2. b \in F(k) <=> 8 * k - b \in burst
    OBVIOUS
  <2>3. PICK i \in Int : i = 8 * k - b
    <3>1. 8 * k - b \in Int
      OBVIOUS
    <3> QED
      BY <3>1, Zenon
  <2>4. first <= i /\ i <= first + 7 => k = byte
    BY <1>1, <2>3
  <2>5. k = byte => i = first
    BY <1>1, <2>3
  <2> QED
    BY <2>1, <2>2, <2>3, <2>4, <2>5
<1>4. \A k \in 1 .. n : t[k] \in Byte
  <2> TAKE k \in 1 .. n
  <2>1. F(k) \in Byte
    BY DEF Byte
  <2> QED
    BY <1>2, <2>1, XorByte
<1> HIDE DEF F
<1>5. PICK c : XorOf(c, n, s)
  BY XorLaw
<1>6. PICK d : XorOf(d, n, t)
  BY <1>2, <1>4, XorLaw
<1> DEFINE T == {k \in 0 .. n : (b \in c[k] <=> b \in d[k]) <=> k < byte}
<1>7. 0 \in T
  BY <1>5, <1>6 DEF XorOf
<1>8. ASSUME NEW k \in 0 .. n - 1, k \in T PROVE k + 1 \in T
  <2>1. k + 1 \in 1 .. n
    OBVIOUS
  <2>2. c[k + 1] = Xor(c[k], s[k + 1]) /\ d[k + 1] = Xor(d[k], t[k + 1])
    BY <1>5, <1>6 DEF XorOf
  <2>3. t[k + 1] = Xor(s[k + 1], F(k + 1)) /\ (b \in F(k + 1) <=> k + 1 = byte)
    BY <1>2, <1>3, <2>1
  <2>4. /\ b \in c[k + 1] <=> ~ (b \in c[k] <=> b \in s[k + 1])
        /\ b \in d[k + 1] <=> ~ (b \in d[k] <=> b \in t[k + 1])
        /\ b \in t[k + 1] <=> ~ (b \in s[k + 1] <=> k + 1 = byte)
    BY <2>2, <2>3, Zenon DEF Xor
  <2>5. (b \in c[k] <=> b \in d[k]) <=> k < byte
    BY <1>8
  <2>6. k + 1 < byte <=> k < byte /\ k + 1 # byte
    OBVIOUS
  <2>7. k + 1 = byte => k < byte
    OBVIOUS
  <2>8. (b \in c[k + 1] <=> b \in d[k + 1]) <=> k + 1 < byte
    BY <2>4, <2>5, <2>6, <2>7
  <2> QED
    BY <2>1, <2>8
<1>9. n \in T
  <2> HIDE DEF T
  <2>1. 0 .. n \subseteq T
    BY <1>7, <1>8, Upwards
  <2> QED
    BY <2>1
<1>10. b \notin c[n] /\ ~ (b \in c[n] <=> b \in d[n])
  BY <1>5, <1>9 DEF XorOf
<1>11. d[n] # {}
  BY <1>10
<1> QED
  BY <1>2, <1>6, <1>11 DEF XorOf

(* Polynomial division, a term at a time.                                    *)
Term(poly, p) == IF p \in poly THEN Xor(poly, {p - 8 + e : e \in {8, 2, 1, 0}}) ELSE poly

RemainderOf(r, n, poly) ==
  /\ r[0] = poly /\ r[n] = Remainder(poly, n + 8)
  /\ \A k \in 0 .. n - 1 : r[k + 1] = Term(r[k], n + 7 - k)

LEMMA TermIsInt ==
  ASSUME NEW w \in SUBSET Int, NEW p \in Int
  PROVE  Term(w, p) \in SUBSET Int
<1> DEFINE D == {p - 8 + e : e \in {8, 2, 1, 0}}
<1>1. D \subseteq Int
  OBVIOUS
<1> HIDE DEF D
<1>2. Xor(w, D) \subseteq Int
  BY <1>1 DEF Xor
<1> QED
  BY <1>2 DEF Term, D

LEMMA RemainderLaw ==
  ASSUME NEW n \in Nat, NEW poly \in SUBSET Int
  PROVE  \E r : RemainderOf(r, n, poly)
<1>0. PICK S : S = SUBSET Int
  OBVIOUS
<1>1. PICK top \in Int : top = n + 8 /\ top - 8 = n
  OBVIOUS
<1> DEFINE v[j \in 0 .. top - 8] ==
             IF j = 0 THEN poly
             ELSE IF top - j \in v[j - 1]
                  THEN Xor(v[j - 1], {top - j - 8 + e : e \in {8, 2, 1, 0}})
                  ELSE v[j - 1]
           G == [kw \in Nat \X S |-> Term(kw[2], top - (kw[1] + 1))]
<1>2. v = CHOOSE w : w = [j \in 0 .. top - 8 |->
             IF j = 0 THEN poly
             ELSE IF top - j \in w[j - 1]
                  THEN Xor(w[j - 1], {top - j - 8 + e : e \in {8, 2, 1, 0}})
                  ELSE w[j - 1]]
  OBVIOUS
<1>3. Remainder(poly, top) = v[n]
  BY <1>1 DEF Remainder
<1>4. G \in [Nat \X S -> S]
  <2>1. ASSUME NEW w \in S, NEW p \in Int PROVE Term(w, p) \in S
    BY <1>0, TermIsInt
  <2>2. \A k \in Nat : top - (k + 1) \in Int
    OBVIOUS
  <2> QED
    BY <2>1, <2>2
<1>5. PICK g \in [0 .. n -> S] : Goes(g, n, poly, G)
  <2> HIDE DEF G
  <2>1. poly \in S
    BY <1>0
  <2> QED
    BY <1>4, <2>1, RecursionUpto
<1>6. g[0] = poly /\ \A k \in 0 .. n - 1 : g[k + 1] = Term(g[k], top - (k + 1))
  <2>1. ASSUME NEW k \in 0 .. n - 1 PROVE g[k + 1] = Term(g[k], top - (k + 1))
    <3>1. k \in Nat /\ g[k] \in S
      OBVIOUS
    <3>2. G[<<k, g[k]>>] = Term(g[k], top - (k + 1))
      BY <3>1
    <3> HIDE DEF G
    <3> QED
      BY <1>5, <3>2 DEF Goes
  <2> HIDE DEF G
  <2> QED
    BY <1>5, <2>1 DEF Goes
<1> HIDE DEF v, G
<1>7. ASSUME NEW w PROVE
        [j \in 0 .. top - 8 |->
           IF j = 0 THEN poly
           ELSE IF top - j \in w[j - 1]
                THEN Xor(w[j - 1], {top - j - 8 + e : e \in {8, 2, 1, 0}})
                ELSE w[j - 1]]
          = [j \in 0 .. n |-> IF j = 0 THEN poly ELSE Term(w[j - 1], top - j)]
  BY <1>1, Zenon DEF Term
<1>8. g = [j \in 0 .. n |-> IF j = 0 THEN poly ELSE Term(g[j - 1], top - j)]
  <2>1. ASSUME NEW k \in 0 .. n, k # 0 PROVE g[k] = Term(g[k - 1], top - k)
    <3>1. k - 1 \in 0 .. n - 1 /\ (k - 1) + 1 = k
      BY <2>1
    <3> QED
      BY <1>6, <3>1
  <2> QED
    BY <1>6, <2>1
<1>9. v = [j \in 0 .. n |-> IF j = 0 THEN poly ELSE Term(v[j - 1], top - j)]
  <2> DEFINE B(w) == [j \in 0 .. top - 8 |->
                       IF j = 0 THEN poly
                       ELSE IF top - j \in w[j - 1]
                            THEN Xor(w[j - 1], {top - j - 8 + e : e \in {8, 2, 1, 0}})
                            ELSE w[j - 1]]
             C(w) == [j \in 0 .. n |-> IF j = 0 THEN poly ELSE Term(w[j - 1], top - j)]
  <2>1. \A w : B(w) = C(w)
    BY <1>7, Zenon
  <2>2. g = C(g)
    BY <1>8
  <2>3. v = CHOOSE w : w = B(w)
    BY <1>2
  <2> HIDE DEF B, C
  <2>4. g = B(g)
    BY <2>1, <2>2
  <2>5. v = B(v)
    BY <2>3, <2>4, Zenon
  <2>6. v = C(v)
    BY <2>1, <2>5
  <2> QED
    BY <2>6 DEF C
<1>10. v[0] = poly
  BY <1>9
<1>11. ASSUME NEW k \in 0 .. n - 1 PROVE v[k + 1] = Term(v[k], n + 7 - k)
  <2>1. k + 1 \in 0 .. n /\ k + 1 # 0 /\ (k + 1) - 1 = k /\ top - (k + 1) = n + 7 - k
    BY <1>1
  <2> QED
    BY <1>9, <2>1
<1> QED
  BY <1>1, <1>3, <1>10, <1>11 DEF RemainderOf

(* The register of the bit loop holds the terms of the remainder that the    *)
(* bits so far have changed; the other terms are the bits to come.           *)
LEMMA CrcIsTheRemainder ==
  ASSUME NEW m, NEW len \in Nat, Len(m) = len
  PROVE  ComputeCRC8(m) = Remainder(Polynomial(m), 8 * len + 8)
<1>1. PICK n \in Nat : n = 8 * len
  OBVIOUS
<1>2. PICK c : CrcOf(c, n, m)
  BY <1>1, CrcLaw
<1> DEFINE poly == Polynomial(m)
<1>3. poly = {n + 8 - k : k \in {j \in 1 .. n : BitAt(m, j)}}
  BY <1>1 DEF Polynomial
<1> HIDE DEF poly
<1>4. poly \in SUBSET Int
  BY <1>3
<1>5. PICK r : RemainderOf(r, n, poly)
  BY <1>4, RemainderLaw
<1> DEFINE held(e, j) == e - (n - j) \in c[j]
           coming(e, j) == n + 8 - e \in j + 1 .. n /\ BitAt(m, n + 8 - e)
           T == {j \in 0 .. n :
                   /\ r[j] \subseteq Int
                   /\ \A e \in Int : e \in r[j] <=> ~ (held(e, j) <=> coming(e, j))}
<1>6. 0 \in T
  <2>1. r[0] = poly /\ c[0] = {}
    BY <1>2, <1>5 DEF RemainderOf, CrcOf
  <2>2. ASSUME NEW e \in Int PROVE e \in poly <=> coming(e, 0)
    <3>1. ASSUME NEW k \in 1 .. n, e = n + 8 - k PROVE n + 8 - e = k
      BY <3>1
    <3>2. n + 8 - e \in 1 .. n => e = n + 8 - (n + 8 - e)
      OBVIOUS
    <3> QED
      BY <1>3, <3>1, <3>2
  <2>3. \A e \in Int : ~ held(e, 0)
    BY <2>1
  <2> HIDE DEF held, coming
  <2>4. \A e \in Int : e \in r[0] <=> ~ (held(e, 0) <=> coming(e, 0))
    BY <2>1, <2>2, <2>3
  <2>5. r[0] \subseteq Int /\ 0 \in 0 .. n
    BY <1>4, <2>1
  <2>6. 0 \in T <=> /\ 0 \in 0 .. n /\ r[0] \subseteq Int
                    /\ \A e \in Int : e \in r[0] <=> ~ (held(e, 0) <=> coming(e, 0))
    BY Zenon
  <2> QED
    BY <2>4, <2>5, <2>6, Zenon
<1>7. ASSUME NEW j \in 0 .. n - 1, j \in T PROVE j + 1 \in T
  <2>1. PICK d \in Byte, bit \in BOOLEAN :
          d = c[j] /\ bit = BitAt(m, j + 1) /\ c[j + 1] = CrcBit(d, bit)
    <3>1. c[j] \in Byte /\ c[j + 1] = CrcBit(c[j], BitAt(m, j + 1))
      BY <1>2 DEF CrcOf
    <3> QED
      BY <3>1, BitIs
  <2>2. PICK p \in Int : p = n + 7 - j /\ r[j + 1] = Term(r[j], p)
    BY <1>5 DEF RemainderOf
  <2>3. r[j] \subseteq Int /\ \A e \in Int : e \in r[j] <=> ~ (held(e, j) <=> coming(e, j))
    BY <1>7
  <2>4. (held(p, j) <=> 7 \in d) /\ (coming(p, j) <=> bit)
    <3>1. p - (n - j) = 7 /\ n + 8 - p = j + 1 /\ j + 1 \in j + 1 .. n
      BY <2>2
    <3> QED
      BY <2>1, <3>1
  <2>5. p \in r[j] <=> ~ (7 \in d <=> bit)
    BY <2>3, <2>4
  <2>6. ~ held(p, j + 1) /\ ~ coming(p, j + 1)
    <3>1. p - (n - (j + 1)) = 8 /\ n + 8 - p = j + 1
      BY <2>2
    <3>2. c[j + 1] \in Byte
      BY <2>1, CrcBitByte
    <3>3. 8 \notin c[j + 1]
      BY <3>2 DEF Byte
    <3> QED
      BY <3>1, <3>3
  <2>7. ASSUME NEW e \in Int, e # p PROVE coming(e, j + 1) <=> coming(e, j)
    <3>1. n + 8 - e # j + 1
      BY <2>2, <2>7
    <3>2. n + 8 - e \in (j + 1) + 1 .. n <=> n + 8 - e \in j + 1 .. n
      BY <3>1
    <3> QED
      BY <3>2
  <2>8. ASSUME NEW e \in Int, e # p
        PROVE  LET i == e - (n - (j + 1)) IN i \in 0 .. 7 /\ i # 0 /\ i - 1 \in d <=> held(e, j)
    <3>1. PICK i \in Int : i = e - (n - (j + 1)) /\ i - 1 = e - (n - j) /\ i # 8
      BY <2>2, <2>8
    <3>2. i - 1 \in d => i \in 0 .. 8 /\ i # 0
      BY DEF Byte
    <3> QED
      BY <2>1, <3>1, <3>2
  <2> HIDE DEF T
  <2>9. ASSUME r[j + 1] \subseteq Int,
               \A e \in Int : e \in r[j + 1] <=> ~ (held(e, j + 1) <=> coming(e, j + 1))
        PROVE  j + 1 \in T
    BY <2>9 DEF T
  <2>10. CASE (7 \in d) = bit
    <3>1. r[j + 1] = r[j] /\ p \notin r[j]
      BY <2>2, <2>5, <2>10 DEF Term
    <3>2. ASSUME NEW e \in Int, e # p PROVE held(e, j + 1) <=> held(e, j)
      <4>1. PICK i \in Int : i = e - (n - (j + 1))
        OBVIOUS
      <4>2. i \in 0 .. 7 => (i \in CrcBit(d, bit) <=> i # 0 /\ i - 1 \in d)
        BY <2>10, Shifts8
      <4>3. i \in CrcBit(d, bit) => i \in 0 .. 7
        BY CrcBitByte DEF Byte
      <4>4. i \in 0 .. 7 /\ i # 0 /\ i - 1 \in d <=> held(e, j)
        BY <2>8, <3>2, <4>1
      <4>5. held(e, j + 1) <=> i \in CrcBit(d, bit)
        BY <2>1, <4>1
      <4> HIDE DEF held
      <4> QED
        BY <4>2, <4>3, <4>4, <4>5
    <3> HIDE DEF held, coming
    <3> QED
      BY <2>3, <2>6, <2>7, <2>9, <3>1, <3>2
  <2>11. CASE (7 \in d) # bit
    <3>1. p \in r[j]
      BY <2>5, <2>11
    <3>2. r[j + 1] = Xor(r[j], {p - 8 + e : e \in {8, 2, 1, 0}})
      BY <2>2, <3>1 DEF Term
    <3>3. ASSUME NEW e \in Int
          PROVE  e \in {p - 8 + k : k \in {8, 2, 1, 0}}
                   <=> e = p \/ e - (n - (j + 1)) \in {0, 1, 2}
      BY <2>2
    <3>4. ASSUME NEW e \in Int, e # p
          PROVE  held(e, j + 1) <=> ~ (held(e, j) <=> e - (n - (j + 1)) \in {0, 1, 2})
      <4>1. PICK i \in Int : i = e - (n - (j + 1))
        OBVIOUS
      <4>2. i \in 0 .. 7 => (i \in CrcBit(d, bit)
                               <=> ~ (i \in {0, 1, 2} <=> i # 0 /\ i - 1 \in d))
        BY <2>11, Divides8
      <4>3. i \in CrcBit(d, bit) => i \in 0 .. 7
        BY CrcBitByte DEF Byte
      <4>4. i \in 0 .. 7 /\ i # 0 /\ i - 1 \in d <=> held(e, j)
        BY <2>8, <3>4, <4>1
      <4>5. held(e, j + 1) <=> i \in CrcBit(d, bit)
        BY <2>1, <4>1
      <4>6. i \in {0, 1, 2} => i \in 0 .. 7
        OBVIOUS
      <4> HIDE DEF held
      <4> QED
        BY <4>1, <4>2, <4>3, <4>4, <4>5, <4>6
    <3>5. r[j + 1] \subseteq Int
      BY <2>2, <2>3, TermIsInt
    <3>6. ASSUME NEW e \in Int
          PROVE  e \in r[j + 1] <=> ~ (held(e, j + 1) <=> coming(e, j + 1))
      <4>1. e \in r[j + 1] <=> ~ (e \in r[j] <=> e = p \/ e - (n - (j + 1)) \in {0, 1, 2})
        BY <3>2, <3>3 DEF Xor
      <4> HIDE DEF held, coming
      <4>2. CASE e = p
        BY <2>6, <3>1, <4>1, <4>2
      <4>3. CASE e # p
        BY <2>3, <2>7, <3>4, <4>1, <4>3
      <4> QED
        BY <4>2, <4>3
    <3> QED
      BY <2>9, <3>5, <3>6
  <2> QED
    BY <2>10, <2>11
<1>8. n \in T
  <2> HIDE DEF T
  <2>1. 0 .. n \subseteq T
    BY <1>6, <1>7, Upwards
  <2> QED
    BY <2>1
<1>9. \A e \in Int : e \in r[n] <=> e \in c[n]
  BY <1>8
<1>10. r[n] \subseteq Int /\ c[n] \subseteq Int
  BY <1>2, <1>8 DEF CrcOf, Byte
<1>11. r[n] = c[n]
  BY <1>9, <1>10
<1> QED
  BY <1>1, <1>2, <1>5, <1>11 DEF poly, CrcOf, RemainderOf

(* A message is sent with its checksum behind it, and both sum up to 0.      *)
LEMMA SentSumsUp ==
  ASSUME NEW mode \in {"USE_CRC", "USE_XOR"}, NEW m \in Seq(Byte),
         NEW s, s = Append(m, Checksum(mode, m))
  PROVE  /\ Len(s) = Len(m) + 1 /\ s[Len(m) + 1] = Checksum(mode, m)
         /\ Accepts(mode, s)
         /\ mode = "USE_XOR" => \A k \in 1 .. Len(s) : s[k] \in Byte
<1>1. PICK n \in Nat : n = Len(m)
  OBVIOUS
<1>2. \A k \in 1 .. n : m[k] \in Byte
  BY <1>1
<1>3. Len(s) = n + 1 /\ s[n + 1] = Checksum(mode, m) /\ \A k \in 1 .. n : s[k] = m[k]
  BY <1>1
<1>4. CASE mode = "USE_CRC"
  <2>1. s[n + 1] = ComputeCRC8(m)
    BY <1>3, <1>4 DEF Checksum
  <2>2. ComputeCRC8(s) = {}
    BY <1>1, <1>3, <2>1, CrcOfClean
  <2> QED
    BY <1>1, <1>3, <1>4, <2>2 DEF Accepts, Checksum
<1>5. CASE mode = "USE_XOR"
  <2>1. s[n + 1] = ComputeXOR8(m)
    BY <1>3, <1>5 DEF Checksum
  <2>2. ComputeXOR8(s) = {} /\ ComputeXOR8(m) \in Byte
    <3>1. Len(m) = n /\ Len(s) = n + 1
      BY <1>1, <1>3
    <3>2. \A i \in 1 .. n : s[i] = m[i]
      BY <1>3
    <3> QED
      <4>1. XorSums(s, m)
        BY <1>2, <2>1, <3>1, <3>2, XorOfClean
      <4> QED
        BY <4>1 DEF XorSums
  <2>3. ASSUME NEW k \in 1 .. n + 1 PROVE s[k] \in Byte
    <3>1. k \in 1 .. n \/ k = n + 1
      OBVIOUS
    <3> QED
      BY <1>2, <1>3, <2>1, <2>2, <3>1
  <2>4. Accepts(mode, s)
    BY <1>5, <2>2 DEF Accepts, Checksum
  <2> QED
    BY <1>1, <1>3, <2>3, <2>4
<1> QED
  BY <1>4, <1>5

(* The bursts of the model are bursts of at most 8 bits.                     *)
LEMMA BurstsAre ==
  ASSUME NEW len \in Nat, NEW burst \in Bursts(len)
  PROVE  \E first \in 1 .. 8 * len : IsBurst(burst, first)
<1> DEFINE Rest(first) == SUBSET ((first + 1 .. first + MaxBurst - 1) \cap (1 .. 8 * len))
<1>1. PICK first \in 1 .. 8 * len : \E rest \in Rest(first) : burst = {first} \cup rest
  BY DEF Bursts
<1>2. first \in burst
  BY <1>1
<1>3. MaxBurst \in 1 .. 8
  BY Crc8Assumption
<1>4. ASSUME NEW k \in burst PROVE k \in Int /\ first <= k /\ k <= first + 7
  <2>1. k = first \/ k \in first + 1 .. first + MaxBurst - 1
    BY <1>1
  <2> QED
    BY <1>3, <2>1
<1>5. IsBurst(burst, first)
  BY <1>2, <1>4 DEF IsBurst
<1> QED
  BY <1>5

LEMMA DisturbedIsRefused ==
  ASSUME NEW mode \in {"USE_CRC", "USE_XOR"}, NEW s, NEW n \in Nat, Len(s) = n,
         Accepts(mode, s), mode = "USE_XOR" => \A k \in 1 .. n : s[k] \in Byte,
         NEW burst \in Bursts(n)
  PROVE  ~ Accepts(mode, Flip(s, burst))
<1>1. PICK first \in 1 .. 8 * n : IsBurst(burst, first)
  BY BurstsAre
<1>2. CASE mode = "USE_CRC"
  <2>1. ComputeCRC8(s) = {}
    BY <1>2 DEF Accepts, Checksum
  <2>2. ComputeCRC8(Flip(s, burst)) # {}
    BY <1>1, <2>1, CrcOfDisturbed
  <2> QED
    BY <1>2, <2>2 DEF Accepts, Checksum
<1>3. CASE mode = "USE_XOR"
  <2>1. ComputeXOR8(s) = {} /\ \A k \in 1 .. n : s[k] \in Byte
    BY <1>3 DEF Accepts, Checksum
  <2>2. ComputeXOR8(Flip(s, burst)) # {}
    BY <1>1, <2>1, XorOfDisturbed
  <2> QED
    BY <1>3, <2>2 DEF Accepts, Checksum
<1> QED
  BY <1>2, <1>3

(* What the buffer holds in each phase.                                      *)
CrcInv ==
  /\ useCRC \in {"USE_CRC", "USE_XOR"} /\ msg \in Messages
  /\ phase \in {"built", "sent", "clean", "disturbed"}
  /\ phase \in {"sent", "clean"} => buffer = Append(msg, Checksum(useCRC, msg))
  /\ phase = "disturbed" => ~ Accepts(useCRC, buffer)

LEMMA CrcInvStart == CrcInit => CrcInv
BY DEF CrcInit, CrcInv

LEMMA CrcInvStep ==
  ASSUME CrcInv, [CrcNext]_crcVars
  PROVE  CrcInv'
<1>1. CASE Send
  BY <1>1 DEF CrcInv, Send
<1>2. CASE Arrive
  BY <1>2 DEF CrcInv, Arrive
<1>3. CASE Disturb
  <2>1. PICK burst \in Bursts(Len(buffer)) : buffer' = Flip(buffer, burst)
    BY <1>3 DEF Disturb
  <2>2. buffer = Append(msg, Checksum(useCRC, msg)) /\ msg \in Seq(Byte)
    BY <1>3, Crc8Assumption DEF CrcInv, Disturb
  <2>3. PICK n \in Nat : n = Len(msg) + 1
    BY <2>2
  <2>4. /\ Len(buffer) = n /\ Accepts(useCRC, buffer)
        /\ useCRC = "USE_XOR" => \A k \in 1 .. n : buffer[k] \in Byte
    BY <2>2, <2>3, SentSumsUp DEF CrcInv
  <2>5. ~ Accepts(useCRC, Flip(buffer, burst))
    BY <2>1, <2>4, DisturbedIsRefused DEF CrcInv
  <2>6. ~ Accepts(useCRC, buffer)'
    BY <1>3, <2>1, <2>5 DEF Disturb, Accepts, Checksum
  <2> QED
    BY <1>3, <2>6 DEF CrcInv, Disturb
<1>4. CASE UNCHANGED crcVars
  BY <1>4 DEF CrcInv, crcVars, Accepts, Checksum
<1> QED
  BY <1>1, <1>2, <1>3, <1>4 DEF CrcNext, Received

LEMMA CrcInvHolds == CrcSpec => []CrcInv
<1>1. CrcInit => CrcInv
  BY CrcInvStart
<1>2. CrcInv /\ [CrcNext]_crcVars => CrcInv'
  BY CrcInvStep
<1> QED
  BY <1>1, <1>2, PTL DEF CrcSpec

(* The bit loop of AD717X_ComputeCRC8, whose register keeps 8 bits, leaves   *)
(* the remainder of the division of the whole message by x^8+x^2+x+1, for    *)
(* messages of any length.                                                   *)
THEOREM ChecksumIsRemainder == CrcSpec => []CrcIsRemainder
<1>1. ASSUME CrcInv PROVE CrcIsRemainder
  <2>1. SUFFICES ASSUME phase = "sent", useCRC = "USE_CRC"
                 PROVE  buffer[Len(buffer)] = Remainder(Polynomial(msg), 8 * Len(msg) + 8)
    BY DEF CrcIsRemainder
  <2>2. buffer = Append(msg, Checksum(useCRC, msg)) /\ msg \in Seq(Byte)
    BY <1>1, <2>1, Crc8Assumption DEF CrcInv
  <2>3. PICK len \in Nat : len = Len(msg)
    BY <2>2
  <2>4. Len(buffer) = len + 1 /\ buffer[len + 1] = Checksum(useCRC, msg)
    BY <2>2, <2>3
  <2>5. ComputeCRC8(msg) = Remainder(Polynomial(msg), 8 * len + 8)
    BY <2>3, CrcIsTheRemainder
  <2> QED
    BY <2>1, <2>3, <2>4, <2>5 DEF Checksum
<1> QED
  BY <1>1, CrcInvHolds, PTL

(* ReadRegister accepts an undisturbed answer in either checksum mode, and   *)
(* refuses one in which a burst of at most 8 bits was flipped, whatever the  *)
(* length of the message and wherever the burst begins.                      *)
THEOREM OnlyCleanIsAccepted == CrcSpec => []OnlyCleanAccepted
<1>1. ASSUME CrcInv PROVE OnlyCleanAccepted
  <2>1. ASSUME phase = "clean" PROVE Accepts(useCRC, buffer)
    <3>1. buffer = Append(msg, Checksum(useCRC, msg)) /\ msg \in Seq(Byte)
      BY <1>1, <2>1, Crc8Assumption DEF CrcInv
    <3> QED
      BY <1>1, <3>1, SentSumsUp DEF CrcInv
  <2>2. phase = "disturbed" => ~ Accepts(useCRC, buffer)
    BY <1>1 DEF CrcInv
  <2> QED
    BY <2>1, <2>2 DEF OnlyCleanAccepted
<1> QED
  BY <1>1, CrcInvHolds, PTL
===============================================================================

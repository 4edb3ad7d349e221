---------------------------- MODULE AdcDriverProofs ----------------------------
(* The handlers of the ADC driver against the converting chip, for any       *)
(* number of channels, rates and polls.  The step invariant says where in    *)
(* its script a handler is: every call that is left is the one the place     *)
(* says, and the chip is in the state the calls so far have brought it to.   *)
(* That the driver implements AdcInputs is at the end: a handler takes its   *)
(* effect there when it begins, so what the channels see of a register is    *)
(* the value it will have when the script is done.                           *)
EXTENDS AdcDriver, SequenceTheorems, WellFoundedInduction, TLAPS

Opens(chans)  == Enable(chans, TRUE)
Closes(chans) == Enable(chans, FALSE)

(* The calls of a change of the data rate of channel c, with the calibration *)
(* behind it, and those of a calibration, by their places.                   *)
OdrCall(c, place, call) ==
  /\ place = 1 => call = Opens({c})
  /\ place = 2 => call = Wait
  /\ place = 3 => call.op = "odr"
  /\ place = 4 => call = Wait
  /\ place = 5 => call = Closes({c})
  /\ place = 6 => call = Calibrate(c)

CalCall(c, place, call) ==
  /\ place = 1 => call = Closes(call.chans)
  /\ place = 2 => call = Opens({c})
  /\ place = 3 => call = Wait
  /\ place = 4 => call = SetMode("OFFSET")
  /\ place = 5 => call = Wait
  /\ place = 6 => call = SetMode("GAIN")
  /\ place = 7 => call = Opens(call.chans)
  /\ place = 8 => call = Wait
  /\ place = 9 => call = SetMode("CONTINUOUS")

(* `left` calls of one of the two are left in s, and perhaps the call with   *)
(* which Channel::init disables its input.                                   *)
AndLast(left, c, s) ==
  /\ Len(s) = left \/ Len(s) = left + 1
  /\ Len(s) = left + 1 => s[left + 1] = Closes({c})

InOdr(left, c, s) ==
  AndLast(left, c, s) /\ \A k \in 1 .. left : OdrCall(c, 6 - left + k, s[k])

InCal(left, c, s) ==
  AndLast(left, c, s) /\ \A k \in 1 .. left : CalCall(c, 9 - left + k, s[k])

(* The chip while `left` calls of a calibration are left.                    *)
ChipDuring(left) ==
  /\ left >= 6 => chipMode = "CONTINUOUS"
  /\ left = 9 => \A c \in Channels : chipEn[c] => c \in todo[1].chans
  /\ left = 8 => \A c \in Channels : ~chipEn[c]
  /\ left \in 4 .. 7 => \A c \in Channels : chipEn[c] <=> c = self
  /\ left \in 4 .. 5 => chipMode \in {"OFFSET", "IDLE"}
  /\ left \in 1 .. 3 => chipMode \in {"GAIN", "IDLE"}
  /\ ~slow /\ left \in {1, 4} => chipMode = "IDLE"
  /\ chipMode \in {"OFFSET", "GAIN"} => chipOut = Inputs!NoData

Place ==
  ~busFaults =>
    \/ AndLast(0, self, todo) /\ chipMode = "CONTINUOUS"
    \/ \E left \in 1 .. 6 : InOdr(left, self, todo) /\ chipMode = "CONTINUOUS"
    \/ \E left \in 1 .. 9 : InCal(left, self, todo) /\ ChipDuring(left)

(* A poll loop ends with a cache that says "not ready", so that the next one *)
(* starts with nothing to repeat.                                            *)
PollInv ==
  /\ pollPc # "out" => age # "earlier"
  /\ pollPc = "out" => dataReg = Inputs!NoData \/ age = "boot"

Inv == TypeOK /\ MapMatchesChip /\ PollInv /\ Place

-----------------------------------------------------------------------------
LEMMA CallTypes ==
  /\ \A chans \in SUBSET Channels : Opens(chans) \in Call /\ Closes(chans) \in Call
  /\ \A c \in Channels : Calibrate(c) \in Call /\ {c} \in SUBSET Channels
  /\ \A c \in Channels, r \in Inputs!OdrLut : SetOdr(c, r) \in Call
  /\ \A m \in {"CONTINUOUS", "OFFSET", "GAIN"} : SetMode(m) \in Call
  /\ Wait \in Call
  BY DEF Call, Opens, Closes, Enable, Calibrate, SetOdr, SetMode, Wait

LEMMA CallParts ==
  ASSUME NEW call \in Call
  PROVE  /\ call.op \in {"enable", "calibrate", "odr", "mode", "wait"}
         /\ call.op = "enable" => call.chans \in SUBSET Channels /\ call.val \in BOOLEAN
         /\ call.op = "odr" => call.val \in Inputs!OdrLut
         /\ call.op = "mode" => call.val \in {"CONTINUOUS", "OFFSET", "GAIN"}
  BY DEF Call

LEMMA CallsApart ==
  /\ \A chans : Opens(chans).op = "enable" /\ Opens(chans).chans = chans
  /\ \A chans : Closes(chans).op = "enable" /\ Closes(chans).chans = chans
  /\ \A chans : Opens(chans).val = TRUE /\ Closes(chans).val = FALSE
  /\ \A c : Calibrate(c).op = "calibrate"
  /\ \A m : SetMode(m).op = "mode" /\ SetMode(m).val = m
  /\ Wait.op = "wait"
  BY DEF Opens, Closes, Enable, Calibrate, SetMode, Wait

LEMMA EnableParts ==
  ASSUME NEW s, NEW chans, NEW on, s = Enable(chans, on)
  PROVE  s.chans = chans /\ s.val = on
<1>1. Enable(chans, on).chans = chans /\ Enable(chans, on).val = on
  BY DEF Enable
<1> QED
  BY <1>1, Zenon

LEMMA TailOf ==
  ASSUME NEW s \in Seq(Call), s # <<>>
  PROVE  /\ Tail(s) \in Seq(Call) /\ Len(s) \in Nat \ {0} /\ Len(Tail(s)) = Len(s) - 1
         /\ \A k \in 1 .. Len(s) - 1 : Tail(s)[k] = s[k + 1]
         /\ Head(s) = s[1] /\ s[1] \in Call
  BY HeadTailProperties

(* A call is done.                                                           *)
LEMMA LastShift ==
  ASSUME NEW s, NEW c, NEW left \in Nat \ {0}, AndLast(left, c, s), NEW t, NEW n \in Nat,
         Len(s) = n, Len(t) = n - 1, \A k \in 1 .. n - 1 : t[k] = s[k + 1]
  PROVE  AndLast(left - 1, c, t)
<1>1. n = left \/ n = left + 1
  BY DEF AndLast
<1>2. Len(t) = left - 1 \/ Len(t) = (left - 1) + 1
  BY <1>1
<1>3. ASSUME n = left + 1 PROVE t[(left - 1) + 1] = Closes({c})
  <2>1. s[left + 1] = Closes({c})
    BY <1>3 DEF AndLast
  <2>2. left \in 1 .. n - 1 /\ (left - 1) + 1 = left
    BY <1>3
  <2>3. t[left] = s[left + 1]
    BY <2>2
  <2> QED
    BY <2>1, <2>2, <2>3
<1>4. Len(t) = (left - 1) + 1 => n = left + 1
  OBVIOUS
<1> QED
  BY <1>2, <1>3, <1>4 DEF AndLast

LEMMA OdrShift ==
  ASSUME NEW s \in Seq(Call), NEW c, NEW left \in 1 .. 6, InOdr(left, c, s)
  PROVE  /\ s # <<>> /\ OdrCall(c, 7 - left, s[1])
         /\ left = 1 => AndLast(0, c, Tail(s))
         /\ left > 1 => InOdr(left - 1, c, Tail(s))
<1> DEFINE t == Tail(s)
<1>1. s # <<>>
  BY DEF InOdr, AndLast
<1>2. OdrCall(c, 6 - left + 1, s[1]) /\ 6 - left + 1 = 7 - left
  BY DEF InOdr
<1>3. PICK n \in Nat : /\ Len(s) = n /\ Len(t) = n - 1
                       /\ \A k \in 1 .. n - 1 : t[k] = s[k + 1]
  BY <1>1, TailOf
<1> HIDE DEF t
<1>4. AndLast(left - 1, c, t)
  BY <1>3, LastShift DEF InOdr
<1>5. n = left \/ n = left + 1
  BY <1>3 DEF InOdr, AndLast
<1>6. ASSUME NEW k \in 1 .. left - 1 PROVE OdrCall(c, 6 - (left - 1) + k, t[k])
  <2>1. k \in 1 .. n - 1 /\ k + 1 \in 1 .. left
    BY <1>5
  <2>2. OdrCall(c, 6 - left + (k + 1), s[k + 1])
    BY <2>1 DEF InOdr
  <2>3. t[k] = s[k + 1] /\ 6 - (left - 1) + k = 6 - left + (k + 1)
    BY <1>3, <2>1
  <2> QED
    BY <2>2, <2>3
<1>7. ASSUME left = 1 PROVE AndLast(0, c, t)
  BY <1>4, <1>7
<1>8. ASSUME left > 1 PROVE InOdr(left - 1, c, t)
  BY <1>4, <1>6 DEF InOdr
<1> QED
  BY <1>1, <1>2, <1>7, <1>8 DEF t

LEMMA CalShift ==
  ASSUME NEW s \in Seq(Call), NEW c, NEW left \in 1 .. 9, InCal(left, c, s)
  PROVE  /\ s # <<>> /\ CalCall(c, 10 - left, s[1])
         /\ left = 1 => AndLast(0, c, Tail(s))
         /\ left > 1 => InCal(left - 1, c, Tail(s))
<1> DEFINE t == Tail(s)
<1>1. s # <<>>
  BY DEF InCal, AndLast
<1>2. CalCall(c, 9 - left + 1, s[1]) /\ 9 - left + 1 = 10 - left
  BY DEF InCal
<1>3. PICK n \in Nat : /\ Len(s) = n /\ Len(t) = n - 1
                       /\ \A k \in 1 .. n - 1 : t[k] = s[k + 1]
  BY <1>1, TailOf
<1> HIDE DEF t
<1>4. AndLast(left - 1, c, t)
  BY <1>3, LastShift DEF InCal
<1>5. n = left \/ n = left + 1
  BY <1>3 DEF InCal, AndLast
<1>6. ASSUME NEW k \in 1 .. left - 1 PROVE CalCall(c, 9 - (left - 1) + k, t[k])
  <2>1. k \in 1 .. n - 1 /\ k + 1 \in 1 .. left
    BY <1>5
  <2>2. CalCall(c, 9 - left + (k + 1), s[k + 1])
    BY <2>1 DEF InCal
  <2>3. t[k] = s[k + 1] /\ 9 - (left - 1) + k = 9 - left + (k + 1)
    BY <1>3, <2>1
  <2> QED
    BY <2>2, <2>3
<1>7. ASSUME left = 1 PROVE AndLast(0, c, t)
  BY <1>4, <1>7
<1>8. ASSUME left > 1 PROVE InCal(left - 1, c, t)
  BY <1>4, <1>6 DEF InCal
<1> QED
  BY <1>1, <1>2, <1>7, <1>8 DEF t

(* A loop over the inputs has done one and goes on.                          *)
Shortened(s, call) == <<call>> \o Tail(s)

LEMMA ShortenedType ==
  ASSUME NEW s \in Seq(Call), s # <<>>, NEW call \in Call
  PROVE  /\ Shortened(s, call) \in Seq(Call) /\ Len(Shortened(s, call)) = Len(s)
         /\ Shortened(s, call)[1] = call
         /\ \A k \in 2 .. Len(s) : Shortened(s, call)[k] = s[k]
<1>1. <<call>> \in Seq(Call) /\ Len(<<call>>) = 1 /\ <<call>>[1] = call
  OBVIOUS
<1>2. /\ Tail(s) \in Seq(Call) /\ Len(Tail(s)) = Len(s) - 1 /\ Len(s) \in Nat \ {0}
      /\ \A k \in 1 .. Len(s) - 1 : Tail(s)[k] = s[k + 1]
  BY TailOf
<1> DEFINE a == <<call>>  b == Tail(s)
<1> HIDE DEF a, b
<1>3. a \in Seq(Call) /\ b \in Seq(Call)
  BY <1>1, <1>2 DEF a, b
<1>4. PICK n \in Nat \ {0} : n = Len(s)
  BY <1>2
<1>5. Len(a) = 1 /\ Len(b) = n - 1 /\ a[1] = call
  BY <1>1, <1>2, <1>4 DEF a, b
<1>8. /\ a \o b \in Seq(Call) /\ Len(a \o b) = Len(a) + Len(b)
      /\ \A i \in 1 .. Len(a) + Len(b) :
           (a \o b)[i] = IF i <= Len(a) THEN a[i] ELSE b[i - Len(a)]
  BY <1>3, ConcatProperties
<1>6. a \o b \in Seq(Call) /\ Len(a \o b) = n /\ (a \o b)[1] = call
  BY <1>5, <1>8
<1>7. ASSUME NEW k \in 2 .. n PROVE (a \o b)[k] = s[k]
  <2>1. k \in 1 .. Len(a) + Len(b) /\ ~(k <= Len(a)) /\ k - Len(a) = k - 1
    BY <1>5
  <2>2. (a \o b)[k] = b[k - 1]
    BY <1>8, <2>1
  <2>3. k - 1 \in 1 .. n - 1 /\ (k - 1) + 1 = k
    OBVIOUS
  <2>4. \A j \in 1 .. n - 1 : b[j] = s[j + 1]
    BY <1>2, <1>4 DEF b
  <2> QED
    BY <2>2, <2>3, <2>4
<1> QED
  BY <1>4, <1>6, <1>7 DEF Shortened, a, b

LEMMA CalShortened ==
  ASSUME NEW s \in Seq(Call), NEW c, NEW left \in 1 .. 9, InCal(left, c, s),
         NEW call \in Call, CalCall(c, 10 - left, call)
  PROVE  InCal(left, c, Shortened(s, call))
<1> DEFINE t == Shortened(s, call)
<1>1. s # <<>>
  BY CalShift
<1>3. PICK n \in Nat \ {0} :
        Len(s) = n /\ Len(t) = n /\ t[1] = call /\ \A k \in 2 .. n : t[k] = s[k]
  BY <1>1, TailOf, ShortenedType
<1> HIDE DEF t
<1>4. n = left \/ n = left + 1
  BY <1>3 DEF InCal, AndLast
<1>5. AndLast(left, c, t)
  <2>1. ASSUME n = left + 1 PROVE t[left + 1] = Closes({c})
    <3>1. left + 1 \in 2 .. n
      BY <2>1
    <3>2. s[left + 1] = Closes({c})
      BY <1>3, <2>1 DEF InCal, AndLast
    <3> QED
      BY <1>3, <3>1, <3>2
  <2> QED
    BY <1>3, <1>4, <2>1 DEF AndLast
<1>6. ASSUME NEW k \in 1 .. left PROVE CalCall(c, 9 - left + k, t[k])
  <2>1. CASE k = 1
    <3>1. 9 - left + 1 = 10 - left
      OBVIOUS
    <3> QED
      BY <1>3, <2>1, <3>1
  <2>2. CASE k # 1
    <3>1. k \in 2 .. n
      BY <1>4, <2>2
    <3> QED
      BY <1>3, <3>1 DEF InCal
  <2> QED
    BY <2>1, <2>2
<1> QED
  BY <1>5, <1>6 DEF InCal, t

-----------------------------------------------------------------------------
(* What the place of a handler says of the call it is about to make.         *)
LEMMA LastCallIs ==
  ASSUME NEW s \in Seq(Call), s # <<>>, NEW c, AndLast(0, c, s)
  PROVE  s[1] = Closes({c}) /\ Len(s) = 1 /\ s[1].op = "enable"
<1>1. PICK n \in Nat \ {0} : Len(s) = n
  BY TailOf
<1>2. n = 1
  BY <1>1 DEF AndLast
<1>3. s[1] = Closes({c})
  BY <1>1, <1>2 DEF AndLast
<1> QED
  BY <1>1, <1>2, <1>3, CallsApart

LEMMA OdrOp ==
  ASSUME NEW c, NEW place \in 1 .. 6, NEW call, OdrCall(c, place, call)
  PROVE  /\ place \in {1, 5} => call.op = "enable"
         /\ place \in {2, 4} => call.op = "wait"
         /\ place = 3 => call.op = "odr"
         /\ place = 6 => call.op = "calibrate"
<1>1. CASE place = 1
  BY <1>1, CallsApart DEF OdrCall
<1>2. CASE place = 2
  BY <1>2, CallsApart DEF OdrCall
<1>3. CASE place = 3
  BY <1>3, CallsApart DEF OdrCall
<1>4. CASE place = 4
  BY <1>4, CallsApart DEF OdrCall
<1>5. CASE place = 5
  BY <1>5, CallsApart DEF OdrCall
<1>6. CASE place = 6
  BY <1>6, CallsApart DEF OdrCall
<1> QED
  BY <1>1, <1>2, <1>3, <1>4, <1>5, <1>6

LEMMA CalOp ==
  ASSUME NEW c, NEW place \in 1 .. 9, NEW call, CalCall(c, place, call)
  PROVE  /\ place \in {1, 2, 7} => call.op = "enable"
         /\ place \in {3, 5, 8} => call.op = "wait"
         /\ place \in {4, 6, 9} => call.op = "mode"
<1>1. CASE place \in {1, 7}
  <2>1. call = Opens(call.chans) \/ call = Closes(call.chans)
    BY <1>1 DEF CalCall
  <2>2. call.op = "enable"
    BY <2>1, CallsApart
  <2> QED
    BY <1>1, <2>2
<1>2. CASE place = 2
  BY <1>2, CallsApart DEF CalCall
<1>3. CASE place \in {3, 5, 8}
  BY <1>3, CallsApart DEF CalCall
<1>4. CASE place \in {4, 6, 9}
  BY <1>4, CallsApart DEF CalCall
<1> QED
  BY <1>1, <1>2, <1>3, <1>4

LEMMA CalibrateNext ==
  ASSUME TypeOK, Place, ~busFaults, todo # <<>>, Head(todo).op = "calibrate"
  PROVE  InOdr(1, self, todo) /\ chipMode = "CONTINUOUS"
<1>1. todo \in Seq(Call) /\ Head(todo) = todo[1]
  BY TailOf DEF TypeOK
<1>2. ~AndLast(0, self, todo)
  BY <1>1, LastCallIs
<1>3. ASSUME NEW left \in 1 .. 9, InCal(left, self, todo) PROVE FALSE
  <2>1. CalCall(self, 10 - left, todo[1]) /\ 10 - left \in 1 .. 9
    BY <1>1, <1>3, CalShift
  <2>2. todo[1].op \in {"enable", "wait", "mode"}
    BY <2>1, CalOp
  <2> QED
    BY <1>1, <2>2
<1>4. ASSUME NEW left \in 1 .. 6, InOdr(left, self, todo) PROVE left = 1
  <2>1. OdrCall(self, 7 - left, todo[1]) /\ 7 - left \in 1 .. 6
    BY <1>1, <1>4, OdrShift
  <2>2. 7 - left # 6 => todo[1].op \in {"enable", "wait", "odr"}
    BY <2>1, OdrOp
  <2> QED
    BY <1>1, <2>2
<1> QED
  BY <1>2, <1>3, <1>4 DEF Place

LEMMA OdrNext ==
  ASSUME TypeOK, Place, ~busFaults, todo # <<>>, Head(todo).op = "odr"
  PROVE  InOdr(4, self, todo) /\ chipMode = "CONTINUOUS"
<1>1. todo \in Seq(Call) /\ Head(todo) = todo[1]
  BY TailOf DEF TypeOK
<1>2. ~AndLast(0, self, todo)
  BY <1>1, LastCallIs
<1>3. ASSUME NEW left \in 1 .. 9, InCal(left, self, todo) PROVE FALSE
  <2>1. CalCall(self, 10 - left, todo[1]) /\ 10 - left \in 1 .. 9
    BY <1>1, <1>3, CalShift
  <2>2. todo[1].op \in {"enable", "wait", "mode"}
    BY <2>1, CalOp
  <2> QED
    BY <1>1, <2>2
<1>4. ASSUME NEW left \in 1 .. 6, InOdr(left, self, todo) PROVE left = 4
  <2>1. PICK place \in 1 .. 6 : place = 7 - left /\ OdrCall(self, place, todo[1])
    BY <1>1, <1>4, OdrShift
  <2>2. CASE place \in {1, 5}
    BY <1>1, <2>1, <2>2, OdrOp
  <2>3. CASE place \in {2, 4}
    BY <1>1, <2>1, <2>3, OdrOp
  <2>4. CASE place = 6
    BY <1>1, <2>1, <2>4, OdrOp
  <2> QED
    BY <2>1, <2>2, <2>3, <2>4
<1> QED
  BY <1>2, <1>3, <1>4 DEF Place

LEMMA ModeNext ==
  ASSUME TypeOK, Place, ~busFaults, todo # <<>>, Head(todo).op = "mode"
  PROVE  \E left \in {1, 4, 6} : /\ InCal(left, self, todo) /\ ChipDuring(left)
                                 /\ CalCall(self, 10 - left, Head(todo))
<1>1. todo \in Seq(Call) /\ Head(todo) = todo[1]
  BY TailOf DEF TypeOK
<1>2. ~AndLast(0, self, todo)
  BY <1>1, LastCallIs
<1>3. ASSUME NEW left \in 1 .. 6, InOdr(left, self, todo) PROVE FALSE
  <2>1. OdrCall(self, 7 - left, todo[1]) /\ 7 - left \in 1 .. 6
    BY <1>1, <1>3, OdrShift
  <2>2. todo[1].op \in {"enable", "wait", "odr", "calibrate"}
    BY <2>1, OdrOp
  <2> QED
    BY <1>1, <2>2
<1>4. ASSUME NEW left \in 1 .. 9, InCal(left, self, todo)
      PROVE  left \in {1, 4, 6} /\ CalCall(self, 10 - left, todo[1])
  <2>1. CalCall(self, 10 - left, todo[1]) /\ 10 - left \in 1 .. 9
    BY <1>1, <1>4, CalShift
  <2>2. 10 - left \notin {4, 6, 9} => todo[1].op \in {"enable", "wait"}
    BY <2>1, CalOp
  <2> QED
    BY <1>1, <2>1, <2>2
<1> QED
  BY <1>1, <1>2, <1>3, <1>4 DEF Place

LEMMA AtRest ==
  ASSUME Place, ~busFaults, todo = <<>>
  PROVE  chipMode = "CONTINUOUS"
<1>1. Len(todo) = 0
  OBVIOUS
<1>2. ASSUME NEW left \in 1 .. 9, AndLast(left, self, todo) PROVE FALSE
  <2>1. Len(todo) = left \/ Len(todo) = left + 1
    BY <1>2 DEF AndLast
  <2> QED
    BY <1>1, <2>1
<1> QED
  BY <1>2 DEF Place, InOdr, InCal

-----------------------------------------------------------------------------
(* The handlers begin.                                                       *)
LEMMA TupleTypes ==
  ASSUME NEW S, NEW a \in S, NEW b \in S, NEW c \in S, NEW d \in S, NEW e \in S,
         NEW f \in S, NEW g \in S, NEW h \in S, NEW i \in S
  PROVE  /\ <<a>> \in Seq(S) /\ <<a, b>> \in Seq(S) /\ <<a, b, c, d, e>> \in Seq(S)
         /\ <<a, b, c, d, e, f, g, h, i>> \in Seq(S)
  OBVIOUS

LEMMA ScriptTypes ==
  ASSUME TypeOK, NEW c \in Channels
  PROVE  /\ \A rate \in Rates : OdrScript(c, rate) \in Seq(Call)
         /\ CalibrationScript(c) \in Seq(Call) /\ <<Calibrate(c)>> \in Seq(Call)
         /\ <<Calibrate(c), Closes({c})>> \in Seq(Call)
<1>1. /\ {c} \in SUBSET Channels /\ EnabledInputs \in SUBSET Channels
      /\ EnabledInputs \ {c} \in SUBSET Channels
  BY DEF EnabledInputs
<1>2. /\ Opens({c}) \in Call /\ Closes({c}) \in Call
      /\ Closes(EnabledInputs) \in Call
      /\ Opens(EnabledInputs \ {c}) \in Call
      /\ Calibrate(c) \in Call /\ Wait \in Call
  BY <1>1, CallTypes
<1>3. SetMode("CONTINUOUS") \in Call /\ SetMode("OFFSET") \in Call /\ SetMode("GAIN") \in Call
  BY CallTypes
<1>4. ASSUME NEW rate \in Rates PROVE OdrScript(c, rate) \in Seq(Call)
  <2>1. PICK r \in Inputs!OdrLut :
          r = IF rate \in Inputs!OdrLut THEN rate ELSE Inputs!OdrDefault
    BY DEF Inputs!OdrLut, Inputs!OdrDefault
  <2>2. SetOdr(c, r) \in Call
    BY CallTypes
  <2>3. \/ OdrScript(c, rate) = <<>>
        \/ OdrScript(c, rate)
             = <<Opens({c}), Wait, SetOdr(c, r), Wait, Closes({c})>>
    BY <2>1, Zenon DEF OdrScript, Opens, Closes
  <2>4. /\ <<Opens({c}), Wait, SetOdr(c, r), Wait, Closes({c})>> \in Seq(Call)
        /\ <<>> \in Seq(Call)
    <3> DEFINE w == Wait  x == Opens({c})  y == SetOdr(c, r)  z == Closes({c})
    <3>1. w \in Call /\ x \in Call /\ y \in Call /\ z \in Call
      BY <1>2, <2>2
    <3> HIDE DEF w, x, y, z
    <3>2. <<x, w, y, w, z>> \in Seq(Call)
      BY <3>1, TupleTypes
    <3> QED
      BY <3>2 DEF w, x, y, z
  <2> QED
    BY <2>3, <2>4
<1>5. CalibrationScript(c) \in Seq(Call)
  BY <1>2, <1>3, TupleTypes DEF CalibrationScript, Opens, Closes
<1>6. <<Calibrate(c)>> \in Seq(Call) /\ <<Calibrate(c), Closes({c})>> \in Seq(Call)
  BY <1>2, TupleTypes
<1> QED
  BY <1>4, <1>5, <1>6

LEMMA OdrBegins ==
  ASSUME TypeOK, NEW c \in Channels, NEW rate \in Rates
  PROVE  \E left \in 1 .. 6 : InOdr(left, c, OdrScript(c, rate) \o <<Calibrate(c)>>)
<1> DEFINE a == OdrScript(c, rate)  b == <<Calibrate(c)>>
<1>1. a \in Seq(Call) /\ b \in Seq(Call) /\ Len(b) = 1 /\ b[1] = Calibrate(c)
  BY ScriptTypes
<1>2. CASE rate = Inputs!OdrDefault
  <2>1. a = <<>>
    BY <1>2 DEF OdrScript
  <2>2. a \o b = b
    BY <1>1, <2>1, ConcatEmptySeq
  <2> HIDE DEF a, b
  <2>3. OdrCall(c, 6, b[1])
    BY <1>1 DEF OdrCall
  <2>4. InOdr(1, c, b)
    BY <1>1, <2>3 DEF InOdr, AndLast
  <2>5. InOdr(1, c, a \o b)
    BY <2>2, <2>4
  <2> QED
    BY <2>5 DEF a, b
<1>3. CASE rate # Inputs!OdrDefault
  <2>1. PICK r : a = <<Opens({c}), Wait, SetOdr(c, r), Wait, Closes({c})>>
    BY <1>3 DEF OdrScript, Opens, Closes
  <2>2. /\ Len(a) = 5 /\ a[1] = Opens({c}) /\ a[2] = Wait /\ a[3].op = "odr"
        /\ a[4] = Wait /\ a[5] = Closes({c})
    BY <2>1 DEF SetOdr
  <2> HIDE DEF a, b
  <2>3. /\ Len(a \o b) = Len(a) + Len(b)
        /\ \A i \in 1 .. Len(a) + Len(b) :
             (a \o b)[i] = IF i <= Len(a) THEN a[i] ELSE b[i - Len(a)]
    BY <1>1, ConcatProperties
  <2> DEFINE t == a \o b
  <2>4. Len(t) = 6
    BY <1>1, <2>2, <2>3
  <2>5. t[1] = a[1] /\ t[2] = a[2] /\ t[3] = a[3] /\ t[4] = a[4] /\ t[5] = a[5] /\ t[6] = b[1]
    BY <1>1, <2>2, <2>3
  <2> HIDE DEF t
  <2>6. /\ OdrCall(c, 1, t[1]) /\ OdrCall(c, 2, t[2]) /\ OdrCall(c, 3, t[3])
        /\ OdrCall(c, 4, t[4]) /\ OdrCall(c, 5, t[5]) /\ OdrCall(c, 6, t[6])
    BY <1>1, <2>2, <2>5 DEF OdrCall
  <2>7. ASSUME NEW k \in 1 .. 6 PROVE OdrCall(c, k, t[k])
    BY <2>6
  <2>8. ASSUME NEW k \in 1 .. 6 PROVE OdrCall(c, 6 - 6 + k, t[k])
    <3>1. 6 - 6 + k = k
      OBVIOUS
    <3> QED
      BY <2>7, <3>1
  <2>9. AndLast(6, c, t)
    BY <2>4 DEF AndLast
  <2>10. InOdr(6, c, t)
    BY <2>8, <2>9 DEF InOdr
  <2> QED
    BY <2>10 DEF t, a, b
<1> QED
  BY <1>2, <1>3

LEMMA CalBegins ==
  ASSUME TypeOK, NEW c \in Channels, NEW s \in Seq(Call), AndLast(0, c, s)
  PROVE  /\ InCal(9, c, CalibrationScript(c) \o s)
         /\ (CalibrationScript(c) \o s)[1] = Closes(EnabledInputs)
<1> DEFINE a == CalibrationScript(c)
<1>1. a \in Seq(Call)
  BY ScriptTypes
<1>2. /\ Len(a) = 9 /\ a[1] = Closes(EnabledInputs) /\ a[2] = Opens({c})
      /\ a[3] = Wait /\ a[4] = SetMode("OFFSET") /\ a[5] = Wait /\ a[6] = SetMode("GAIN")
      /\ a[7] = Opens(EnabledInputs \ {c}) /\ a[8] = Wait
      /\ a[9] = SetMode("CONTINUOUS")
  BY DEF CalibrationScript, Opens, Closes
<1>3. a[1] = Closes(a[1].chans) /\ a[7] = Opens(a[7].chans)
  <2>1. a[1].chans = EnabledInputs /\ a[7].chans = EnabledInputs \ {c}
    BY <1>2, CallsApart
  <2> QED
    BY <1>2, <2>1
<1> HIDE DEF a
<1>4. /\ Len(a \o s) = Len(a) + Len(s)
      /\ \A i \in 1 .. Len(a) + Len(s) :
           (a \o s)[i] = IF i <= Len(a) THEN a[i] ELSE s[i - Len(a)]
  BY <1>1, ConcatProperties
<1>13. Len(s) \in 0 .. 1
  BY DEF AndLast
<1>5. PICK n \in 0 .. 1 : Len(s) = n
  BY <1>13
<1>10. ASSUME n = 1 PROVE s[1] = Closes({c})
  <2>1. s # <<>>
    BY <1>5, <1>10
  <2> QED
    BY <2>1, LastCallIs
<1> DEFINE t == a \o s
<1>6. Len(t) = 9 + n /\ \A k \in 1 .. 9 : t[k] = a[k]
  BY <1>2, <1>4, <1>5
<1>7. ASSUME n = 1 PROVE t[10] = Closes({c})
  <2>1. 10 \in 1 .. Len(a) + Len(s) /\ ~(10 <= Len(a)) /\ 10 - Len(a) = 1
    BY <1>2, <1>5, <1>7
  <2>2. t[10] = s[1]
    BY <1>4, <2>1
  <2> QED
    BY <1>7, <1>10, <2>2
<1> HIDE DEF t
<1>8. t[1] = Closes(EnabledInputs)
  <2>1. t[1] = a[1]
    BY <1>6
  <2> QED
    BY <1>2, <2>1
<1>9. AndLast(9, c, t)
  <2>1. CASE n = 0
    <3>1. Len(t) = 9
      BY <1>6, <2>1
    <3> QED
      BY <3>1 DEF AndLast
  <2>2. CASE n = 1
    <3>1. Len(t) = 10 /\ t[10] = Closes({c})
      BY <1>6, <1>7, <2>2
    <3>2. Len(t) = 9 + 1 /\ t[9 + 1] = Closes({c})
      BY <3>1
    <3> QED
      BY <3>2 DEF AndLast
  <2> QED
    BY <2>1, <2>2
<1>11. ASSUME NEW k \in 1 .. 9 PROVE CalCall(c, 9 - 9 + k, t[k])
  <2>1. /\ CalCall(c, 1, a[1]) /\ CalCall(c, 2, a[2]) /\ CalCall(c, 3, a[3])
        /\ CalCall(c, 4, a[4]) /\ CalCall(c, 5, a[5]) /\ CalCall(c, 6, a[6])
        /\ CalCall(c, 7, a[7]) /\ CalCall(c, 8, a[8]) /\ CalCall(c, 9, a[9])
    BY <1>2, <1>3 DEF CalCall
  <2>2. CalCall(c, k, a[k])
    BY <2>1
  <2>3. t[k] = a[k] /\ 9 - 9 + k = k
    BY <1>6
  <2> QED
    BY <2>2, <2>3
<1> QED
  BY <1>8, <1>9, <1>11 DEF InCal, t, a

-----------------------------------------------------------------------------
(* The types, call by call.                                                  *)
LEMMA InitInv == Init => Inv
<1> SUFFICES ASSUME Init PROVE Inv
  OBVIOUS
<1> USE DEF Init
<1>1. TypeOK
  <2>1. /\ Inputs!OdrDefault \in Inputs!OdrLut /\ 0 \in Channels /\ MaxPolls \in 1 .. MaxPolls
        /\ Inputs!NoData \in Results /\ Inputs!NoData \in Results \cup {CalDone}
        /\ BootData \in Results
    BY NumChannelsAssumption, AdcDriverAssumption
       DEF Inputs!OdrDefault, Inputs!OdrLut, Channels, Results, BootData, Inputs!Sample,
           Inputs!DacCodes, Inputs!Channels
  <2> QED
    BY <2>1 DEF TypeOK, ChipModes
<1>2. MapMatchesChip /\ PollInv
  BY DEF MapMatchesChip, PollInv
<1>3. Place
  <2>1. Len(todo) = 0
    OBVIOUS
  <2> QED
    BY <2>1 DEF Place, AndLast
<1> QED
  BY <1>1, <1>2, <1>3 DEF Inv

LEMMA TodoType ==
  ASSUME TypeOK, [Next]_vars
  PROVE  todo' \in Seq(Call)
<1>1. todo \in Seq(Call) /\ self \in Channels
  BY DEF TypeOK
<1>2. CASE RegisterCall
  BY <1>1, <1>2, TailOf DEF RegisterCall
<1>3. CASE EnableInputs
  <2>1. /\ todo # <<>> /\ Head(todo).op = "enable"
        /\ Head(todo) \in Call /\ Tail(todo) \in Seq(Call)
    BY <1>1, <1>3, TailOf DEF EnableInputs
  <2>2. CASE todo' = Tail(todo)
    BY <2>1, <2>2
  <2>3. ASSUME NEW c, todo' = <<Enable(Head(todo).chans \ {c}, Head(todo).val)>> \o Tail(todo)
        PROVE  todo' \in Seq(Call)
    <3> DEFINE call == Enable(Head(todo).chans \ {c}, Head(todo).val)
    <3>1. Head(todo).chans \in SUBSET Channels /\ Head(todo).val \in BOOLEAN
      BY <2>1, CallParts
    <3>2. Head(todo).chans \ {c} \in SUBSET Channels
      BY <3>1
    <3>3. call \in Call
      BY <3>1, <3>2, Zenon DEF Call, Enable
    <3> HIDE DEF call
    <3>4. todo' = Shortened(todo, call)
      BY <2>3 DEF Shortened, call
    <3> QED
      BY <1>1, <2>1, <3>3, <3>4, ShortenedType
  <2> QED
    BY <1>3, <2>2, <2>3 DEF EnableInputs
<1>4. CASE BeginCalibration
  <2>1. Tail(todo) \in Seq(Call) /\ CalibrationScript(self) \in Seq(Call)
    BY <1>1, <1>4, TailOf, ScriptTypes DEF BeginCalibration
  <2> QED
    BY <1>4, <2>1, ConcatProperties DEF BeginCalibration
<1>5. CASE WaitForReady
  BY <1>1, <1>5, TailOf DEF WaitForReady
<1>6. ASSUME NEW c \in Channels, NEW rate \in Rates, UpdateOdr(c, rate)
      PROVE  todo' \in Seq(Call)
  <2>1. OdrScript(c, rate) \in Seq(Call) /\ <<Calibrate(c)>> \in Seq(Call)
    BY ScriptTypes
  <2> QED
    BY <1>6, <2>1, ConcatProperties DEF UpdateOdr
<1>7. ASSUME NEW c \in Channels, InitCalibration(c) PROVE todo' \in Seq(Call)
  <2>1. <<Calibrate(c), Closes({c})>> \in Seq(Call)
    BY ScriptTypes
  <2> QED
    BY <1>7, <2>1 DEF InitCalibration, Closes
<1>8. ASSUME NEW c \in Channels, NEW on \in BOOLEAN, EnableInput(c, on)
      PROVE  todo' \in Seq(Call)
  BY <1>1, <1>8 DEF EnableInput
<1>9. ASSUME NEW c \in Channels, Convert(c) PROVE todo' \in Seq(Call)
  BY <1>1, <1>9 DEF Convert
<1>10. CASE ReadData
  BY <1>1, <1>10 DEF ReadData
<1>11. CASE Dispatch
  BY <1>1, <1>11 DEF Dispatch
<1>12. CASE Calibrated
  BY <1>1, <1>12 DEF Calibrated
<1>13. CASE UNCHANGED vars
  BY <1>1, <1>13 DEF vars
<1> QED
  BY <1>2, <1>3, <1>4, <1>5, <1>6, <1>7, <1>8, <1>9, <1>10, <1>11, <1>12, <1>13
     DEF Next, Handler

LEMMA StatusType ==
  ASSUME TypeOK, NEW c \in Channels, NEW on \in BOOLEAN, NEW ok, SetChannelStatus(c, on, ok)
  PROVE  /\ chipEn' \in [Channels -> BOOLEAN] /\ chan_map' \in [Channels -> BOOLEAN]
         /\ UNCHANGED <<chipOdr, chipMode, chipOut>>
  BY DEF TypeOK, SetChannelStatus

LEMMA TypeStep ==
  ASSUME TypeOK, [Next]_vars
  PROVE  TypeOK'
<1>1. todo' \in Seq(Call)
  BY TodoType
<1>2. /\ todo # <<>> => Head(todo) \in Call
      /\ Inputs!NoData \in Results /\ MaxPolls \in 1 .. MaxPolls
  BY TailOf, AdcDriverAssumption DEF TypeOK, Results
<1> USE DEF given, chipVars, readVars
<1>3. CASE RegisterCall
  <2>1. PICK ok \in Outcomes :
          \/ /\ Head(todo).op = "odr"
             /\ \E c \in Head(todo).chans : ConfigureDeviceOdr(c, Head(todo).val, ok)
          \/ Head(todo).op = "mode" /\ WriteMode(Head(todo).val, ok)
    BY <1>3 DEF RegisterCall
  <2>2. Head(todo) \in Call
    BY <1>2, <1>3 DEF RegisterCall
  <2>3. /\ chipEn' = chipEn /\ chan_map' = chan_map /\ chipOdr' \in [Channels -> Inputs!OdrLut]
        /\ chipMode' \in ChipModes /\ chipOut' \in Results \cup {CalDone}
    <3>1. ASSUME NEW c \in Head(todo).chans, Head(todo).op = "odr",
                 ConfigureDeviceOdr(c, Head(todo).val, ok)
          PROVE  <2>3!:
      <4>1. Head(todo).val \in Inputs!OdrLut
        BY <2>2, <3>1, CallParts
      <4> QED
        BY <3>1, <4>1 DEF ConfigureDeviceOdr, TypeOK
    <3>2. ASSUME Head(todo).op = "mode", WriteMode(Head(todo).val, ok)
          PROVE  <2>3!:
      <4>1. Head(todo).val \in ChipModes
        BY <2>2, <3>2, CallParts DEF ChipModes
      <4> QED
        BY <1>2, <3>2, <4>1 DEF WriteMode, TypeOK
    <3> QED
      BY <2>1, <3>1, <3>2
  <2> QED
    BY <1>1, <1>3, <2>3 DEF RegisterCall, TypeOK
<1>4. CASE EnableInputs
  <2>1. Head(todo) \in Call /\ Head(todo).op = "enable"
    BY <1>2, <1>4 DEF EnableInputs
  <2>2. Head(todo).val \in BOOLEAN /\ Head(todo).chans \in SUBSET Channels
    BY <2>1, CallParts
  <2>3. /\ chipEn' \in [Channels -> BOOLEAN] /\ chan_map' \in [Channels -> BOOLEAN]
        /\ UNCHANGED <<chipOdr, chipMode, chipOut>>
    <3>1. CASE UNCHANGED <<chipVars, chan_map>>
      BY <3>1 DEF TypeOK
    <3>2. ASSUME NEW c \in Head(todo).chans, NEW ok, SetChannelStatus(c, Head(todo).val, ok)
          PROVE  <2>3!:
      <4>1. c \in Channels
        BY <2>2
      <4> QED
        BY <2>2, <3>2, <4>1, StatusType
    <3> QED
      BY <1>4, <3>1, <3>2 DEF EnableInputs
  <2> QED
    BY <1>1, <1>4, <2>3 DEF EnableInputs, TypeOK
<1>5. CASE BeginCalibration
  BY <1>1, <1>5 DEF BeginCalibration, TypeOK
<1>6. CASE WaitForReady
  <2>1. polls' \in 1 .. MaxPolls
    <3>1. CASE polls' = MaxPolls
      BY <1>2, <3>1
    <3>2. CASE polls # 1 /\ polls' = polls - 1
      BY <3>2, AdcDriverAssumption DEF TypeOK
    <3> QED
      BY <1>6, <3>1, <3>2 DEF WaitForReady
  <2> QED
    BY <1>1, <1>6, <2>1 DEF WaitForReady, TypeOK
<1>7. ASSUME NEW c \in Channels, NEW on \in BOOLEAN, EnableInput(c, on) PROVE TypeOK'
  <2>1. PICK ok \in Outcomes : SetChannelStatus(c, on, ok)
    BY <1>7 DEF EnableInput
  <2>2. /\ chipEn' \in [Channels -> BOOLEAN] /\ chan_map' \in [Channels -> BOOLEAN]
        /\ UNCHANGED <<chipOdr, chipMode, chipOut>>
    BY <2>1, StatusType
  <2> QED
    BY <1>1, <1>7, <2>2 DEF EnableInput, TypeOK
<1>8. ASSUME NEW c \in Channels, NEW rate \in Rates, UpdateOdr(c, rate) PROVE TypeOK'
  BY <1>1, <1>8 DEF UpdateOdr, TypeOK
<1>9. ASSUME NEW c \in Channels, InitCalibration(c) PROVE TypeOK'
  BY <1>1, <1>9 DEF InitCalibration, TypeOK
<1>10. ASSUME NEW c \in Channels, Convert(c) PROVE TypeOK'
  <2>1. [ch_num |-> c, code |-> 0] \in Results
    BY DEF Results, Inputs!Sample, Inputs!DacCodes, Channels, Inputs!Channels
  <2> QED
    BY <1>1, <1>10, <2>1 DEF Convert, TypeOK
<1>11. CASE ReadData
  <2>1. Decoded(chipOut) \subseteq Results
    <3>1. CASE chipOut = CalDone
      BY <3>1 DEF Decoded, Results, Inputs!Sample, Inputs!DacCodes, Channels, Inputs!Channels
    <3>2. CASE chipOut # CalDone
      BY <3>2 DEF Decoded, TypeOK
    <3> QED
      BY <3>1, <3>2
  <2>2. /\ dataReg' \in Results /\ chipOut' \in Results \cup {CalDone}
        /\ age' \in {"boot", "earlier", "now"}
    BY <1>2, <1>11, <2>1 DEF ReadData, TypeOK
  <2>3. pollPc' \in {"out", "read", "dispatch"}
    BY <1>11 DEF ReadData
  <2> QED
    BY <1>1, <1>11, <2>2, <2>3 DEF ReadData, TypeOK
<1>12. CASE Dispatch
  BY <1>1, <1>12 DEF Dispatch, TypeOK
<1>13. CASE Calibrated
  BY <1>1, <1>13 DEF Calibrated, TypeOK, ChipModes
<1>14. CASE UNCHANGED vars
  BY <1>1, <1>14 DEF vars, TypeOK
<1> QED
  BY <1>3, <1>4, <1>5, <1>6, <1>7, <1>8, <1>9, <1>10, <1>11, <1>12, <1>13, <1>14
     DEF Next, Handler

-----------------------------------------------------------------------------
(* The chip and the map, call by call.                                       *)
LEMMA MapStep ==
  ASSUME MapMatchesChip, [Next]_vars
  PROVE  MapMatchesChip'
<1> USE DEF MapMatchesChip, chipVars
<1>1. ASSUME NEW c, NEW on, NEW ok, SetChannelStatus(c, on, ok) PROVE MapMatchesChip'
  BY <1>1 DEF SetChannelStatus
<1>2. CASE RegisterCall
  BY <1>2 DEF RegisterCall, ConfigureDeviceOdr, WriteMode
<1>3. CASE EnableInputs
  BY <1>1, <1>3 DEF EnableInputs
<1>4. CASE BeginCalibration
  BY <1>4 DEF BeginCalibration
<1>5. CASE WaitForReady
  BY <1>5 DEF WaitForReady
<1>6. ASSUME NEW c \in Channels, NEW on \in BOOLEAN, EnableInput(c, on) PROVE MapMatchesChip'
  BY <1>1, <1>6 DEF EnableInput
<1>7. ASSUME NEW c \in Channels, NEW rate \in Rates, UpdateOdr(c, rate) PROVE MapMatchesChip'
  BY <1>7 DEF UpdateOdr
<1>8. ASSUME NEW c \in Channels, InitCalibration(c) PROVE MapMatchesChip'
  BY <1>8 DEF InitCalibration
<1>9. ASSUME NEW c \in Channels, Convert(c) PROVE MapMatchesChip'
  BY <1>9 DEF Convert
<1>10. CASE ReadData
  BY <1>10 DEF ReadData
<1>11. CASE Dispatch
  BY <1>11 DEF Dispatch
<1>12. CASE Calibrated
  BY <1>12 DEF Calibrated
<1>13. CASE UNCHANGED vars
  BY <1>13 DEF vars
<1> QED
  BY <1>2, <1>3, <1>4, <1>5, <1>6, <1>7, <1>8, <1>9, <1>10, <1>11, <1>12, <1>13
     DEF Next, Handler

(* Only the poll loop touches what it dispatches.                            *)
LEMMA PollStep ==
  ASSUME PollInv, [Next]_vars
  PROVE  PollInv'
<1> USE DEF PollInv, readVars
<1>1. CASE ReadData
  <2>1. CASE dataReg' = Inputs!NoData
    BY <1>1, <2>1 DEF ReadData
  <2>2. CASE dataReg' # Inputs!NoData
    <3>1. pollPc' = "dispatch"
      BY <1>1, <2>2 DEF ReadData
    <3>2. age' = "now" \/ dataReg' = dataReg
      BY <1>1 DEF ReadData
    <3>3. ASSUME age' # "now"
          PROVE  /\ age' = IF pollPc = "out" /\ age = "now" THEN "earlier" ELSE age
                 /\ pollPc \in {"out", "read"} /\ dataReg # Inputs!NoData
      BY <1>1, <2>2, <3>3 DEF ReadData
    <3>4. age' # "earlier"
      BY <3>3
    <3> QED
      BY <3>1, <3>4
  <2> QED
    BY <2>1, <2>2
<1>2. CASE Dispatch
  BY <1>2 DEF Dispatch
<1>3. CASE Handler
  BY <1>3 DEF Handler, RegisterCall, EnableInputs, BeginCalibration, WaitForReady
<1>4. ASSUME NEW c \in Channels,
             \/ \E on \in BOOLEAN : EnableInput(c, on)
             \/ \E rate \in Rates : UpdateOdr(c, rate)
             \/ InitCalibration(c) \/ Convert(c)
      PROVE  PollInv'
  BY <1>4 DEF EnableInput, UpdateOdr, InitCalibration, Convert
<1>5. CASE Calibrated
  BY <1>5 DEF Calibrated
<1>6. CASE UNCHANGED vars
  BY <1>6 DEF vars
<1> QED
  BY <1>1, <1>2, <1>3, <1>4, <1>5, <1>6 DEF Next

-----------------------------------------------------------------------------
(* The place of the handler, call by call.                                   *)
LEMMA RegisterPlace ==
  ASSUME TypeOK, Place, RegisterCall
  PROVE  Place'
<1> SUFFICES ASSUME ~busFaults' PROVE Place'
  BY DEF Place
<1>1. /\ ~busFaults /\ todo # <<>> /\ todo' = Tail(todo) /\ self' = self /\ slow' = slow
      /\ todo \in Seq(Call) /\ Head(todo) = todo[1]
  BY TailOf DEF RegisterCall, given, TypeOK
<1>2. CASE Head(todo).op = "odr"
  <2>1. chipMode' = chipMode
    BY <1>2 DEF RegisterCall, ConfigureDeviceOdr
  <2>2. InOdr(4, self, todo) /\ chipMode = "CONTINUOUS"
    BY <1>1, <1>2, OdrNext
  <2>3. InOdr(3, self, Tail(todo))
    BY <1>1, <2>2, OdrShift
  <2>4. InOdr(3, self', todo') /\ chipMode' = "CONTINUOUS"
    BY <1>1, <2>1, <2>2, <2>3
  <2> QED
    BY <2>4 DEF Place
<1>3. CASE Head(todo).op = "mode"
  <2>1. /\ chipMode' = Head(todo).val /\ chipOut' = Inputs!NoData
        /\ chipEn' = chipEn
    BY <1>1, <1>3 DEF RegisterCall, WriteMode, Outcomes
  <2>2. PICK left \in {1, 4, 6} : /\ InCal(left, self, todo) /\ ChipDuring(left)
                                  /\ CalCall(self, 10 - left, Head(todo))
    BY <1>1, <1>3, ModeNext
  <2>3. CASE left = 6
    <3>1. chipMode' = "OFFSET"
      BY <2>1, <2>2, <2>3, CallsApart DEF CalCall
    <3>2. InCal(5, self', todo')
      BY <1>1, <2>2, <2>3, CalShift
    <3>3. ChipDuring(5)'
      BY <1>1, <2>1, <2>2, <2>3, <3>1 DEF ChipDuring
    <3> QED
      BY <3>2, <3>3 DEF Place
  <2>4. CASE left = 4
    <3>1. chipMode' = "GAIN"
      BY <2>1, <2>2, <2>4, CallsApart DEF CalCall
    <3>2. InCal(3, self', todo')
      BY <1>1, <2>2, <2>4, CalShift
    <3>3. ChipDuring(3)'
      BY <1>1, <2>1, <3>1 DEF ChipDuring
    <3> QED
      BY <3>2, <3>3 DEF Place
  <2>5. CASE left = 1
    <3>1. chipMode' = "CONTINUOUS"
      BY <2>1, <2>2, <2>5, CallsApart DEF CalCall
    <3>2. AndLast(0, self', todo')
      BY <1>1, <2>2, <2>5, CalShift
    <3> QED
      BY <3>1, <3>2 DEF Place
  <2> QED
    BY <2>3, <2>4, <2>5
<1> QED
  BY <1>2, <1>3 DEF RegisterCall

LEMMA BeginPlace ==
  ASSUME TypeOK, MapMatchesChip, Place, BeginCalibration
  PROVE  Place'
<1> SUFFICES ASSUME ~busFaults' PROVE Place'
  BY DEF Place
<1>1. /\ ~busFaults /\ todo # <<>> /\ self' = self /\ Head(todo).op = "calibrate"
      /\ todo' = CalibrationScript(self) \o Tail(todo)
      /\ UNCHANGED <<chipEn, chipMode, chan_map>>
      /\ todo \in Seq(Call) /\ Tail(todo) \in Seq(Call) /\ self \in Channels
  BY TailOf DEF BeginCalibration, given, chipVars, TypeOK
<1>2. InOdr(1, self, todo) /\ chipMode = "CONTINUOUS"
  BY <1>1, CalibrateNext
<1>3. AndLast(0, self, Tail(todo))
  BY <1>1, <1>2, OdrShift
<1>4. InCal(9, self', todo') /\ todo'[1] = Closes(EnabledInputs)
  BY <1>1, <1>3, CalBegins
<1>5. \A c \in Channels : chipEn'[c] => c \in todo'[1].chans
  <2>1. todo'[1].chans = EnabledInputs
    BY <1>4, CallsApart
  <2>2. ASSUME NEW c \in Channels, chipEn'[c] PROVE c \in EnabledInputs
    BY <1>1, <2>2 DEF MapMatchesChip, EnabledInputs
  <2> QED
    BY <2>1, <2>2
<1>6. ChipDuring(9)'
  <2>1. chipMode' = "CONTINUOUS"
    BY <1>1, <1>2
  <2> QED
    BY <1>5, <2>1 DEF ChipDuring
<1> QED
  BY <1>4, <1>6 DEF Place

LEMMA WaitPlace ==
  ASSUME TypeOK, Place, WaitForReady
  PROVE  Place'
<1> SUFFICES ASSUME ~busFaults' PROVE Place'
  BY DEF Place
<1>1. /\ ~busFaults /\ todo # <<>> /\ Head(todo).op = "wait"
      /\ UNCHANGED <<self, slow, chipEn, chipMode, chipOut>>
      /\ todo \in Seq(Call) /\ Head(todo) = todo[1]
  BY TailOf DEF WaitForReady, given, chipVars, TypeOK
<1>2. CASE todo' = todo
  BY <1>1, <1>2 DEF Place, ChipDuring
<1>3. CASE todo' = Tail(todo) /\ (~slow => chipOut # Inputs!NoData)
  <2>1. ~AndLast(0, self, todo)
    BY <1>1, LastCallIs
  <2>2. ASSUME NEW left \in 1 .. 6, InOdr(left, self, todo), chipMode = "CONTINUOUS"
        PROVE  Place'
    <3>1. PICK place \in 1 .. 6 : place = 7 - left /\ OdrCall(self, place, todo[1])
      BY <1>1, <2>2, OdrShift
    <3>2. place \in {2, 4}
      BY <1>1, <3>1, OdrOp
    <3>3. left > 1 /\ left - 1 \in 1 .. 6
      BY <3>1, <3>2
    <3>4. InOdr(left - 1, self', todo') /\ chipMode' = "CONTINUOUS"
      BY <1>1, <1>3, <2>2, <3>3, OdrShift
    <3> QED
      BY <3>3, <3>4 DEF Place
  <2>3. ASSUME NEW left \in 1 .. 9, InCal(left, self, todo), ChipDuring(left)
        PROVE  Place'
    <3>1. PICK place \in 1 .. 9 : place = 10 - left /\ CalCall(self, place, todo[1])
      BY <1>1, <2>3, CalShift
    <3>2. place \in {3, 5, 8}
      <4>1. place \notin {1, 2, 7}
        BY <1>1, <3>1, CalOp
      <4>2. place \notin {4, 6, 9}
        BY <1>1, <3>1, CalOp
      <4> QED
        BY <4>1, <4>2
    <3>3. left \in {2, 5, 7}
      BY <3>1, <3>2
    <3>4. left - 1 \in 1 .. 9 /\ InCal(left - 1, self', todo')
      BY <1>1, <1>3, <2>3, <3>3, CalShift
    <3>5. ChipDuring(left - 1)'
      <4>1. CASE left = 7
        BY <1>1, <2>3, <4>1 DEF ChipDuring
      <4>2. CASE left = 5
        BY <1>1, <1>3, <2>3, <4>2 DEF ChipDuring
      <4>3. CASE left = 2
        BY <1>1, <1>3, <2>3, <4>3 DEF ChipDuring
      <4> QED
        BY <3>3, <4>1, <4>2, <4>3
    <3> QED
      BY <3>4, <3>5 DEF Place
  <2> QED
    BY <1>1, <2>1, <2>2, <2>3 DEF Place
<1>4. todo' = todo \/ (todo' = Tail(todo) /\ (~slow => chipOut # Inputs!NoData))
  BY <1>1 DEF WaitForReady, Outcomes
<1> QED
  BY <1>2, <1>3, <1>4

LEMMA EnablePlace ==
  ASSUME TypeOK, Place, EnableInputs
  PROVE  Place'
<1> SUFFICES ASSUME ~busFaults' PROVE Place'
  BY DEF Place
<1>1. /\ ~busFaults /\ todo # <<>> /\ Head(todo).op = "enable"
      /\ UNCHANGED <<self, slow, chipMode, chipOut>>
      /\ todo \in Seq(Call) /\ Head(todo) = todo[1] /\ todo[1] \in Call
      /\ chipEn \in [Channels -> BOOLEAN] /\ self \in Channels
  BY TailOf DEF EnableInputs, given, chipVars, TypeOK, SetChannelStatus
<1> DEFINE chans == todo[1].chans  val == todo[1].val
<1>2. chans \in SUBSET Channels
  BY <1>1, CallParts
<1>3. \/ chans = {} /\ todo' = Tail(todo) /\ chipEn' = chipEn
      \/ \E c \in chans :
           /\ chipEn' = [chipEn EXCEPT ![c] = val]
           /\ \/ chans = {c} /\ todo' = Tail(todo)
              \/ chans # {c} /\ todo' = Shortened(todo, Enable(chans \ {c}, val))
  <2>1. CASE chans = {} /\ todo' = Tail(todo) /\ UNCHANGED <<chipVars, chan_map>>
    BY <2>1 DEF chipVars
  <2>2. ASSUME NEW c \in chans, NEW ok \in Outcomes, SetChannelStatus(c, val, ok),
               todo' = IF chans = {c} THEN Tail(todo)
                       ELSE <<Enable(chans \ {c}, val)>> \o Tail(todo)
        PROVE  <1>3!2
    <3>1. chipEn' = [chipEn EXCEPT ![c] = val]
      BY <1>1, <2>2 DEF SetChannelStatus, Outcomes
    <3> QED
      BY <2>2, <3>1, Zenon DEF Shortened
  <2> QED
    BY <1>1, <2>1, <2>2, Zenon DEF EnableInputs
<1> HIDE DEF chans, val
(* A call with one input.                                                    *)
<1>4. ASSUME NEW on \in BOOLEAN, todo[1] = Enable({self}, on)
      PROVE  todo' = Tail(todo) /\ chipEn' = [chipEn EXCEPT ![self] = on]
  <2>1. chans = {self} /\ val = on
    BY <1>4, EnableParts, Zenon DEF chans, val
  <2>2. PICK c \in chans :
          /\ chipEn' = [chipEn EXCEPT ![c] = val]
          /\ \/ chans = {c} /\ todo' = Tail(todo)
             \/ chans # {c} /\ todo' = Shortened(todo, Enable(chans \ {c}, val))
    BY <1>3, <2>1
  <2>3. c = self
    BY <2>1
  <2> QED
    BY <2>1, <2>2, <2>3, Zenon
<1>5. CASE AndLast(0, self, todo) /\ chipMode = "CONTINUOUS"
  <2>1. todo[1] = Closes({self}) /\ Len(todo) = 1
    BY <1>1, <1>5, LastCallIs
  <2>2. todo' = Tail(todo)
    BY <1>4, <2>1, Zenon DEF Closes
  <2>3. Len(todo') = 0
    BY <1>1, <2>1, <2>2, TailOf
  <2>4. AndLast(0, self', todo') /\ chipMode' = "CONTINUOUS"
    BY <1>1, <1>5, <2>3 DEF AndLast
  <2> QED
    BY <2>4 DEF Place
<1>6. ASSUME NEW left \in 1 .. 6, InOdr(left, self, todo), chipMode = "CONTINUOUS"
      PROVE  Place'
  <2>1. PICK place \in 1 .. 6 : place = 7 - left /\ OdrCall(self, place, todo[1])
    BY <1>1, <1>6, OdrShift
  <2>2. place \in {1, 5}
    BY <1>1, <2>1, OdrOp
  <2>3. todo[1] = Opens({self}) \/ todo[1] = Closes({self})
    BY <2>1, <2>2 DEF OdrCall
  <2>4. todo' = Tail(todo)
    BY <1>4, <2>3, Zenon DEF Opens, Closes
  <2>5. left > 1 /\ left - 1 \in 1 .. 6
    BY <2>1, <2>2
  <2>6. InOdr(left - 1, self', todo') /\ chipMode' = "CONTINUOUS"
    BY <1>1, <1>6, <2>4, <2>5, OdrShift
  <2> QED
    BY <2>5, <2>6 DEF Place
<1>7. ASSUME NEW left \in 1 .. 9, InCal(left, self, todo), ChipDuring(left)
      PROVE  Place'
  <2>1. PICK place \in 1 .. 9 : place = 10 - left /\ CalCall(self, place, todo[1])
    BY <1>1, <1>7, CalShift
  <2>2. place \in {1, 2, 7}
    <3>1. place \notin {3, 5, 8}
      BY <1>1, <2>1, CalOp
    <3>2. ASSUME place \in {4, 6, 9} PROVE FALSE
      <4>1. todo[1].op = "mode"
        BY <2>1, <3>2, CalOp
      <4> QED
        BY <1>1, <4>1
    <3> QED
      BY <3>1, <3>2
  <2>3. /\ left > 1 /\ left - 1 \in 1 .. 9
        /\ todo' = Tail(todo) => InCal(left - 1, self', todo')
    <3>1. left \in {3, 8, 9}
      BY <2>1, <2>2
    <3>2. InCal(left - 1, self, Tail(todo))
      BY <1>1, <1>7, <3>1, CalShift
    <3>3. ASSUME todo' = Tail(todo) PROVE InCal(left - 1, self', todo')
      BY <1>1, <3>2, <3>3
    <3> QED
      BY <3>1, <3>3
  <2>4. CASE left = 8
    <3>1. todo[1] = Opens({self})
      BY <2>1, <2>4 DEF CalCall
    <3>2. todo' = Tail(todo) /\ chipEn' = [chipEn EXCEPT ![self] = TRUE]
      BY <1>4, <3>1, Zenon DEF Opens
    <3>3. \A c \in Channels : chipEn'[c] <=> c = self
      BY <1>1, <1>7, <2>4, <3>2 DEF ChipDuring
    <3>4. ChipDuring(7)'
      BY <1>1, <1>7, <2>4, <3>3 DEF ChipDuring
    <3> QED
      BY <2>3, <2>4, <3>2, <3>4 DEF Place
  <2>5. CASE left = 3
    <3>1. ChipDuring(2)' /\ ChipDuring(3)'
      BY <1>1, <1>7, <2>5 DEF ChipDuring
    <3>2. CASE todo' = Tail(todo)
      BY <2>3, <2>5, <3>1, <3>2 DEF Place
    <3>3. ASSUME NEW c, todo' = Shortened(todo, Enable(chans \ {c}, val)) PROVE Place'
      <4>1. todo[1] = Opens(chans)
        BY <2>1, <2>5 DEF CalCall, chans
      <4>2. Enable(chans \ {c}, val) = Opens(chans \ {c})
        <5>1. val = TRUE
          BY <4>1, EnableParts, Zenon DEF Opens, val
        <5> QED
          BY <5>1, Zenon DEF Opens
      <4>3. Opens(chans \ {c}) \in Call /\ Opens(chans \ {c}).chans = chans \ {c}
        BY <1>2, CallTypes, CallsApart
      <4>4. CalCall(self, 10 - 3, Opens(chans \ {c}))
        BY <4>3 DEF CalCall
      <4>5. InCal(3, self', todo')
        BY <1>1, <1>7, <2>5, <3>3, <4>2, <4>3, <4>4, CalShortened
      <4> QED
        BY <3>1, <4>5 DEF Place
    <3> QED
      BY <1>3, <3>2, <3>3
  <2>6. CASE left = 9
    <3>1. todo[1] = Closes(chans)
      BY <2>1, <2>6 DEF CalCall, chans
    <3>2. chipMode = "CONTINUOUS" /\ \A d \in Channels : chipEn[d] => d \in chans
      BY <1>7, <2>6 DEF ChipDuring, chans
    <3>3. CASE chans = {} /\ todo' = Tail(todo) /\ chipEn' = chipEn
      <4>1. ChipDuring(8)'
        BY <1>1, <3>2, <3>3 DEF ChipDuring
      <4> QED
        BY <2>3, <2>6, <3>3, <4>1 DEF Place
    <3>4. ASSUME NEW c \in chans, chipEn' = [chipEn EXCEPT ![c] = val] PROVE
            \A d \in Channels : chipEn'[d] => d \in chans \ {c}
      <4>1. chipEn' = [chipEn EXCEPT ![c] = FALSE]
        <5>1. val = FALSE
          BY <3>1, EnableParts, Zenon DEF Closes, val
        <5> QED
          BY <3>4, <5>1, Zenon
      <4> QED
        BY <1>1, <3>2, <4>1
    <3>5. ASSUME NEW c \in chans, chipEn' = [chipEn EXCEPT ![c] = val],
                 chans = {c}, todo' = Tail(todo)
          PROVE  Place'
      <4>1. \A d \in Channels : ~chipEn'[d]
        BY <3>4, <3>5
      <4>2. ChipDuring(8)'
        BY <1>1, <3>2, <4>1 DEF ChipDuring
      <4> QED
        BY <2>3, <2>6, <3>5, <4>2 DEF Place
    <3>6. ASSUME NEW c \in chans, chipEn' = [chipEn EXCEPT ![c] = val],
                 todo' = Shortened(todo, Enable(chans \ {c}, val))
          PROVE  Place'
      <4>1. Enable(chans \ {c}, val) = Closes(chans \ {c})
        <5>1. val = FALSE
          BY <3>1, EnableParts, Zenon DEF Closes, val
        <5> QED
          BY <5>1, Zenon DEF Closes
      <4>2. Closes(chans \ {c}) \in Call /\ Closes(chans \ {c}).chans = chans \ {c}
        BY <1>2, CallTypes, CallsApart
      <4>3. CalCall(self, 10 - 9, Closes(chans \ {c}))
        BY <4>2 DEF CalCall
      <4>4. InCal(9, self', todo')
        BY <1>1, <1>7, <2>6, <3>6, <4>1, <4>2, <4>3, CalShortened
      <4>5. todo'[1] = Closes(chans \ {c})
        <5>1. todo' = Shortened(todo, Closes(chans \ {c}))
          BY <3>6, <4>1
        <5> QED
          BY <1>1, <4>2, <5>1, ShortenedType
      <4>6. \A d \in Channels : chipEn'[d] => d \in todo'[1].chans
        BY <3>4, <3>6, <4>2, <4>5
      <4>7. ChipDuring(9)'
        BY <1>1, <3>2, <4>6 DEF ChipDuring
      <4> QED
        BY <4>4, <4>7 DEF Place
    <3> QED
      BY <1>3, <3>3, <3>5, <3>6
  <2> QED
    BY <2>1, <2>2, <2>4, <2>5, <2>6
<1> QED
  BY <1>1, <1>5, <1>6, <1>7 DEF Place

LEMMA PlaceStep ==
  ASSUME TypeOK, MapMatchesChip, Place, [Next]_vars
  PROVE  Place'
<1>1. todo = <<>> /\ ~busFaults => chipMode = "CONTINUOUS"
  BY AtRest
<1>2. todo = <<>> => Len(todo) = 0
  OBVIOUS
<1>3. CASE Handler
  BY <1>3, RegisterPlace, EnablePlace, BeginPlace, WaitPlace DEF Handler
<1>4. ASSUME NEW c \in Channels, NEW on \in BOOLEAN, EnableInput(c, on) PROVE Place'
  <2>1. Len(todo') = 0 /\ chipMode' = chipMode /\ busFaults' = busFaults /\ todo = <<>>
    BY <1>2, <1>4 DEF EnableInput, Ready, given, SetChannelStatus
  <2> QED
    BY <1>1, <2>1 DEF Place, AndLast
<1>5. ASSUME NEW c \in Channels, NEW rate \in Rates, UpdateOdr(c, rate) PROVE Place'
  <2>1. \E left \in 1 .. 6 : InOdr(left, c, OdrScript(c, rate) \o <<Calibrate(c)>>)
    BY OdrBegins
  <2>2. /\ self' = c /\ todo' = OdrScript(c, rate) \o <<Calibrate(c)>> /\ todo = <<>>
        /\ UNCHANGED <<busFaults, chipMode>>
    BY <1>5 DEF UpdateOdr, Ready, given, chipVars
  <2> QED
    BY <1>1, <2>1, <2>2 DEF Place
<1>6. ASSUME NEW c \in Channels, InitCalibration(c) PROVE Place'
  <2>1. /\ self' = c /\ todo' = <<Calibrate(c), Closes({c})>> /\ todo = <<>>
        /\ UNCHANGED <<busFaults, chipMode>>
    BY <1>6 DEF InitCalibration, Ready, given, chipVars, Closes
  <2>2. OdrCall(c, 6, todo'[1])
    BY <2>1 DEF OdrCall
  <2>3. Len(todo') = 1 + 1 /\ todo'[1 + 1] = Closes({c})
    BY <2>1
  <2>4. InOdr(1, c, todo')
    BY <2>2, <2>3 DEF InOdr, AndLast
  <2> QED
    BY <1>1, <2>1, <2>4 DEF Place
<1>7. ASSUME NEW c \in Channels, Convert(c) PROVE Place'
  BY <1>7 DEF Convert, given, Place, ChipDuring
<1>8. CASE ReadData
  <2>1. Len(todo') = 0 /\ chipMode' = chipMode /\ busFaults' = busFaults /\ todo = <<>>
    BY <1>2, <1>8 DEF ReadData, Ready, given
  <2> QED
    BY <1>1, <2>1 DEF Place, AndLast
<1>9. CASE Dispatch
  BY <1>9 DEF Dispatch, given, chipVars, Place, ChipDuring
<1>10. CASE Calibrated
  <2>1. /\ chipMode \in {"OFFSET", "GAIN"} /\ chipMode' = "IDLE"
        /\ UNCHANGED <<busFaults, slow, chipEn, self, todo>>
    BY <1>10 DEF Calibrated, given
  <2>2. ASSUME NEW left \in 1 .. 9, InCal(left, self, todo), ChipDuring(left), ~busFaults
        PROVE  Place'
    <3>1. left \in 1 .. 5
      BY <2>1, <2>2 DEF ChipDuring
    <3>2. ChipDuring(left)'
      BY <2>1, <2>2, <3>1 DEF ChipDuring
    <3>3. InCal(left, self', todo')
      BY <2>1, <2>2
    <3> QED
      BY <3>2, <3>3 DEF Place
  <2> QED
    BY <2>1, <2>2 DEF Place
<1>11. CASE UNCHANGED vars
  BY <1>11 DEF vars, given, chipVars, Place, ChipDuring
<1> QED
  BY <1>3, <1>4, <1>5, <1>6, <1>7, <1>8, <1>9, <1>10, <1>11 DEF Next

THEOREM DriverInvariant == Spec => []Inv
<1>1. Inv /\ [Next]_vars => Inv'
  BY TypeStep, MapStep, PollStep, PlaceStep DEF Inv
<1> QED
  BY <1>1, InitInv, PTL DEF Spec

-----------------------------------------------------------------------------
(* The variables of the driver keep their types.                             *)
THEOREM DriverTypeCorrect == Spec => []TypeOK
  BY DriverInvariant, PTL DEF Inv

(* chan_map holds the enable bits of the chip, whichever transfers fail.     *)
THEOREM MapIsTheChip == Spec => []MapMatchesChip
  BY DriverInvariant, PTL DEF Inv

(* A sample that the poll loop dispatches was read since the loop began,     *)
(* whichever reads fail.                                                     *)
THEOREM SamplesAreOfThisPoll == Spec => []DispatchedOfThisPoll
<1>1. Inv => DispatchedOfThisPoll
  BY DEF Inv, PollInv, DispatchedOfThisPoll
<1> QED
  BY <1>1, DriverInvariant, PTL

(* The offset calibration of a channel has the ADC to itself.                *)
THEOREM OffsetHasTheAdc == Spec => []OffsetAlone
<1>1. Inv => OffsetAlone
  BY DEF Inv, Place, ChipDuring, OffsetAlone
<1> QED
  BY <1>1, DriverInvariant, PTL

(* Every handler puts the ADC back into continuous mode.                     *)
THEOREM HandlersRestoreMode == Spec => []BackToContinuous
<1>1. Inv => BackToContinuous
  BY AtRest DEF Inv, BackToContinuous
<1> QED
  BY <1>1, DriverInvariant, PTL

(* No call cuts a calibration short when the polls suffice.                  *)
THEOREM CalibrationsComplete == Spec => CalibrationNotCut
<1> DEFINE Kept == ~busFaults /\ ~slow /\ chipMode \in {"OFFSET", "GAIN"}
                     => chipMode' \in {chipMode, "IDLE"}
<1>1. ASSUME Inv, [Next]_vars PROVE Kept
  <2> SUFFICES ASSUME ~busFaults, ~slow, chipMode \in {"OFFSET", "GAIN"}
               PROVE  chipMode' \in {chipMode, "IDLE"}
    OBVIOUS
  <2> USE DEF chipVars
  <2>1. CASE RegisterCall
    <3>1. TypeOK /\ Place /\ todo # <<>>
      BY <1>1, <2>1 DEF Inv, RegisterCall
    <3>2. CASE Head(todo).op = "odr"
      BY <2>1, <3>2 DEF RegisterCall, ConfigureDeviceOdr
    <3>3. CASE Head(todo).op = "mode"
      <4>1. PICK left \in {1, 4, 6} : ChipDuring(left)
        BY <3>1, <3>3, ModeNext
      <4>2. chipMode \in {"CONTINUOUS", "IDLE"}
        BY <4>1 DEF ChipDuring
      <4> QED
        BY <4>2
    <3> QED
      BY <2>1, <3>2, <3>3 DEF RegisterCall
  <2>2. CASE EnableInputs
    BY <2>2 DEF EnableInputs, SetChannelStatus
  <2>3. CASE BeginCalibration
    BY <2>3 DEF BeginCalibration
  <2>4. CASE WaitForReady
    BY <2>4 DEF WaitForReady
  <2>5. ASSUME NEW c \in Channels,
               \/ \E on \in BOOLEAN : EnableInput(c, on)
               \/ \E rate \in Rates : UpdateOdr(c, rate)
               \/ InitCalibration(c) \/ Convert(c)
        PROVE  chipMode' = chipMode
    BY <2>5 DEF EnableInput, SetChannelStatus, UpdateOdr, InitCalibration, Convert
  <2>6. CASE ReadData \/ Dispatch
    BY <2>6 DEF ReadData, Dispatch
  <2>7. CASE Calibrated
    BY <2>7 DEF Calibrated
  <2>8. CASE UNCHANGED vars
    BY <2>8 DEF vars
  <2> QED
    BY <1>1, <2>1, <2>2, <2>3, <2>4, <2>5, <2>6, <2>7, <2>8 DEF Next, Handler
<1>2. Inv /\ [Next]_vars => [Kept]_vars
  BY <1>1
<1> QED
  BY <1>2, DriverInvariant, PTL DEF Spec, CalibrationNotCut

-----------------------------------------------------------------------------
(* What the handlers above see.  A script leaves a register with the value   *)
(* of the last call that sets it, or as it is now.                           *)
Sets(call, ops, c) == call.op \in ops /\ c \in call.chans

LastIn(s, ops, c) ==
  LET calls == {k \in DOMAIN s : Sets(s[k], ops, c)}
  IN  IF calls = {} THEN 0 ELSE CHOOSE k \in calls : \A j \in calls : j <= k

AtEnd(s, ops, c, now) ==
  LET last == LastIn(s, ops, c) IN IF last > 0 THEN s[last].val ELSE now

EnOps == {"enable", "calibrate"}

LEMMA Greatest ==
  ASSUME NEW n \in Nat, NEW T \in SUBSET (1 .. n), T # {}
  PROVE  \E k \in T : \A j \in T : j <= k
<1> DEFINE less == {ss \in Nat \X Nat : ss[1] < ss[2]}
           down == {m \in 0 .. n : n - m \in T}
<1>1. IsWellFoundedOn(less, Nat)
  BY NatLessThanWellFounded DEF OpToRel
<1>2. down \subseteq Nat /\ down # {}
  <2>1. PICK k \in T : TRUE
    OBVIOUS
  <2>2. n - k \in 0 .. n /\ n - (n - k) = k
    OBVIOUS
  <2>3. n - k \in down
    BY <2>1, <2>2
  <2>4. down # {}
    <3> HIDE DEF down
    <3> QED
      BY <2>3
  <2>5. down \subseteq Nat
    OBVIOUS
  <2> QED
    BY <2>4, <2>5
<1>3. PICK m \in down : \A l \in down : ~ (<<l, m>> \in less)
  <2> HIDE DEF less, down
  <2> QED
    BY <1>1, <1>2, WFMin
<1>4. ASSUME NEW j \in T PROVE j <= n - m
  <2>1. n - j \in down /\ n - j \in Nat /\ m \in Nat
    OBVIOUS
  <2>2. ~(n - j < m)
    BY <1>3, <2>1
  <2> QED
    BY <2>1, <2>2
<1> QED
  BY <1>3, <1>4

(* No call sets the register, or there is a last one that does.              *)
LEMMA LastOrNone ==
  ASSUME NEW s, NEW n \in Nat, DOMAIN s = 1 .. n, NEW ops, NEW c, NEW now
  PROVE  \/ /\ \A j \in 1 .. n : ~Sets(s[j], ops, c)
            /\ AtEnd(s, ops, c, now) = now
         \/ \E k \in 1 .. n :
              /\ Sets(s[k], ops, c) /\ \A j \in k + 1 .. n : ~Sets(s[j], ops, c)
              /\ AtEnd(s, ops, c, now) = s[k].val
<1> DEFINE calls == {k \in 1 .. n : Sets(s[k], ops, c)}
<1>1. LastIn(s, ops, c)
        = IF calls = {} THEN 0 ELSE CHOOSE k \in calls : \A j \in calls : j <= k
  BY DEF LastIn
<1>2. CASE calls = {}
  <2>1. LastIn(s, ops, c) = 0
    BY <1>1, <1>2
  <2>2. AtEnd(s, ops, c, now) = now
    BY <2>1 DEF AtEnd
  <2> QED
    BY <1>2, <2>2
<1>3. CASE calls # {}
  <2> DEFINE last == CHOOSE k \in calls : \A j \in calls : j <= k
  <2>1. \E k \in calls : \A j \in calls : j <= k
    <3>1. calls \in SUBSET (1 .. n)
      OBVIOUS
    <3> HIDE DEF calls
    <3> QED
      BY <1>3, <3>1, Greatest
  <2>2. last \in calls /\ \A j \in calls : j <= last
    <3> HIDE DEF calls
    <3> QED
      BY <2>1
  <2>3. LastIn(s, ops, c) = last
    BY <1>1, <1>3
  <2> HIDE DEF last
  <2>4. last \in 1 .. n /\ Sets(s[last], ops, c)
    BY <2>2
  <2>5. AtEnd(s, ops, c, now) = s[last].val
    BY <2>3, <2>4 DEF AtEnd
  <2>6. ASSUME NEW j \in last + 1 .. n PROVE ~Sets(s[j], ops, c)
    <3>1. j \in 1 .. n /\ ~(j <= last)
      BY <2>4
    <3> QED
      BY <2>2, <3>1
  <2> QED
    BY <2>4, <2>5, <2>6
<1> QED
  BY <1>2, <1>3

LEMMA IsLast ==
  ASSUME NEW s, NEW n \in Nat, DOMAIN s = 1 .. n, NEW ops, NEW c, NEW now,
         NEW k \in 1 .. n, Sets(s[k], ops, c),
         \A j \in k + 1 .. n : ~Sets(s[j], ops, c)
  PROVE  AtEnd(s, ops, c, now) = s[k].val
<1>1. PICK l \in 1 .. n :
        /\ Sets(s[l], ops, c) /\ \A j \in l + 1 .. n : ~Sets(s[j], ops, c)
        /\ AtEnd(s, ops, c, now) = s[l].val
  BY LastOrNone
<1>2. ~(l < k) /\ ~(k < l)
  <2>1. l < k => k \in l + 1 .. n
    OBVIOUS
  <2>2. k < l => l \in k + 1 .. n
    OBVIOUS
  <2> QED
    BY <1>1, <2>1, <2>2
<1>3. l = k
  BY <1>2
<1> QED
  BY <1>1, <1>3

LEMMA SetsNone ==
  ASSUME NEW s, NEW n \in Nat, DOMAIN s = 1 .. n, NEW ops, NEW c, NEW now,
         \A j \in 1 .. n : ~Sets(s[j], ops, c)
  PROVE  AtEnd(s, ops, c, now) = now
  BY LastOrNone

(* One script after the other.                                               *)
LEMMA AtEndConcat ==
  ASSUME NEW a \in Seq(Call), NEW b \in Seq(Call), NEW ops, NEW c, NEW now
  PROVE  AtEnd(a \o b, ops, c, now) = AtEnd(b, ops, c, AtEnd(a, ops, c, now))
<1> DEFINE t == a \o b
<1>1. PICK m \in Nat : m = Len(a) /\ DOMAIN a = 1 .. m
  OBVIOUS
<1>2. PICK n \in Nat : n = Len(b) /\ DOMAIN b = 1 .. n
  OBVIOUS
<1>3. /\ DOMAIN t = 1 .. m + n
      /\ \A i \in 1 .. m + n : t[i] = IF i <= m THEN a[i] ELSE b[i - m]
  <2>1. /\ t \in Seq(Call) /\ Len(t) = Len(a) + Len(b)
        /\ \A i \in 1 .. Len(a) + Len(b) :
             t[i] = IF i <= Len(a) THEN a[i] ELSE b[i - Len(a)]
    BY ConcatProperties
  <2> QED
    BY <1>1, <1>2, <2>1
<1> HIDE DEF t
<1> DEFINE mid == AtEnd(a, ops, c, now)
<1>4. CASE \E k \in 1 .. n :
             /\ Sets(b[k], ops, c) /\ \A j \in k + 1 .. n : ~Sets(b[j], ops, c)
             /\ AtEnd(b, ops, c, mid) = b[k].val
  <2>1. PICK k \in 1 .. n :
          /\ Sets(b[k], ops, c) /\ \A j \in k + 1 .. n : ~Sets(b[j], ops, c)
          /\ AtEnd(b, ops, c, mid) = b[k].val
    BY <1>4
  <2>2. m + k \in 1 .. m + n /\ ~(m + k <= m) /\ (m + k) - m = k
    OBVIOUS
  <2>3. t[m + k] = b[k]
    BY <1>3, <2>2
  <2>4. ASSUME NEW j \in (m + k) + 1 .. m + n PROVE ~Sets(t[j], ops, c)
    <3>1. j \in 1 .. m + n /\ ~(j <= m) /\ j - m \in k + 1 .. n
      OBVIOUS
    <3>2. t[j] = b[j - m]
      BY <1>3, <3>1
    <3> QED
      BY <2>1, <3>1, <3>2
  <2>5. AtEnd(t, ops, c, now) = t[m + k].val
    <3>1. PICK l \in Nat : l = m + n
      OBVIOUS
    <3>2. PICK i \in 1 .. l : i = m + k
      BY <2>2, <3>1
    <3>3. DOMAIN t = 1 .. l /\ Sets(t[i], ops, c)
      BY <1>3, <2>1, <2>3, <3>1, <3>2
    <3>4. ASSUME NEW j \in i + 1 .. l PROVE ~Sets(t[j], ops, c)
      BY <2>4, <3>1, <3>2
    <3>5. AtEnd(t, ops, c, now) = t[i].val
      BY <3>3, <3>4, IsLast
    <3> QED
      BY <3>2, <3>5
  <2> QED
    BY <2>1, <2>3, <2>5 DEF t
<1>5. CASE (\A j \in 1 .. n : ~Sets(b[j], ops, c)) /\ AtEnd(b, ops, c, mid) = mid
  <2>1. ASSUME NEW j \in m + 1 .. m + n PROVE ~Sets(t[j], ops, c)
    <3>1. j \in 1 .. m + n /\ ~(j <= m) /\ j - m \in 1 .. n
      OBVIOUS
    <3>2. t[j] = b[j - m]
      BY <1>3, <3>1
    <3> QED
      BY <1>5, <3>1, <3>2
  <2>2. \A j \in 1 .. m : j \in 1 .. m + n /\ j <= m
    OBVIOUS
  <2>3. \A j \in 1 .. m : t[j] = a[j]
    BY <1>3, <2>2
  <2>4. m + n \in Nat
    OBVIOUS
  <2>5. CASE (\A j \in 1 .. m : ~Sets(a[j], ops, c)) /\ mid = now
    <3>1. ASSUME NEW j \in 1 .. m + n PROVE ~Sets(t[j], ops, c)
      <4>1. j \in 1 .. m \/ j \in m + 1 .. m + n
        OBVIOUS
      <4> QED
        BY <2>1, <2>3, <2>5, <4>1
    <3>2. AtEnd(t, ops, c, now) = now
      BY <1>3, <2>4, <3>1, SetsNone
    <3> QED
      BY <1>5, <2>5, <3>2 DEF t
  <2>6. ASSUME NEW k \in 1 .. m, Sets(a[k], ops, c), mid = a[k].val,
               \A j \in k + 1 .. m : ~Sets(a[j], ops, c)
        PROVE  AtEnd(t, ops, c, now) = mid
    <3>1. ASSUME NEW j \in k + 1 .. m + n PROVE ~Sets(t[j], ops, c)
      <4>1. j \in k + 1 .. m \/ j \in m + 1 .. m + n
        OBVIOUS
      <4>2. j \in k + 1 .. m => t[j] = a[j]
        BY <2>3
      <4> QED
        BY <2>1, <2>6, <4>1, <4>2
    <3>2. k \in 1 .. m + n /\ t[k] = a[k]
      BY <2>2, <2>3
    <3>3. AtEnd(t, ops, c, now) = t[k].val
      BY <1>3, <2>4, <2>6, <3>1, <3>2, IsLast
    <3> QED
      BY <2>6, <3>2, <3>3
  <2>7. \/ (\A j \in 1 .. m : ~Sets(a[j], ops, c)) /\ mid = now
        \/ \E k \in 1 .. m :
             /\ Sets(a[k], ops, c) /\ \A j \in k + 1 .. m : ~Sets(a[j], ops, c)
             /\ mid = a[k].val
    BY <1>1, LastOrNone
  <2> HIDE DEF mid
  <2>8. AtEnd(t, ops, c, now) = mid
    <3>1. CASE \E k \in 1 .. m :
             /\ Sets(a[k], ops, c) /\ \A j \in k + 1 .. m : ~Sets(a[j], ops, c)
             /\ mid = a[k].val
      BY <2>6, <3>1
    <3>2. CASE (\A j \in 1 .. m : ~Sets(a[j], ops, c)) /\ mid = now
      <4>1. AtEnd(t, ops, c, now) = mid
        BY <2>5, <3>2, <1>5 DEF t, mid
      <4> QED
        BY <4>1
    <3> QED
      BY <2>7, <3>1, <3>2
  <2> QED
    BY <1>5, <2>8 DEF t, mid
<1>6. \/ (\A j \in 1 .. n : ~Sets(b[j], ops, c)) /\ AtEnd(b, ops, c, mid) = mid
      \/ \E k \in 1 .. n :
           /\ Sets(b[k], ops, c) /\ \A j \in k + 1 .. n : ~Sets(b[j], ops, c)
           /\ AtEnd(b, ops, c, mid) = b[k].val
  BY <1>2, LastOrNone
<1> QED
  BY <1>4, <1>5, <1>6

LEMMA AtEndOne ==
  ASSUME NEW call, NEW ops, NEW c, NEW now
  PROVE  AtEnd(<<call>>, ops, c, now) = IF Sets(call, ops, c) THEN call.val ELSE now
<1>1. DOMAIN <<call>> = 1 .. 1 /\ <<call>>[1] = call
  OBVIOUS
<1> DEFINE s == <<call>>
<1> HIDE DEF s
<1>2. DOMAIN s = 1 .. 1 /\ s[1] = call
  BY <1>1 DEF s
<1>3. CASE Sets(call, ops, c)
  <2>1. AtEnd(s, ops, c, now) = s[1].val
    <3>1. PICK n \in Nat : n = 1 /\ DOMAIN s = 1 .. n
      BY <1>2
    <3>2. PICK k \in 1 .. n : k = 1
      BY <3>1
    <3>3. DOMAIN s = 1 .. n /\ Sets(s[k], ops, c)
      BY <1>2, <1>3, <3>1, <3>2
    <3>4. ASSUME NEW j \in k + 1 .. n PROVE ~Sets(s[j], ops, c)
      BY <3>1, <3>2
    <3>5. AtEnd(s, ops, c, now) = s[k].val
      BY <3>3, <3>4, IsLast
    <3> QED
      BY <3>2, <3>5
  <2> QED
    BY <1>2, <1>3, <2>1 DEF s
<1>4. CASE ~Sets(call, ops, c)
  <2>1. AtEnd(s, ops, c, now) = now
    <3>1. 1 \in Nat /\ \A j \in 1 .. 1 : j = 1
      OBVIOUS
    <3> QED
      BY <1>2, <1>4, <3>1, SetsNone
  <2> QED
    BY <1>4, <2>1 DEF s
<1> QED
  BY <1>3, <1>4

(* A script, call by call.                                                   *)
LEMMA AtEndStep ==
  ASSUME NEW s \in Seq(Call), s # <<>>, NEW ops, NEW c, NEW now
  PROVE  AtEnd(s, ops, c, now)
           = AtEnd(Tail(s), ops, c, IF Sets(Head(s), ops, c) THEN Head(s).val ELSE now)
<1>1. /\ Head(s) \in Call /\ Tail(s) \in Seq(Call) /\ s = <<Head(s)>> \o Tail(s)
      /\ <<Head(s)>> \in Seq(Call)
  OBVIOUS
<1> DEFINE a == <<Head(s)>>  b == Tail(s)
<1>2. AtEnd(a, ops, c, now) = IF Sets(Head(s), ops, c) THEN Head(s).val ELSE now
  BY AtEndOne
<1> HIDE DEF a, b
<1>3. a \in Seq(Call) /\ b \in Seq(Call) /\ s = a \o b
  BY <1>1 DEF a, b
<1>4. AtEnd(s, ops, c, now) = AtEnd(b, ops, c, AtEnd(a, ops, c, now))
  BY <1>3, AtEndConcat
<1> QED
  BY <1>2, <1>4 DEF b

LEMMA AtEndEmpty ==
  ASSUME NEW ops, NEW c, NEW now
  PROVE  AtEnd(<<>>, ops, c, now) = now
<1>1. DOMAIN <<>> = 1 .. 0 /\ 0 \in Nat /\ 1 .. 0 = {}
  OBVIOUS
<1> DEFINE s == <<>>
<1> HIDE DEF s
<1>2. DOMAIN s = 1 .. 0
  BY <1>1 DEF s
<1>3. AtEnd(s, ops, c, now) = now
  BY <1>1, <1>2, SetsNone
<1> QED
  BY <1>3 DEF s

-----------------------------------------------------------------------------
(* The inputs of AdcInputs, and when one step changes none of them.          *)
DataNow == IF todo = <<>> THEN chipOut ELSE NoValue

Unseen == UNCHANGED <<EnAtEnd, OdrAtEnd, DataNow>>

LEMMA AsAtEnd ==
  /\ EnAtEnd = [c \in Channels |-> AtEnd(todo, EnOps, c, chipEn[c])]
  /\ OdrAtEnd = [c \in Channels |-> AtEnd(todo, {"odr"}, c, chipOdr[c])]
  /\ EnAtEnd' = [c \in Channels |-> AtEnd(todo', EnOps, c, chipEn'[c])]
  /\ OdrAtEnd' = [c \in Channels |-> AtEnd(todo', {"odr"}, c, chipOdr'[c])]
  BY DEF EnAtEnd, OdrAtEnd, LastCall, AtEnd, LastIn, Sets, EnOps

(* At rest the chip holds what the handlers above see.                       *)
LEMMA SeenAtRest ==
  ASSUME TypeOK, todo = <<>>
  PROVE  EnAtEnd = chipEn /\ OdrAtEnd = chipOdr /\ DataNow = chipOut
<1>1. /\ \A c \in Channels : AtEnd(todo, EnOps, c, chipEn[c]) = chipEn[c]
      /\ \A c \in Channels : AtEnd(todo, {"odr"}, c, chipOdr[c]) = chipOdr[c]
  BY AtEndEmpty
<1>2. /\ EnAtEnd = [c \in Channels |-> chipEn[c]]
      /\ OdrAtEnd = [c \in Channels |-> chipOdr[c]]
  BY <1>1, AsAtEnd
<1> QED
  BY <1>2 DEF TypeOK, DataNow

(* A call that does to the registers what is expected of it is not seen.     *)
LEMMA CallDone ==
  ASSUME TypeOK, todo # <<>>, todo' = Tail(todo),
         \A c \in Channels :
           chipEn'[c] = IF Sets(Head(todo), EnOps, c) THEN Head(todo).val ELSE chipEn[c],
         \A c \in Channels :
           chipOdr'[c] = IF Sets(Head(todo), {"odr"}, c) THEN Head(todo).val ELSE chipOdr[c]
  PROVE  EnAtEnd' = EnAtEnd /\ OdrAtEnd' = OdrAtEnd
<1>1. todo \in Seq(Call)
  BY DEF TypeOK
<1>2. ASSUME NEW c \in Channels
      PROVE  AtEnd(todo', EnOps, c, chipEn'[c]) = AtEnd(todo, EnOps, c, chipEn[c])
  BY <1>1, AtEndStep
<1>3. ASSUME NEW c \in Channels
      PROVE  AtEnd(todo', {"odr"}, c, chipOdr'[c]) = AtEnd(todo, {"odr"}, c, chipOdr[c])
  BY <1>1, AtEndStep
<1> QED
  BY <1>2, <1>3, AsAtEnd

LEMMA SetsBy ==
  ASSUME NEW call, NEW c
  PROVE  /\ call.op = "enable" => (Sets(call, EnOps, c) <=> c \in call.chans)
         /\ call.op = "enable" => ~Sets(call, {"odr"}, c)
         /\ call.op = "odr" => (Sets(call, {"odr"}, c) <=> c \in call.chans)
         /\ call.op = "odr" => ~Sets(call, EnOps, c)
         /\ call.op \in {"wait", "mode"} => ~Sets(call, {"odr"}, c) /\ ~Sets(call, EnOps, c)
         /\ call.op = "calibrate" => (Sets(call, EnOps, c) <=> c \in call.chans)
         /\ call.op = "calibrate" => ~Sets(call, {"odr"}, c)
  BY DEF Sets, EnOps

(* What makes RDY go low, without bus faults: the end of a calibration, until *)
(* a mode write, or a conversion; after the last calibration of the handler   *)
(* of Channel::init only one of an input that is still enabled.               *)
Closing == todo # <<>> /\ Tail(todo) = <<>> /\ Head(todo).op = "enable"

Converted(c) == [ch_num |-> c, code |-> 0]

Unread ==
  ~busFaults =>
    /\ chipOut \in {Inputs!NoData, CalDone} \cup {Converted(d) : d \in Channels}
    /\ chipOut = CalDone => chipMode = "IDLE"
    /\ Closing /\ chipOut # Inputs!NoData =>
         \E d \in Channels : chipEn[d] /\ chipOut = Converted(d)

LEMMA NoCalls ==
  ASSUME NEW s, s = <<>>
  PROVE  Len(s) = 0
  OBVIOUS

LEMMA CallsLeft ==
  ASSUME NEW s, NEW c, NEW left \in Nat \ {0}, AndLast(left, c, s)
  PROVE  s # <<>>
<1>1. Len(s) = left \/ Len(s) = left + 1
  BY DEF AndLast
<1>2. Len(s) # 0
  BY <1>1
<1> QED
  BY <1>2, NoCalls

LEMMA ClosingIs ==
  ASSUME TypeOK, Place, ~busFaults, Closing
  PROVE  Head(todo) = Closes({self}) /\ chipMode = "CONTINUOUS"
<1>1. todo \in Seq(Call) /\ todo # <<>> /\ Head(todo) = todo[1] /\ todo[1].op = "enable"
  BY TailOf DEF TypeOK, Closing
<1>2. Len(todo) = 1
  <2>1. Len(Tail(todo)) = 0
    BY NoCalls DEF Closing
  <2>2. Len(Tail(todo)) = Len(todo) - 1 /\ Len(todo) \in Nat
    BY <1>1, TailOf
  <2> QED
    BY <2>1, <2>2
<1>3. ASSUME NEW left \in 1 .. 6, InOdr(left, self, todo) PROVE FALSE
  <2>1. left = 1
    BY <1>2, <1>3 DEF InOdr, AndLast
  <2>2. OdrCall(self, 6, todo[1])
    BY <1>1, <1>3, <2>1, OdrShift
  <2> QED
    BY <1>1, <2>2, OdrOp
<1>4. ASSUME NEW left \in 1 .. 9, InCal(left, self, todo) PROVE FALSE
  <2>1. left = 1
    BY <1>2, <1>4 DEF InCal, AndLast
  <2>2. CalCall(self, 9, todo[1])
    BY <1>1, <1>4, <2>1, CalShift
  <2> QED
    BY <1>1, <2>2, CalOp
<1>5. AndLast(0, self, todo) /\ chipMode = "CONTINUOUS"
  BY <1>3, <1>4 DEF Place
<1> QED
  BY <1>1, <1>5, LastCallIs

(* The call before that one is the last of a calibration, or stands for one. *)
LEMMA BeforeClosing ==
  ASSUME TypeOK, Place, ~busFaults, todo # <<>>,
         Tail(todo) # <<>>, Tail(Tail(todo)) = <<>>, Head(Tail(todo)).op = "enable"
  PROVE  Head(todo).op \in {"calibrate", "mode"}
<1>1. /\ todo \in Seq(Call) /\ Tail(todo) \in Seq(Call) /\ Head(todo) = todo[1]
      /\ Head(Tail(todo)) = todo[2] /\ Len(todo) = 2
  <2>1. PICK s \in Seq(Call) : s = todo /\ s # <<>>
    BY DEF TypeOK
  <2>2. PICK t \in Seq(Call) : t = Tail(s) /\ t # <<>>
    BY <2>1, TailOf, Zenon
  <2>3. PICK n \in Nat \ {0} : /\ n = Len(s) /\ Len(t) = n - 1 /\ s[1] = Head(s)
                               /\ \A k \in 1 .. n - 1 : t[k] = s[k + 1]
    BY <2>1, <2>2, TailOf
  <2>4. Len(Tail(t)) = Len(t) - 1 /\ Head(t) = t[1] /\ Len(t) \in Nat \ {0}
    BY <2>2, TailOf
  <2>5. Len(Tail(t)) = 0
    BY <2>1, <2>2, NoCalls
  <2>6. n = 2
    BY <2>3, <2>4, <2>5
  <2>7. t[1] = s[2]
    BY <2>3, <2>6
  <2> QED
    BY <2>1, <2>2, <2>3, <2>4, <2>6, <2>7
<1>2. ~AndLast(0, self, todo)
  BY <1>1 DEF AndLast
<1>3. ASSUME NEW left \in 1 .. 6, InOdr(left, self, todo) PROVE Head(todo).op = "calibrate"
  <2>1. left \in {1, 2}
    BY <1>1, <1>3 DEF InOdr, AndLast
  <2>2. CASE left = 1
    <3>1. OdrCall(self, 6, todo[1])
      BY <1>1, <1>3, <2>2, OdrShift
    <3> QED
      BY <1>1, <3>1, OdrOp
  <2>3. CASE left = 2
    <3>1. OdrCall(self, 6, todo[2])
      BY <1>3, <2>3 DEF InOdr
    <3>2. todo[2].op = "calibrate"
      BY <3>1, OdrOp
    <3> QED
      BY <1>1, <3>2
  <2> QED
    BY <2>1, <2>2, <2>3
<1>4. ASSUME NEW left \in 1 .. 9, InCal(left, self, todo) PROVE Head(todo).op = "mode"
  <2>1. left \in {1, 2}
    BY <1>1, <1>4 DEF InCal, AndLast
  <2>2. CASE left = 1
    <3>1. CalCall(self, 9, todo[1])
      BY <1>1, <1>4, <2>2, CalShift
    <3> QED
      BY <1>1, <3>1, CalOp
  <2>3. CASE left = 2
    <3>1. CalCall(self, 9, todo[2])
      BY <1>4, <2>3 DEF InCal
    <3>2. todo[2].op = "mode"
      BY <3>1, CallsApart DEF CalCall
    <3> QED
      BY <1>1, <3>2
  <2> QED
    BY <2>1, <2>2, <2>3
<1> QED
  BY <1>2, <1>3, <1>4 DEF Place

(* The script of the handler that is running, call by call.                  *)
LEMMA TodoStep ==
  ASSUME TypeOK, Place, ~busFaults, todo # <<>>, todo' = Tail(todo), Closing'
  PROVE  Head(todo).op \in {"calibrate", "mode"}
<1>1. Tail(todo) # <<>> /\ Tail(Tail(todo)) = <<>> /\ Head(Tail(todo)).op = "enable"
  BY DEF Closing
<1> QED
  BY <1>1, BeforeClosing

LEMMA InitUnread == Init => Unread
  BY DEF Init, Unread, Closing, Inputs!NoData, CalDone

LEMMA UnreadStep ==
  ASSUME TypeOK, Place, Unread, [Next]_vars
  PROVE  Unread'
<1> SUFFICES ASSUME ~busFaults, busFaults' = busFaults PROVE Unread'
  <2>1. busFaults' = busFaults
    BY DEF Next, vars, given, Handler, RegisterCall, EnableInputs, BeginCalibration,
           WaitForReady, EnableInput, UpdateOdr, InitCalibration, Convert, ReadData,
           Dispatch, Calibrated
  <2> QED
    BY <2>1 DEF Unread
<1>1. ASSUME chipOut' = Inputs!NoData PROVE Unread'
  <2>1. Inputs!NoData # CalDone
    BY DEF Inputs!NoData, CalDone
  <2> QED
    BY <1>1, <2>1 DEF Unread
<1>2. ASSUME UNCHANGED <<chipOut, chipMode>>,
             Closing' => Closing /\ \A d \in Channels : chipEn'[d] = chipEn[d]
      PROVE  Unread'
  BY <1>2 DEF Unread
<1>3. CASE RegisterCall
  <2>1. CASE Head(todo).op = "odr"
    <3>1. UNCHANGED <<chipOut, chipMode>> /\ todo # <<>> /\ todo' = Tail(todo)
      BY <1>3, <2>1 DEF RegisterCall, ConfigureDeviceOdr
    <3>2. ~Closing'
      BY <2>1, <3>1, TodoStep
    <3> QED
      BY <1>2, <3>1, <3>2
  <2>2. CASE Head(todo).op = "mode"
    <3>1. chipOut' = Inputs!NoData
      BY <1>3, <2>2 DEF RegisterCall, WriteMode, Outcomes
    <3> QED
      BY <1>1, <3>1
  <2> QED
    BY <1>3, <2>1, <2>2 DEF RegisterCall
<1>4. CASE EnableInputs
  <2>1. UNCHANGED <<chipOut, chipMode>> /\ todo # <<>> /\ Head(todo).op = "enable"
    BY <1>4 DEF EnableInputs, SetChannelStatus, chipVars
  <2>2. CASE todo' = Tail(todo)
    <3>1. ~Closing'
      BY <2>1, <2>2, TodoStep
    <3> QED
      BY <1>2, <2>1, <3>1
  <2>3. ASSUME NEW c \in Head(todo).chans, Head(todo).chans # {c},
               todo' = <<Enable(Head(todo).chans \ {c}, Head(todo).val)>> \o Tail(todo)
        PROVE  Unread'
    <3>1. ASSUME Closing' PROVE Closing
      <4>1. Tail(todo') = Tail(todo)
        <5> DEFINE call == Enable(Head(todo).chans \ {c}, Head(todo).val)
        <5>1. call \in {call} \cup Call /\ Tail(todo) \in Seq({call} \cup Call)
          BY <2>1 DEF TypeOK
        <5> HIDE DEF call
        <5>2. Tail(<<call>> \o Tail(todo)) = Tail(todo)
          BY <5>1
        <5> QED
          BY <2>3, <5>2 DEF call
      <4> QED
        BY <2>1, <3>1, <4>1 DEF Closing
    <3>2. ASSUME Closing PROVE FALSE
      <4>1. Head(todo) = Closes({self})
        BY <3>2, ClosingIs
      <4>2. Head(todo).chans = {self}
        BY <4>1, CallsApart
      <4> QED
        BY <2>3, <4>2
    <3> QED
      BY <1>2, <2>1, <3>1, <3>2
  <2> QED
    BY <1>4, <2>2, <2>3 DEF EnableInputs
<1>5. CASE BeginCalibration
  <2>1. UNCHANGED <<chipOut, chipMode>> /\ todo' = CalibrationScript(self) \o Tail(todo)
    BY <1>5 DEF BeginCalibration, chipVars
  <2>2. /\ CalibrationScript(self) \in Seq(Call) /\ Tail(todo) \in Seq(Call)
        /\ Len(CalibrationScript(self)) = 9
    BY <1>5, ScriptTypes, TailOf DEF BeginCalibration, TypeOK, CalibrationScript
  <2>3. ~Closing'
    <3>1. Len(todo') = Len(CalibrationScript(self)) + Len(Tail(todo)) /\ todo' \in Seq(Call)
      BY <2>1, <2>2, ConcatProperties
    <3>2. Len(todo') >= 9 /\ todo' # <<>> /\ Len(Tail(todo')) = Len(todo') - 1
      <4>1. Len(Tail(todo)) \in Nat
        BY <2>2
      <4>2. Len(todo') >= 9
        BY <2>2, <3>1, <4>1
      <4>3. todo' # <<>>
        BY <4>2
      <4> QED
        BY <3>1, <4>2, <4>3, HeadTailProperties
    <3> QED
      BY <3>2 DEF Closing
  <2> QED
    BY <1>2, <2>1, <2>3
<1>6. CASE WaitForReady
  <2>1. /\ UNCHANGED <<chipOut, chipMode, chipEn>> /\ todo # <<>> /\ Head(todo).op = "wait"
        /\ todo' = todo \/ todo' = Tail(todo)
    BY <1>6 DEF WaitForReady, chipVars
  <2>2. CASE todo' = todo
    BY <1>2, <2>1, <2>2 DEF Closing
  <2>3. CASE todo' = Tail(todo)
    BY <1>2, <2>1, <2>3, TodoStep
  <2> QED
    BY <2>1, <2>2, <2>3
<1>7. ASSUME NEW c \in Channels, NEW on \in BOOLEAN, EnableInput(c, on) PROVE Unread'
  <2>1. UNCHANGED <<chipOut, chipMode>> /\ todo' = <<>>
    BY <1>7 DEF EnableInput, Ready, SetChannelStatus
  <2> QED
    BY <1>2, <2>1 DEF Closing
<1>8. ASSUME NEW c \in Channels, NEW rate \in Rates, UpdateOdr(c, rate) PROVE Unread'
  <2>1. UNCHANGED <<chipOut, chipMode>> /\ todo' = OdrScript(c, rate) \o <<Calibrate(c)>>
    BY <1>8 DEF UpdateOdr, chipVars
  <2>2. ASSUME Closing' PROVE FALSE
    <3>1. CASE rate = Inputs!OdrDefault
      <4>1. OdrScript(c, rate) \o <<Calibrate(c)>> = <<Calibrate(c)>>
        <5>1. <<Calibrate(c)>> \in Seq(Call) /\ OdrScript(c, rate) = <<>>
          BY <3>1, ScriptTypes DEF OdrScript
        <5> QED
          BY <5>1, ConcatEmptySeq
      <4>2. Head(todo') = Calibrate(c)
        BY <2>1, <4>1
      <4>3. Head(todo').op = "calibrate"
        BY <4>2, CallsApart
      <4> QED
        BY <2>2, <4>3 DEF Closing
    <3>2. CASE rate # Inputs!OdrDefault
      <4>1. Len(OdrScript(c, rate)) = 5
        BY <3>2 DEF OdrScript
      <4>2. /\ OdrScript(c, rate) \in Seq(Call) /\ <<Calibrate(c)>> \in Seq(Call)
            /\ Len(<<Calibrate(c)>>) = 1
        BY ScriptTypes
      <4> DEFINE a == OdrScript(c, rate)  b == <<Calibrate(c)>>
      <4> HIDE DEF a, b
      <4>3. a \o b \in Seq(Call) /\ Len(a \o b) = Len(a) + Len(b)
        BY <4>2, ConcatProperties, Zenon DEF a, b
      <4>4. Len(a \o b) = 6 /\ a \o b # <<>>
        BY <4>1, <4>2, <4>3 DEF a, b
      <4>5. Len(Tail(a \o b)) = 5
        BY <4>3, <4>4, TailOf
      <4>6. ASSUME Tail(a \o b) = <<>> PROVE FALSE
        <5>1. Len(Tail(a \o b)) = 0
          BY <4>6, NoCalls, Zenon
        <5> QED
          BY <4>5, <5>1
      <4> QED
        BY <2>1, <2>2, <4>6 DEF Closing, a, b
    <3> QED
      BY <3>1, <3>2
  <2> QED
    BY <1>2, <2>1, <2>2
<1>9. ASSUME NEW c \in Channels, InitCalibration(c) PROVE Unread'
  <2>1. /\ UNCHANGED <<chipOut, chipMode>> /\ Head(todo') = Calibrate(c)
    BY <1>9 DEF InitCalibration, chipVars
  <2>2. Head(todo').op = "calibrate"
    BY <2>1, CallsApart
  <2> QED
    BY <1>2, <2>1, <2>2 DEF Closing
<1>10. ASSUME NEW c \in Channels, Convert(c) PROVE Unread'
  <2>1. chipOut' = Converted(c) /\ chipEn'[c] /\ chipOut' # CalDone
    <3>1. Converted(c) # CalDone
      BY DEF Converted, CalDone
    <3> QED
      BY <1>10, <3>1 DEF Convert, Converted
  <2> QED
    BY <2>1 DEF Unread
<1>11. CASE ReadData
  <2>1. chipMode' = chipMode /\ chipOut' = Inputs!NoData
    BY <1>11 DEF ReadData, Outcomes
  <2> QED
    BY <1>1, <2>1
<1>12. CASE Dispatch \/ UNCHANGED vars
  BY <1>2, <1>12 DEF Dispatch, vars, chipVars, Closing
<1>13. CASE Calibrated
  <2>1. /\ chipOut' = CalDone /\ chipMode' = "IDLE" /\ todo' = todo
        /\ chipMode \in {"OFFSET", "GAIN"}
    BY <1>13 DEF Calibrated
  <2>2. ASSUME Closing PROVE FALSE
    BY <2>1, <2>2, ClosingIs
  <2>3. ~Closing'
    BY <2>1, <2>2 DEF Closing
  <2> QED
    BY <2>1, <2>3 DEF Unread
<1> QED
  BY <1>3, <1>4, <1>5, <1>6, <1>7, <1>8, <1>9, <1>10, <1>11, <1>12, <1>13 DEF Next, Handler

-----------------------------------------------------------------------------
(* Every step of the driver is a step of the inputs, or none.                *)
InputsStep == Inputs!InputsNext(Rates, {0})

LEMMA RegisterUnseen ==
  ASSUME TypeOK, Place, ~busFaults, RegisterCall
  PROVE  Unseen
<1>1. todo # <<>> /\ todo' = Tail(todo) /\ todo \in Seq(Call) /\ Head(todo) \in Call
  BY TailOf DEF RegisterCall, TypeOK
<1>2. DataNow = NoValue
  BY <1>1 DEF DataNow
<1>3. CASE Head(todo).op = "odr"
  <2>1. PICK c \in Head(todo).chans : ConfigureDeviceOdr(c, Head(todo).val, TRUE)
    BY <1>3 DEF RegisterCall, Outcomes
  <2>2. Head(todo).chans = {c} /\ c \in Channels
    BY <1>1, <1>3, <2>1 DEF Call
  <2>3. /\ chipOdr' = [chipOdr EXCEPT ![c] = Head(todo).val]
        /\ UNCHANGED <<chipEn, chipMode, chipOut, chan_map>>
    BY <2>1 DEF ConfigureDeviceOdr
  <2>4. ASSUME NEW d \in Channels
        PROVE  chipEn'[d] = IF Sets(Head(todo), EnOps, d) THEN Head(todo).val ELSE chipEn[d]
    BY <1>3, <2>3, SetsBy
  <2>5. ASSUME NEW d \in Channels
        PROVE  chipOdr'[d]
                 = IF Sets(Head(todo), {"odr"}, d) THEN Head(todo).val ELSE chipOdr[d]
    <3>1. Sets(Head(todo), {"odr"}, d) <=> d = c
      BY <1>3, <2>2, SetsBy
    <3>2. chipOdr'[d] = IF d = c THEN Head(todo).val ELSE chipOdr[d]
      BY <2>2, <2>3 DEF TypeOK
    <3> QED
      BY <3>1, <3>2
  <2>6. EnAtEnd' = EnAtEnd /\ OdrAtEnd' = OdrAtEnd
    BY <1>1, <2>4, <2>5, CallDone
  <2>7. todo' # <<>>
    <3>1. InOdr(3, self, Tail(todo))
      BY <1>1, <1>3, OdrNext, OdrShift
    <3>2. AndLast(3, self, Tail(todo)) /\ 3 \in Nat \ {0}
      BY <3>1 DEF InOdr
    <3> QED
      BY <1>1, <3>2, CallsLeft
  <2>8. DataNow' = NoValue
    BY <2>7 DEF DataNow
  <2> QED
    BY <1>2, <2>6, <2>8 DEF Unseen
<1>4. CASE Head(todo).op = "mode"
  <2>1. /\ chipOut' = Inputs!NoData
        /\ UNCHANGED <<chipEn, chipOdr, chan_map>>
    BY <1>4 DEF RegisterCall, WriteMode, Outcomes
  <2>2. \A d \in Channels : ~Sets(Head(todo), EnOps, d) /\ ~Sets(Head(todo), {"odr"}, d)
    BY <1>4, SetsBy
  <2>3. EnAtEnd' = EnAtEnd /\ OdrAtEnd' = OdrAtEnd
    BY <1>1, <2>1, <2>2, CallDone
  <2>4. DataNow' = NoValue
    BY <2>1 DEF DataNow, NoValue, Inputs!NoData
  <2> QED
    BY <1>2, <2>3, <2>4 DEF Unseen
<1> QED
  BY <1>3, <1>4 DEF RegisterCall

LEMMA WaitUnseen ==
  ASSUME TypeOK, Place, ~busFaults, WaitForReady
  PROVE  Unseen
<1>1. /\ todo # <<>> /\ Head(todo).op = "wait" /\ UNCHANGED <<chipEn, chipOdr, chipOut>>
      /\ todo' = todo \/ todo' = Tail(todo)
  BY DEF WaitForReady, chipVars
<1>2. CASE todo' = todo
  BY <1>1, <1>2, AsAtEnd DEF Unseen, DataNow
<1>3. CASE todo' = Tail(todo)
  <2>1. \A d \in Channels : ~Sets(Head(todo), EnOps, d) /\ ~Sets(Head(todo), {"odr"}, d)
    BY <1>1, SetsBy
  <2>2. EnAtEnd' = EnAtEnd /\ OdrAtEnd' = OdrAtEnd
    BY <1>1, <1>3, <2>1, CallDone
  <2>3. todo' # <<>>
    <3>1. todo \in Seq(Call) /\ Head(todo) = todo[1]
      BY <1>1, TailOf DEF TypeOK
    <3>2. ~AndLast(0, self, todo)
      BY <1>1, <3>1, LastCallIs
    <3>3. ASSUME NEW left \in 1 .. 6, InOdr(left, self, todo) PROVE todo' # <<>>
      <4>1. left # 1
        <5>1. ASSUME left = 1 PROVE FALSE
          <6>1. OdrCall(self, 6, todo[1])
            BY <3>1, <3>3, <5>1, OdrShift
          <6> QED
            BY <1>1, <3>1, <6>1, OdrOp
        <5> QED
          BY <5>1
      <4>2. InOdr(left - 1, self, Tail(todo)) /\ left - 1 \in 1 .. 5
        BY <3>1, <3>3, <4>1, OdrShift
      <4>3. AndLast(left - 1, self, Tail(todo)) /\ left - 1 \in Nat \ {0}
        BY <4>2 DEF InOdr
      <4> QED
        BY <1>3, <4>3, CallsLeft
    <3>4. ASSUME NEW left \in 1 .. 9, InCal(left, self, todo) PROVE todo' # <<>>
      <4>1. left # 1
        <5>1. ASSUME left = 1 PROVE FALSE
          <6>1. CalCall(self, 9, todo[1])
            BY <3>1, <3>4, <5>1, CalShift
          <6> QED
            BY <1>1, <3>1, <6>1, CalOp
        <5> QED
          BY <5>1
      <4>2. InCal(left - 1, self, Tail(todo)) /\ left - 1 \in 1 .. 8
        BY <3>1, <3>4, <4>1, CalShift
      <4>3. AndLast(left - 1, self, Tail(todo)) /\ left - 1 \in Nat \ {0}
        BY <4>2 DEF InCal
      <4> QED
        BY <1>3, <4>3, CallsLeft
    <3> QED
      BY <3>2, <3>3, <3>4 DEF Place
  <2> QED
    BY <1>1, <2>2, <2>3 DEF Unseen, DataNow
<1> QED
  BY <1>1, <1>2, <1>3

(* A calibration enables the own input and leaves the others as they were.   *)
LEMMA CalibrationAtEnd ==
  ASSUME TypeOK, MapMatchesChip, NEW c \in Channels, NEW d \in Channels
  PROVE  /\ AtEnd(CalibrationScript(c), EnOps, d, chipEn[d]) = (d = c \/ chipEn[d])
         /\ AtEnd(CalibrationScript(c), {"odr"}, d, chipOdr[d]) = chipOdr[d]
<1> DEFINE s == CalibrationScript(c)
<1>1. /\ DOMAIN s = 1 .. 9 /\ s[1] = Closes(EnabledInputs) /\ s[2] = Opens({c})
      /\ s[3] = Wait /\ s[4] = SetMode("OFFSET") /\ s[5] = Wait /\ s[6] = SetMode("GAIN")
      /\ s[7] = Opens(EnabledInputs \ {c}) /\ s[8] = Wait
      /\ s[9] = SetMode("CONTINUOUS")
  BY DEF CalibrationScript, Opens, Closes
<1> HIDE DEF s
<1>2. /\ s[1].op = "enable" /\ s[1].chans = EnabledInputs
      /\ s[2].op = "enable" /\ s[2].chans = {c} /\ s[2].val = TRUE
      /\ s[7].op = "enable" /\ s[7].chans = EnabledInputs \ {c} /\ s[7].val = TRUE
      /\ s[3].op = "wait" /\ s[4].op = "mode" /\ s[5].op = "wait"
      /\ s[6].op = "mode" /\ s[8].op = "wait" /\ s[9].op = "mode"
  <2>1. s[1].op = "enable" /\ s[1].chans = EnabledInputs
    BY <1>1, CallsApart
  <2>2. s[2].op = "enable" /\ s[2].chans = {c} /\ s[2].val = TRUE
    BY <1>1, CallsApart
  <2>3. s[7].op = "enable" /\ s[7].chans = EnabledInputs \ {c} /\ s[7].val = TRUE
    BY <1>1, CallsApart
  <2>4. /\ s[3].op = "wait" /\ s[4].op = "mode" /\ s[5].op = "wait"
        /\ s[6].op = "mode" /\ s[8].op = "wait" /\ s[9].op = "mode"
    BY <1>1, CallsApart
  <2> QED
    BY <2>1, <2>2, <2>3, <2>4
<1>3. \A j \in 1 .. 9 : j \in {1, 2, 3, 4, 5, 6, 7, 8, 9}
  OBVIOUS
<1>4. \A j \in 1 .. 9 : ~Sets(s[j], {"odr"}, d)
  BY <1>2, <1>3, SetsBy
<1>5. AtEnd(s, {"odr"}, d, chipOdr[d]) = chipOdr[d]
  BY <1>1, <1>4, SetsNone
<1>6. /\ ~Sets(s[3], EnOps, d) /\ ~Sets(s[4], EnOps, d) /\ ~Sets(s[5], EnOps, d)
      /\ ~Sets(s[6], EnOps, d) /\ ~Sets(s[8], EnOps, d) /\ ~Sets(s[9], EnOps, d)
      /\ Sets(s[1], EnOps, d) <=> d \in EnabledInputs
      /\ Sets(s[2], EnOps, d) <=> d = c
      /\ Sets(s[7], EnOps, d) <=> d \in EnabledInputs \ {c}
  BY <1>2, SetsBy
<1>7. PICK n \in Nat : n = 9
  OBVIOUS
<1>8. DOMAIN s = 1 .. n
  BY <1>1, <1>7
<1>9. d \in EnabledInputs <=> chipEn[d]
  BY DEF EnabledInputs, MapMatchesChip
<1>10. CASE d = c
  <2>1. ASSUME NEW j \in 3 .. 9 PROVE ~Sets(s[j], EnOps, d)
    <3>1. j \in {3, 4, 5, 6, 7, 8, 9}
      OBVIOUS
    <3> QED
      BY <1>6, <1>10, <3>1
  <2>2. AtEnd(s, EnOps, d, chipEn[d]) = s[2].val
    <3>1. PICK k \in 1 .. n : k = 2
      BY <1>7
    <3>2. Sets(s[k], EnOps, d)
      BY <1>6, <1>10, <3>1
    <3>3. ASSUME NEW j \in k + 1 .. n PROVE ~Sets(s[j], EnOps, d)
      BY <1>7, <2>1, <3>1
    <3>4. AtEnd(s, EnOps, d, chipEn[d]) = s[k].val
      BY <1>8, <3>2, <3>3, IsLast
    <3> QED
      BY <3>1, <3>4
  <2> QED
    BY <1>2, <1>5, <1>10, <2>2 DEF s
<1>11. CASE d # c /\ d \in EnabledInputs
  <2>1. ASSUME NEW j \in 8 .. 9 PROVE ~Sets(s[j], EnOps, d)
    <3>1. j \in {8, 9}
      OBVIOUS
    <3> QED
      BY <1>6, <3>1
  <2>2. AtEnd(s, EnOps, d, chipEn[d]) = s[7].val
    <3>1. PICK k \in 1 .. n : k = 7
      BY <1>7
    <3>2. Sets(s[k], EnOps, d)
      BY <1>6, <1>11, <3>1
    <3>3. ASSUME NEW j \in k + 1 .. n PROVE ~Sets(s[j], EnOps, d)
      BY <1>7, <2>1, <3>1
    <3>4. AtEnd(s, EnOps, d, chipEn[d]) = s[k].val
      BY <1>8, <3>2, <3>3, IsLast
    <3> QED
      BY <3>1, <3>4
  <2>3. chipEn[d] = TRUE
    BY <1>9, <1>11 DEF TypeOK
  <2> QED
    BY <1>2, <1>5, <1>11, <2>2, <2>3 DEF s
<1>12. CASE d # c /\ d \notin EnabledInputs
  <2>1. \A j \in 1 .. 9 : ~Sets(s[j], EnOps, d)
    BY <1>3, <1>6, <1>12
  <2>2. AtEnd(s, EnOps, d, chipEn[d]) = chipEn[d]
    BY <1>1, <2>1, SetsNone
  <2>3. chipEn[d] = FALSE
    BY <1>9, <1>12 DEF TypeOK
  <2> QED
    BY <1>5, <1>12, <2>2, <2>3 DEF s
<1> QED
  BY <1>10, <1>11, <1>12

LEMMA BeginUnseen ==
  ASSUME TypeOK, MapMatchesChip, Place, ~busFaults, BeginCalibration
  PROVE  Unseen
<1>1. /\ todo # <<>> /\ Head(todo).op = "calibrate"
      /\ todo' = CalibrationScript(self) \o Tail(todo) /\ UNCHANGED <<chipEn, chipOdr, chipOut>>
      /\ todo \in Seq(Call) /\ Tail(todo) \in Seq(Call) /\ self \in Channels
      /\ Head(todo) = todo[1]
  BY TailOf DEF BeginCalibration, chipVars, TypeOK
<1>2. Head(todo) = Calibrate(self)
  <2>1. InOdr(1, self, todo)
    BY <1>1, CalibrateNext
  <2>2. OdrCall(self, 6, todo[1])
    BY <1>1, <2>1, OdrShift
  <2> QED
    BY <1>1, <2>2 DEF OdrCall
<1>3. Head(todo).chans = {self} /\ Head(todo).val = TRUE
  BY <1>2 DEF Calibrate
<1> DEFINE a == CalibrationScript(self)
<1>4. a \in Seq(Call) /\ a # <<>>
  BY <1>1, ScriptTypes DEF CalibrationScript
<1>5. ASSUME NEW d \in Channels
      PROVE  AtEnd(todo', EnOps, d, chipEn'[d]) = AtEnd(todo, EnOps, d, chipEn[d])
  <2>1. AtEnd(a, EnOps, d, chipEn[d]) = (d = self \/ chipEn[d])
    BY <1>1, CalibrationAtEnd
  <2> HIDE DEF a
  <2>2. AtEnd(a \o Tail(todo), EnOps, d, chipEn[d])
          = AtEnd(Tail(todo), EnOps, d, AtEnd(a, EnOps, d, chipEn[d]))
    <3>1. PICK b \in Seq(Call) : b = Tail(todo)
      BY <1>1
    <3>2. AtEnd(a \o b, EnOps, d, chipEn[d]) = AtEnd(b, EnOps, d, AtEnd(a, EnOps, d, chipEn[d]))
      BY <1>4, AtEndConcat
    <3> QED
      BY <3>1, <3>2
  <2>3. Sets(Head(todo), EnOps, d) <=> d = self
    BY <1>1, <1>3, SetsBy
  <2>4. (IF Sets(Head(todo), EnOps, d) THEN Head(todo).val ELSE chipEn[d])
          = (d = self \/ chipEn[d])
    <3>1. chipEn[d] \in BOOLEAN
      BY DEF TypeOK
    <3> QED
      BY <1>3, <2>3, <3>1
  <2>5. AtEnd(todo, EnOps, d, chipEn[d])
          = AtEnd(Tail(todo), EnOps, d, (d = self \/ chipEn[d]))
    BY <1>1, <2>4, AtEndStep
  <2>6. AtEnd(a \o Tail(todo), EnOps, d, chipEn[d]) = AtEnd(todo, EnOps, d, chipEn[d])
    BY <2>1, <2>2, <2>5
  <2> QED
    BY <1>1, <2>6 DEF a
<1>6. ASSUME NEW d \in Channels
      PROVE  AtEnd(todo', {"odr"}, d, chipOdr'[d]) = AtEnd(todo, {"odr"}, d, chipOdr[d])
  <2>1. AtEnd(a, {"odr"}, d, chipOdr[d]) = chipOdr[d]
    BY <1>1, CalibrationAtEnd
  <2> HIDE DEF a
  <2>2. AtEnd(a \o Tail(todo), {"odr"}, d, chipOdr[d])
          = AtEnd(Tail(todo), {"odr"}, d, AtEnd(a, {"odr"}, d, chipOdr[d]))
    <3>1. PICK b \in Seq(Call) : b = Tail(todo)
      BY <1>1
    <3>2. AtEnd(a \o b, {"odr"}, d, chipOdr[d])
            = AtEnd(b, {"odr"}, d, AtEnd(a, {"odr"}, d, chipOdr[d]))
      BY <1>4, AtEndConcat
    <3> QED
      BY <3>1, <3>2
  <2>3. ~Sets(Head(todo), {"odr"}, d)
    BY <1>1, SetsBy
  <2>4. AtEnd(todo, {"odr"}, d, chipOdr[d]) = AtEnd(Tail(todo), {"odr"}, d, chipOdr[d])
    BY <1>1, <2>3, AtEndStep
  <2>5. AtEnd(a \o Tail(todo), {"odr"}, d, chipOdr[d]) = AtEnd(todo, {"odr"}, d, chipOdr[d])
    BY <2>1, <2>2, <2>4
  <2> QED
    BY <1>1, <2>5 DEF a
<1>7. todo' # <<>>
  <2>1. Len(a) = 9
    BY DEF CalibrationScript
  <2> HIDE DEF a
  <2>2. Len(a \o Tail(todo)) = Len(a) + Len(Tail(todo)) /\ Len(Tail(todo)) \in Nat
    BY <1>1, <1>4, ConcatProperties
  <2>3. Len(a \o Tail(todo)) # 0
    BY <2>1, <2>2
  <2>4. a \o Tail(todo) # <<>>
    BY <2>3, NoCalls
  <2> QED
    BY <1>1, <2>4 DEF a
<1> QED
  BY <1>1, <1>5, <1>6, <1>7, AsAtEnd DEF Unseen, DataNow

(* The operations of AdcInputs, in terms of what is seen of the driver.      *)
LEMMA SameChannels == Inputs!Channels = Channels
  BY DEF Inputs!Channels, Channels

LEMMA SeenStatus ==
  ASSUME NEW c \in Channels, NEW on \in BOOLEAN, EnAtEnd' = [EnAtEnd EXCEPT ![c] = on],
         OdrAtEnd' = OdrAtEnd, DataNow' = DataNow
  PROVE  InputsStep
  BY SameChannels DEF InputsStep, Inputs!InputsNext, Inputs!SetChannelStatus, DataNow

LEMMA SeenOdr ==
  ASSUME NEW c \in Channels, NEW rate \in Rates, EnAtEnd' = [EnAtEnd EXCEPT ![c] = TRUE],
         OdrAtEnd' = [OdrAtEnd EXCEPT ![c] = Inputs!FilterAfter(OdrAtEnd[c], rate)],
         DataNow' \in {DataNow, Inputs!NoData}
  PROVE  InputsStep
<1>1. EnAtEnd' \in Inputs!InputsAfter(c, TRUE)
  BY DEF Inputs!InputsAfter
<1>2. DataNow' \in {DataNow, Inputs!NoData}
                     \cup (IF FALSE THEN {[ch_num |-> c, code |-> 0]} ELSE {})
  OBVIOUS
<1>3. Inputs!ChangeOdr(c, rate, 0)
  BY <1>1, <1>2, Zenon DEF Inputs!ChangeOdr, Inputs!AdcInternalCalibration, DataNow
<1> QED
  BY <1>3, SameChannels DEF InputsStep, Inputs!InputsNext

LEMMA SeenInit ==
  ASSUME NEW c \in Channels, EnAtEnd' = [EnAtEnd EXCEPT ![c] = FALSE],
         OdrAtEnd' = OdrAtEnd, DataNow' \in {DataNow, Inputs!NoData, Converted(c)}
  PROVE  InputsStep
<1>1. Inputs!CalibrateAndDisable(c, 0) /\ UNCHANGED OdrAtEnd
  BY DEF Inputs!CalibrateAndDisable, Inputs!InputsAfter, DataNow, Converted
<1> QED
  BY <1>1, SameChannels DEF InputsStep, Inputs!InputsNext

LEMMA SeenConvert ==
  ASSUME NEW c \in Channels, EnAtEnd[c], Overrun \/ DataNow = Inputs!NoData,
         DataNow' = Converted(c), EnAtEnd' = EnAtEnd, OdrAtEnd' = OdrAtEnd
  PROVE  InputsStep
<1>1. Inputs!Converts(c, 0) /\ UNCHANGED <<EnAtEnd, OdrAtEnd>>
  BY DEF Inputs!Converts, DataNow, Converted
<1> QED
  BY <1>1, SameChannels DEF InputsStep, Inputs!InputsNext

LEMMA SeenRead ==
  ASSUME DataNow # Inputs!NoData, DataNow' = Inputs!NoData,
         EnAtEnd' = EnAtEnd, OdrAtEnd' = OdrAtEnd
  PROVE  InputsStep
  BY DEF InputsStep, Inputs!InputsNext, DataNow

LEMMA EnableKeeps ==
  ASSUME TypeOK, ~busFaults, EnableInputs
  PROVE  EnAtEnd' = EnAtEnd /\ OdrAtEnd' = OdrAtEnd
<1>1. /\ todo # <<>> /\ Head(todo).op = "enable" /\ todo \in Seq(Call)
      /\ Head(todo) \in Call /\ Tail(todo) \in Seq(Call)
  BY TailOf DEF EnableInputs, TypeOK
<1>2. Head(todo).chans \in SUBSET Channels /\ Head(todo).val \in BOOLEAN
  BY <1>1, CallParts
<1>3. \A d \in Channels : /\ Sets(Head(todo), EnOps, d) <=> d \in Head(todo).chans
                          /\ ~Sets(Head(todo), {"odr"}, d)
  BY <1>1, SetsBy
<1>4. CASE /\ Head(todo).chans = {} /\ todo' = Tail(todo)
           /\ UNCHANGED <<chipVars, chan_map>>
  <2>1. UNCHANGED <<chipEn, chipOdr>>
    BY <1>4 DEF chipVars
  <2> QED
    BY <1>1, <1>3, <1>4, <2>1, CallDone
<1>5. ASSUME NEW c \in Head(todo).chans, SetChannelStatus(c, Head(todo).val, TRUE),
             todo' = IF Head(todo).chans = {c} THEN Tail(todo)
                     ELSE <<Enable(Head(todo).chans \ {c}, Head(todo).val)>> \o Tail(todo)
      PROVE  EnAtEnd' = EnAtEnd /\ OdrAtEnd' = OdrAtEnd
  <2>1. \A d \in Channels : chipEn'[d] = IF d = c THEN Head(todo).val ELSE chipEn[d]
    BY <1>2, <1>5 DEF SetChannelStatus, TypeOK
  <2>2. chipOdr' = chipOdr
    BY <1>5 DEF SetChannelStatus
  <2>3. CASE Head(todo).chans = {c}
    BY <1>1, <1>3, <1>5, <2>1, <2>2, <2>3, CallDone
  <2>4. CASE Head(todo).chans # {c}
    <3> DEFINE call == Enable(Head(todo).chans \ {c}, Head(todo).val)
    <3>1. call.op = "enable" /\ call.chans = Head(todo).chans \ {c} /\ call.val = Head(todo).val
      BY DEF Enable
    <3>2. call \in Call
      <4>1. Head(todo).chans \ {c} \in SUBSET Channels
        BY <1>2
      <4> QED
        BY <1>2, <4>1, Zenon DEF Call, Enable
    <3> HIDE DEF call
    <3>3. todo' = <<call>> \o Tail(todo)
      BY <1>5, <2>4 DEF call
    <3>4. PICK a \in Seq(Call), b \in Seq(Call) : a = <<call>> /\ b = Tail(todo)
      <4>1. <<call>> \in Seq(Call)
        BY <3>2
      <4> QED
        BY <1>1, <4>1, Zenon
    <3>5. /\ \A d : AtEnd(a, EnOps, d, chipEn'[d])
                      = IF Sets(call, EnOps, d) THEN call.val ELSE chipEn'[d]
          /\ \A d : AtEnd(a, {"odr"}, d, chipOdr'[d])
                      = IF Sets(call, {"odr"}, d) THEN call.val ELSE chipOdr'[d]
      BY <3>4, AtEndOne
    <3>6. /\ \A d : AtEnd(a \o b, EnOps, d, chipEn'[d])
                      = AtEnd(b, EnOps, d, AtEnd(a, EnOps, d, chipEn'[d]))
          /\ \A d : AtEnd(a \o b, {"odr"}, d, chipOdr'[d])
                      = AtEnd(b, {"odr"}, d, AtEnd(a, {"odr"}, d, chipOdr'[d]))
      BY AtEndConcat
    <3>7. ASSUME NEW d \in Channels
          PROVE  /\ AtEnd(todo', EnOps, d, chipEn'[d]) = AtEnd(todo, EnOps, d, chipEn[d])
                 /\ AtEnd(todo', {"odr"}, d, chipOdr'[d]) = AtEnd(todo, {"odr"}, d, chipOdr[d])
      <4>1. (IF Sets(call, EnOps, d) THEN call.val ELSE chipEn'[d])
              = IF Sets(Head(todo), EnOps, d) THEN Head(todo).val ELSE chipEn[d]
        <5>1. Sets(call, EnOps, d) <=> d \in Head(todo).chans \ {c}
          BY <3>1, SetsBy
        <5> QED
          BY <1>3, <2>1, <3>1, <5>1
      <4>2. ~Sets(call, {"odr"}, d) /\ ~Sets(Head(todo), {"odr"}, d)
        BY <1>3, <3>1, SetsBy
      <4>3. /\ AtEnd(todo, EnOps, d, chipEn[d])
                 = AtEnd(b, EnOps, d,
                         IF Sets(Head(todo), EnOps, d) THEN Head(todo).val ELSE chipEn[d])
            /\ AtEnd(todo, {"odr"}, d, chipOdr[d]) = AtEnd(b, {"odr"}, d, chipOdr[d])
        <5>1. /\ AtEnd(todo, EnOps, d, chipEn[d])
                   = AtEnd(Tail(todo), EnOps, d,
                           IF Sets(Head(todo), EnOps, d) THEN Head(todo).val ELSE chipEn[d])
              /\ AtEnd(todo, {"odr"}, d, chipOdr[d]) = AtEnd(Tail(todo), {"odr"}, d, chipOdr[d])
          BY <1>1, <4>2, AtEndStep
        <5> QED
          BY <3>4, <5>1
      <4>4. /\ AtEnd(todo', EnOps, d, chipEn'[d])
                 = AtEnd(b, EnOps, d, IF Sets(call, EnOps, d) THEN call.val ELSE chipEn'[d])
            /\ AtEnd(todo', {"odr"}, d, chipOdr'[d]) = AtEnd(b, {"odr"}, d, chipOdr[d])
        BY <2>2, <3>3, <3>4, <3>5, <3>6, <4>2
      <4> QED
        BY <4>1, <4>3, <4>4
    <3> QED
      BY <3>7, AsAtEnd
  <2> QED
    BY <2>3, <2>4
<1> QED
  BY <1>4, <1>5 DEF EnableInputs, Outcomes

LEMMA EnableSeen ==
  ASSUME TypeOK, Place, Unread, ~busFaults, EnableInputs
  PROVE  Unseen \/ InputsStep
<1>1. EnAtEnd' = EnAtEnd /\ OdrAtEnd' = OdrAtEnd
  BY EnableKeeps
<1>2. todo # <<>> /\ DataNow = NoValue /\ chipOut' = chipOut /\ NoValue = Inputs!NoData
  BY DEF EnableInputs, SetChannelStatus, chipVars, DataNow, NoValue, Inputs!NoData
<1>3. CASE todo' # <<>>
  BY <1>1, <1>2, <1>3 DEF Unseen, DataNow
<1>4. CASE todo' = <<>>
  <2>1. Tail(todo) = <<>>
    <3>1. \/ todo' = Tail(todo)
          \/ \E c : todo' = <<Enable(Head(todo).chans \ {c}, Head(todo).val)>> \o Tail(todo)
      BY DEF EnableInputs
    <3>2. ASSUME NEW call, todo' = <<call>> \o Tail(todo) PROVE FALSE
      <4>1. <<call>> \in Seq({call} \cup Call) /\ Tail(todo) \in Seq({call} \cup Call)
        BY <1>2, TailOf DEF TypeOK
      <4>2. Len(<<call>> \o Tail(todo)) = 1 + Len(Tail(todo)) /\ Len(Tail(todo)) \in Nat
        BY <4>1
      <4> QED
        BY <1>4, <3>2, <4>2, NoCalls
    <3> QED
      BY <1>4, <3>1, <3>2
  <2>2. Closing
    BY <1>2, <2>1 DEF Closing, EnableInputs
  <2>3. Head(todo) = Closes({self})
    BY <2>2, ClosingIs
  <2>4. Head(todo).chans = {self} /\ Head(todo).val = FALSE
    BY <2>3, CallsApart
  <2>5. /\ todo \in Seq(Call) /\ self \in Channels /\ chipEn \in [Channels -> BOOLEAN]
    BY DEF TypeOK
  <2>6. \A d \in Channels : EnAtEnd[d] = IF d = self THEN FALSE ELSE chipEn[d]
    <3>1. ASSUME NEW d \in Channels
          PROVE  AtEnd(todo, EnOps, d, chipEn[d]) = IF d = self THEN FALSE ELSE chipEn[d]
      <4>1. Sets(Head(todo), EnOps, d) <=> d = self
        BY <2>2, <2>4, SetsBy DEF Closing
      <4>2. AtEnd(todo, EnOps, d, chipEn[d])
              = AtEnd(Tail(todo), EnOps, d,
                      IF Sets(Head(todo), EnOps, d) THEN Head(todo).val ELSE chipEn[d])
        BY <1>2, <2>5, AtEndStep
      <4>3. \A v : AtEnd(Tail(todo), EnOps, d, v) = v
        BY <2>1, AtEndEmpty, Zenon
      <4> QED
        BY <2>4, <4>1, <4>2, <4>3
    <3> QED
      BY <3>1, AsAtEnd
  <2>7. DataNow' = chipOut
    BY <1>2, <1>4 DEF DataNow
  <2>8. CASE chipOut = Inputs!NoData
    BY <1>1, <1>2, <2>7, <2>8 DEF Unseen
  <2>9. ASSUME NEW d \in Channels, chipEn[d], chipOut = Converted(d)
        PROVE  InputsStep
    <3>1. CASE d = self
      <4>1. EnAtEnd' = [EnAtEnd EXCEPT ![d] = FALSE]
        <5>1. EnAtEnd[d] = FALSE
          BY <2>6, <3>1
        <5>2. EnAtEnd = [c \in Channels |-> EnAtEnd[c]]
          BY AsAtEnd
        <5> HIDE DEF EnAtEnd
        <5> QED
          BY <1>1, <5>1, <5>2
      <4> QED
        BY <1>1, <2>7, <2>9, <4>1, SeenInit
    <3>2. CASE d # self
      <4>1. EnAtEnd[d]
        BY <2>6, <2>9, <3>2
      <4> QED
        BY <1>1, <1>2, <2>7, <2>9, <4>1, SeenConvert
    <3> QED
      BY <3>1, <3>2
  <2> QED
    BY <2>2, <2>8, <2>9 DEF Unread
<1> QED
  BY <1>3, <1>4

LEMMA StatusSeen ==
  ASSUME TypeOK, ~busFaults, NEW c \in Channels, NEW on \in BOOLEAN, EnableInput(c, on)
  PROVE  InputsStep
<1>1. /\ todo = <<>> /\ todo' = <<>> /\ chipEn' = [chipEn EXCEPT ![c] = on]
      /\ UNCHANGED <<chipOdr, chipOut>>
  BY DEF EnableInput, Ready, SetChannelStatus, Outcomes
<1>2. EnAtEnd = chipEn /\ OdrAtEnd = chipOdr /\ DataNow = chipOut
  BY <1>1, SeenAtRest
<1>3. ASSUME NEW d \in Channels
      PROVE  /\ AtEnd(todo', EnOps, d, chipEn'[d]) = chipEn'[d]
             /\ AtEnd(todo', {"odr"}, d, chipOdr'[d]) = chipOdr'[d]
  BY <1>1, AtEndEmpty, Zenon
<1>4. EnAtEnd' = [d \in Channels |-> chipEn'[d]] /\ OdrAtEnd' = [d \in Channels |-> chipOdr'[d]]
  BY <1>3, AsAtEnd
<1>5. EnAtEnd' = [EnAtEnd EXCEPT ![c] = on] /\ OdrAtEnd' = OdrAtEnd
  <2>1. chipEn' = [d \in Channels |-> chipEn'[d]] /\ chipOdr' = [d \in Channels |-> chipOdr'[d]]
    BY <1>1 DEF TypeOK
  <2>2. EnAtEnd' = chipEn' /\ OdrAtEnd' = chipOdr'
    BY <1>4, <2>1
  <2> QED
    BY <1>1, <1>2, <2>2
<1>6. DataNow' = DataNow
  BY <1>1 DEF DataNow
<1> QED
  BY <1>5, <1>6, SeenStatus

(* A change of the data rate, of which the last call is a calibration.       *)
LEMMA OdrSeen ==
  ASSUME TypeOK, NEW c \in Channels, NEW rate \in Rates, UpdateOdr(c, rate)
  PROVE  InputsStep
<1> DEFINE a == OdrScript(c, rate)  b == <<Calibrate(c)>>
           new == Inputs!FilterAfter(chipOdr[c], rate)
<1>1. /\ todo = <<>> /\ todo' = a \o b /\ UNCHANGED <<chipEn, chipOdr, chipOut>>
  BY DEF UpdateOdr, Ready, chipVars
<1>2. EnAtEnd = chipEn /\ OdrAtEnd = chipOdr /\ DataNow = chipOut
  BY <1>1, SeenAtRest
<1>3. /\ a \in Seq(Call) /\ b \in Seq(Call) /\ Len(b) = 1
      /\ Calibrate(c).op = "calibrate" /\ Calibrate(c).chans = {c} /\ Calibrate(c).val = TRUE
  BY ScriptTypes DEF Calibrate
<1>4. ASSUME NEW d \in Channels
      PROVE  AtEnd(a, {"odr"}, d, chipOdr[d]) = IF d = c THEN new ELSE chipOdr[d]
  <2>1. CASE rate = Inputs!OdrDefault
    <3>1. a = <<>> /\ new = chipOdr[c]
      BY <2>1 DEF OdrScript, Inputs!FilterAfter
    <3>2. \A v : AtEnd(a, {"odr"}, d, v) = v
      BY <3>1, AtEndEmpty, Zenon
    <3> QED
      BY <3>1, <3>2
  <2>2. CASE rate # Inputs!OdrDefault
    <3>1. PICK r : r = IF rate \in Inputs!OdrLut THEN rate ELSE Inputs!OdrDefault
      OBVIOUS
    <3>2. new = r
      BY <2>2, <3>1 DEF Inputs!FilterAfter
    <3>3. a = <<Opens({c}), Wait, SetOdr(c, r), Wait, Closes({c})>>
      BY <2>2, <3>1 DEF OdrScript, Opens, Closes
    <3>4. /\ DOMAIN a = 1 .. 5 /\ a[1] = Opens({c}) /\ a[2] = Wait /\ a[3] = SetOdr(c, r)
          /\ a[4] = Wait /\ a[5] = Closes({c})
      BY <3>3
    <3> HIDE DEF a, new
    <3>5. PICK n \in Nat : n = 5
      OBVIOUS
    <3>6. DOMAIN a = 1 .. n
      BY <3>4, <3>5
    <3>7. /\ a[1].op = "enable" /\ a[2].op = "wait" /\ a[4].op = "wait" /\ a[5].op = "enable"
      BY <3>4, CallsApart
    <3>8. a[3].op = "odr" /\ a[3].chans = {c} /\ a[3].val = r
      BY <3>4 DEF SetOdr
    <3>9. /\ ~Sets(a[1], {"odr"}, d) /\ ~Sets(a[2], {"odr"}, d)
          /\ ~Sets(a[4], {"odr"}, d) /\ ~Sets(a[5], {"odr"}, d)
          /\ Sets(a[3], {"odr"}, d) <=> d = c
      BY <3>7, <3>8, SetsBy
    <3>10. CASE d = c
      <4>1. PICK k \in 1 .. n : k = 3
        BY <3>5
      <4>2. Sets(a[k], {"odr"}, d)
        BY <3>9, <3>10, <4>1
      <4>3. ASSUME NEW j \in k + 1 .. n PROVE ~Sets(a[j], {"odr"}, d)
        <5>1. j \in {4, 5}
          BY <3>5, <4>1
        <5> QED
          BY <3>9, <5>1
      <4>4. AtEnd(a, {"odr"}, d, chipOdr[d]) = a[k].val
        BY <3>6, <4>2, <4>3, IsLast
      <4> QED
        BY <3>2, <3>8, <3>10, <4>1, <4>4
    <3>11. CASE d # c
      <4>1. ASSUME NEW j \in 1 .. n PROVE ~Sets(a[j], {"odr"}, d)
        <5>1. j \in {1, 2, 3, 4, 5}
          BY <3>5
        <5> QED
          BY <3>9, <3>11, <5>1
      <4>2. AtEnd(a, {"odr"}, d, chipOdr[d]) = chipOdr[d]
        BY <3>6, <4>1, SetsNone
      <4> QED
        BY <3>11, <4>2
    <3> QED
      BY <3>10, <3>11
  <2> QED
    BY <2>1, <2>2
<1>5. ASSUME NEW d \in Channels, d # c PROVE AtEnd(a, EnOps, d, chipEn[d]) = chipEn[d]
  <2>1. CASE rate = Inputs!OdrDefault
    <3>1. a = <<>>
      BY <2>1 DEF OdrScript
    <3>2. \A v : AtEnd(a, EnOps, d, v) = v
      BY <3>1, AtEndEmpty, Zenon
    <3> QED
      BY <3>2
  <2>2. CASE rate # Inputs!OdrDefault
    <3>1. PICK r : a = <<Opens({c}), Wait, SetOdr(c, r), Wait, Closes({c})>>
      BY <2>2 DEF OdrScript, Opens, Closes
    <3>2. /\ DOMAIN a = 1 .. 5 /\ a[1] = Opens({c}) /\ a[2] = Wait /\ a[3] = SetOdr(c, r)
          /\ a[4] = Wait /\ a[5] = Closes({c})
      BY <3>1
    <3> HIDE DEF a
    <3>3. PICK n \in Nat : n = 5
      OBVIOUS
    <3>4. DOMAIN a = 1 .. n
      BY <3>2, <3>3
    <3>5. /\ a[1].op = "enable" /\ a[1].chans = {c} /\ a[2].op = "wait" /\ a[4].op = "wait"
          /\ a[5].op = "enable" /\ a[5].chans = {c}
      BY <3>2, CallsApart
    <3>6. a[3].op = "odr"
      BY <3>2 DEF SetOdr
    <3>7. /\ ~Sets(a[1], EnOps, d) /\ ~Sets(a[2], EnOps, d) /\ ~Sets(a[3], EnOps, d)
          /\ ~Sets(a[4], EnOps, d) /\ ~Sets(a[5], EnOps, d)
      BY <1>5, <3>5, <3>6, SetsBy
    <3>8. ASSUME NEW j \in 1 .. n PROVE ~Sets(a[j], EnOps, d)
      <4>1. j \in {1, 2, 3, 4, 5}
        BY <3>3
      <4> QED
        BY <3>7, <4>1
    <3> QED
      BY <3>4, <3>8, SetsNone
  <2> QED
    BY <2>1, <2>2
<1> HIDE DEF a, new
<1>6. ASSUME NEW d \in Channels
      PROVE  /\ AtEnd(todo', EnOps, d, chipEn'[d]) = IF d = c THEN TRUE ELSE chipEn[d]
             /\ AtEnd(todo', {"odr"}, d, chipOdr'[d]) = IF d = c THEN new ELSE chipOdr[d]
  <2>1. /\ \A v : AtEnd(b, EnOps, d, v) = IF Sets(Calibrate(c), EnOps, d) THEN TRUE ELSE v
        /\ \A v : AtEnd(b, {"odr"}, d, v) = IF Sets(Calibrate(c), {"odr"}, d) THEN TRUE ELSE v
    <3>1. PICK call : call = Calibrate(c) /\ call.val = TRUE
      BY <1>3
    <3>2. /\ \A v : AtEnd(<<call>>, EnOps, d, v)
                    = IF Sets(call, EnOps, d) THEN call.val ELSE v
          /\ \A v : AtEnd(<<call>>, {"odr"}, d, v)
                    = IF Sets(call, {"odr"}, d) THEN call.val ELSE v
      BY AtEndOne
    <3> QED
      BY <3>1, <3>2, Zenon
  <2>2. (Sets(Calibrate(c), EnOps, d) <=> d = c) /\ ~Sets(Calibrate(c), {"odr"}, d)
    BY <1>3, SetsBy
  <2> HIDE DEF b
  <2>3. /\ AtEnd(a \o b, EnOps, d, chipEn[d])
             = AtEnd(b, EnOps, d, AtEnd(a, EnOps, d, chipEn[d]))
        /\ AtEnd(a \o b, {"odr"}, d, chipOdr[d])
             = AtEnd(b, {"odr"}, d, AtEnd(a, {"odr"}, d, chipOdr[d]))
    BY <1>3, AtEndConcat
  <2> QED
    BY <1>1, <1>4, <1>5, <2>1, <2>2, <2>3
<1>7. EnAtEnd' = [EnAtEnd EXCEPT ![c] = TRUE]
  <2>1. EnAtEnd' = [d \in Channels |-> IF d = c THEN TRUE ELSE chipEn[d]]
    BY <1>6, AsAtEnd
  <2> QED
    BY <1>2, <2>1 DEF TypeOK
<1>8. OdrAtEnd' = [OdrAtEnd EXCEPT ![c] = Inputs!FilterAfter(OdrAtEnd[c], rate)]
  <2>1. OdrAtEnd' = [d \in Channels |-> IF d = c THEN new ELSE chipOdr[d]]
    BY <1>6, AsAtEnd
  <2>2. OdrAtEnd' = [chipOdr EXCEPT ![c] = new]
    BY <2>1 DEF TypeOK
  <2> QED
    BY <1>2, <2>2 DEF new
<1>9. DataNow' \in {DataNow, Inputs!NoData}
  BY <1>1, <1>2 DEF DataNow, NoValue, Inputs!NoData
<1> QED
  BY <1>7, <1>8, <1>9, SeenOdr

LEMMA InitSeen ==
  ASSUME TypeOK, NEW c \in Channels, InitCalibration(c)
  PROVE  InputsStep
<1>1. /\ todo = <<>> /\ todo' = <<Calibrate(c), Closes({c})>>
      /\ UNCHANGED <<chipEn, chipOdr, chipOut>>
  BY DEF InitCalibration, Ready, chipVars, Closes
<1>2. EnAtEnd = chipEn /\ OdrAtEnd = chipOdr /\ DataNow = chipOut
  BY <1>1, SeenAtRest
<1>3. /\ DOMAIN todo' = 1 .. 2 /\ todo'[1] = Calibrate(c) /\ todo'[2] = Closes({c})
  BY <1>1
<1>4. /\ todo'[1].op = "calibrate" /\ todo'[1].chans = {c}
      /\ todo'[2].op = "enable" /\ todo'[2].chans = {c} /\ todo'[2].val = FALSE
  BY <1>3, CallsApart DEF Calibrate
<1>5. PICK n \in Nat : n = 2
  OBVIOUS
<1>6. DOMAIN todo' = 1 .. n
  BY <1>3, <1>5
<1>7. \A j \in 1 .. n : j = 1 \/ j = 2
  BY <1>5
<1>8. ASSUME NEW d \in Channels
      PROVE  /\ AtEnd(todo', EnOps, d, chipEn'[d]) = IF d = c THEN FALSE ELSE chipEn[d]
             /\ AtEnd(todo', {"odr"}, d, chipOdr'[d]) = chipOdr[d]
  <2>1. /\ Sets(todo'[1], EnOps, d) <=> d = c
        /\ Sets(todo'[2], EnOps, d) <=> d = c
        /\ ~Sets(todo'[1], {"odr"}, d) /\ ~Sets(todo'[2], {"odr"}, d)
    BY <1>4, SetsBy
  <2>2. \A j \in 1 .. n : ~Sets(todo'[j], {"odr"}, d)
    BY <1>7, <2>1
  <2>3. AtEnd(todo', {"odr"}, d, chipOdr[d]) = chipOdr[d]
    BY <1>6, <2>2, SetsNone
  <2>4. CASE d = c
    <3>1. PICK k \in 1 .. n : k = 2
      BY <1>5
    <3>2. Sets(todo'[k], EnOps, d)
      BY <2>1, <2>4, <3>1
    <3>3. ASSUME NEW j \in k + 1 .. n PROVE ~Sets(todo'[j], EnOps, d)
      BY <1>5, <3>1
    <3>4. AtEnd(todo', EnOps, d, chipEn[d]) = todo'[k].val
      BY <1>6, <3>2, <3>3, IsLast
    <3> QED
      BY <1>1, <1>4, <2>3, <2>4, <3>1, <3>4
  <2>5. CASE d # c
    <3>1. \A j \in 1 .. n : ~Sets(todo'[j], EnOps, d)
      BY <1>7, <2>1, <2>5
    <3>2. AtEnd(todo', EnOps, d, chipEn[d]) = chipEn[d]
      BY <1>6, <3>1, SetsNone
    <3> QED
      BY <1>1, <2>3, <2>5, <3>2
  <2> QED
    BY <2>4, <2>5
<1>9. EnAtEnd' = [EnAtEnd EXCEPT ![c] = FALSE]
  <2>1. EnAtEnd' = [d \in Channels |-> IF d = c THEN FALSE ELSE chipEn[d]]
    BY <1>8, AsAtEnd
  <2> QED
    BY <1>2, <2>1 DEF TypeOK
<1>10. OdrAtEnd' = OdrAtEnd
  <2>1. OdrAtEnd' = [d \in Channels |-> chipOdr[d]]
    BY <1>8, AsAtEnd
  <2> QED
    BY <1>2, <2>1 DEF TypeOK
<1>11. DataNow' \in {DataNow, Inputs!NoData, Converted(c)}
  BY <1>1, <1>2 DEF DataNow, NoValue, Inputs!NoData
<1> QED
  BY <1>9, <1>10, <1>11, SeenInit

LEMMA RegistersKept ==
  ASSUME UNCHANGED <<todo, chipEn, chipOdr>>
  PROVE  EnAtEnd' = EnAtEnd /\ OdrAtEnd' = OdrAtEnd
  BY AsAtEnd

LEMMA ReadSeen ==
  ASSUME TypeOK, Place, Unread, ~busFaults, ReadData
  PROVE  Unseen \/ InputsStep
<1>1. /\ todo = <<>> /\ chipOut' = Inputs!NoData /\ UNCHANGED <<todo, chipEn, chipOdr>>
  BY DEF ReadData, Ready, Outcomes
<1>2. EnAtEnd' = EnAtEnd /\ OdrAtEnd' = OdrAtEnd
  BY <1>1, RegistersKept
<1>3. DataNow = chipOut /\ DataNow' = Inputs!NoData
  BY <1>1 DEF DataNow
<1> QED
  BY <1>2, <1>3, SeenRead DEF Unseen

LEMMA ConvertSeen ==
  ASSUME TypeOK, NEW c \in Channels, Convert(c)
  PROVE  Unseen \/ InputsStep
<1>1. /\ chipEn[c]
      /\ Overrun \/ chipOut = Inputs!NoData
      /\ chipOut' = Converted(c) /\ UNCHANGED <<todo, chipEn, chipOdr>>
  BY DEF Convert, Converted
<1>2. EnAtEnd' = EnAtEnd /\ OdrAtEnd' = OdrAtEnd
  BY <1>1, RegistersKept
<1>3. CASE todo = <<>>
  <2>1. EnAtEnd = chipEn /\ DataNow = chipOut /\ DataNow' = Converted(c)
    BY <1>1, <1>3, SeenAtRest DEF DataNow
  <2> QED
    BY <1>1, <1>2, <2>1, SeenConvert
<1>4. CASE todo # <<>>
  BY <1>1, <1>2, <1>4 DEF Unseen, DataNow
<1> QED
  BY <1>3, <1>4

LEMMA CalibratedUnseen ==
  ASSUME TypeOK, Place, ~busFaults, Calibrated
  PROVE  Unseen
<1>1. chipMode \in {"OFFSET", "GAIN"} /\ UNCHANGED <<todo, chipEn, chipOdr>>
  BY DEF Calibrated
<1>2. todo # <<>>
  BY <1>1, AtRest
<1> QED
  BY <1>1, <1>2, RegistersKept DEF Unseen, DataNow

LEMMA DriverStep ==
  ASSUME TypeOK, MapMatchesChip, Place, Unread, [Next]_vars
  PROVE  busFaults \/ InputsStep \/ Unseen
<1> SUFFICES ASSUME ~busFaults PROVE InputsStep \/ Unseen
  OBVIOUS
<1>1. CASE Handler
  BY <1>1, RegisterUnseen, EnableSeen, BeginUnseen, WaitUnseen DEF Handler
<1>2. ASSUME NEW c \in Channels,
             \/ \E on \in BOOLEAN : EnableInput(c, on)
             \/ \E rate \in Rates : UpdateOdr(c, rate)
             \/ InitCalibration(c) \/ Convert(c)
      PROVE  InputsStep \/ Unseen
  BY <1>2, StatusSeen, OdrSeen, InitSeen, ConvertSeen
<1>3. CASE ReadData
  BY <1>3, ReadSeen
<1>4. CASE Dispatch \/ UNCHANGED vars
  <2>1. UNCHANGED <<todo, chipEn, chipOdr, chipOut>>
    BY <1>4 DEF Dispatch, vars, chipVars
  <2> QED
    BY <2>1, RegistersKept DEF Unseen, DataNow
<1>5. CASE Calibrated
  BY <1>5, CalibratedUnseen
<1> QED
  BY <1>1, <1>2, <1>3, <1>4, <1>5 DEF Next

(* Without bus faults every handler is one step of the inputs to whoever     *)
(* looks at them between the handlers: the calls of set_odr, of              *)
(* adc_internal_calibration and of the end of Channel::init, with the chip   *)
(* converting and calibrating between them and with polls that run out,      *)
(* leave every enable bit and every rate as AdcInputs has it at once.        *)
THEOREM DriverImplementsInputs == Spec => ImplementsInputs
<1>1. Init => Inputs!InputsInit
  <2> SUFFICES ASSUME Init PROVE Inputs!InputsInit
    OBVIOUS
  <2>1. TypeOK /\ todo = <<>>
    BY InitInv DEF Inv, Init
  <2>2. EnAtEnd = chipEn /\ OdrAtEnd = chipOdr /\ DataNow = chipOut
    BY <2>1, SeenAtRest
  <2> QED
    BY <2>2, SameChannels DEF Init, Inputs!InputsInit, DataNow
<1>2. Inv /\ Unread /\ [Next]_vars => Unread'
  BY UnreadStep DEF Inv
<1>3. Spec => []Unread
  BY <1>2, InitUnread, DriverInvariant, PTL DEF Spec
<1>4. Inv /\ Unread /\ [Next]_vars
        => [busFaults \/ Inputs!InputsNext(Rates, {0})]_(Inputs!inputVars)
  <2>1. ASSUME Unseen PROVE UNCHANGED Inputs!inputVars
    BY <2>1 DEF Unseen, DataNow, Inputs!inputVars
  <2> QED
    BY <2>1, DriverStep DEF Inv, InputsStep
<1> QED
  BY <1>1, <1>3, <1>4, DriverInvariant, PTL DEF Spec, ImplementsInputs
================================================================================

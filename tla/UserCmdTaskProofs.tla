-------------------------- MODULE UserCmdTaskProofs --------------------------
(* The parser for any lines, channels and numbers: its types, that a line    *)
(* does not mix with what earlier ones left in the record, and that it       *)
(* implements the source the firmware is composed with.  The step invariant  *)
(* is the type invariant with one addition: every word of the record is a    *)
(* number some line, or the memory before the first one, has put there.      *)
EXTENDS UserCmdTask, TLAPS

Records == [channel_id : Channels, mode : Mode, w0 : Numbers, w4 : Numbers,
            unit : TimeUnit, gain : Numbers, w12 : Numbers]

Inv == TypeOK /\ cmd \in Records

LEMMA NumbersAreInt == Numbers \subseteq Int
<1>1. ASSUME NEW l \in Lines PROVE Range(l.args) \subseteq Int
  <2>1. l.args \in Seq(Int)
    BY LinesAssumption
  <2> QED
    BY <2>1 DEF Range
<1> QED
  BY <1>1, ParserBounds DEF Numbers

LEMMA RecordsAreWords == Records \subseteq Words
  BY NumbersAreInt DEF Records, Words

LEMMA LineType ==
  ASSUME NEW l \in Lines
  PROVE  /\ l.ch \in Channels /\ l.kw \in Keywords /\ l.unit \in UnitTokens
         /\ l.args \in Seq(Int) /\ Len(l.args) \in Nat
         /\ \A k \in 1 .. Len(l.args) : l.args[k] \in Numbers
<1>1. l.args \in Seq(Int)
  BY LinesAssumption
<1>2. \A k \in 1 .. Len(l.args) : l.args[k] \in Range(l.args)
  BY <1>1 DEF Range
<1> QED
  BY <1>1, <1>2, LinesAssumption DEF Numbers

(* The arguments a line needs to be enqueued are numbers of a line.          *)
LEMMA EnoughArgs ==
  ASSUME NEW l \in Lines
  PROVE  /\ Len(l.args) >= 1 => l.args[1] \in Numbers
         /\ Len(l.args) >= 2 => l.args[2] \in Numbers
         /\ Len(l.args) >= 3 => l.args[3] \in Numbers
  BY LineType

LEMMA UnitType ==
  ASSUME NEW old \in TimeUnit, NEW token
  PROVE  UnitOf(old, token) \in TimeUnit
  BY DEF UnitOf, TimeUnit

(* A line leaves a record of the right type.                                 *)
LEMMA ParsedType ==
  ASSUME NEW old \in Records, NEW l \in Lines, NEW new \in Parsed(old, l)
  PROVE  new \in Records
<1> DEFINE w == IF l.kw = "blank" THEN old ELSE [old EXCEPT !.channel_id = l.ch]
<1>1. w \in Records /\ w.unit \in TimeUnit
  BY LineType DEF Records
<1>2. Mode = {"SWEEP", "STEADY", "IDLE", "CALIBRATION", "ODR"}
  BY DEF Mode
<1> HIDE DEF w
<1>3. CASE l.kw = "OFF"
  BY <1>1, <1>2, <1>3 DEF Parsed, w, Records
<1>4. CASE l.kw = "CALIBRATION"
  <2>1. CASE ~Enqueues(l)
    BY <1>1, <1>2, <1>4, <2>1 DEF Parsed, w, Records
  <2>2. CASE Enqueues(l)
    <3>1. PICK u \in TimeUnit :
            new = [w EXCEPT !.mode = "CALIBRATION", !.w4 = l.args[1], !.gain = l.args[2],
                            !.unit = u, !.w12 = l.args[3]]
      BY <1>4, <2>2 DEF Parsed, w
    <3>2. l.args[1] \in Numbers /\ l.args[2] \in Numbers /\ l.args[3] \in Numbers
      BY <1>4, <2>2, LineType, EnoughArgs DEF Enqueues
    <3> QED
      BY <1>1, <1>2, <3>1, <3>2 DEF Records
  <2> QED
    BY <2>1, <2>2
<1>5. CASE l.kw = "ODR"
  BY <1>1, <1>2, <1>5, EnoughArgs DEF Parsed, w, Records, Enqueues
<1>6. CASE l.kw = "STEADY"
  <2>1. CASE ~(Len(l.args) >= 2)
    BY <1>1, <1>6, <2>1 DEF Parsed, w
  <2>2. CASE Len(l.args) >= 2
    <3>1. PICK g \in GainAfter(w.gain, l.unit) :
            new = [w EXCEPT !.mode = "STEADY", !.w0 = l.args[1], !.w4 = l.args[2],
                            !.unit = UnitOf(w.unit, l.unit), !.gain = g]
      BY <1>6, <2>2 DEF Parsed, w
    <3>2. /\ l.args[1] \in Numbers /\ l.args[2] \in Numbers /\ g \in Numbers
          /\ UnitOf(w.unit, l.unit) \in TimeUnit
      BY <1>1, <2>2, EnoughArgs, UnitType DEF GainAfter, Numbers, Records
    <3> QED
      BY <1>1, <1>2, <3>1, <3>2 DEF Records
  <2> QED
    BY <2>1, <2>2
<1>7. CASE l.kw = "SWEEP"
  <2>1. CASE ~Enqueues(l)
    BY <1>1, <1>7, <2>1 DEF Parsed, w
  <2>2. CASE Enqueues(l)
    <3>1. new = [w EXCEPT !.mode = "SWEEP", !.w0 = l.args[1], !.w4 = l.args[2]]
      BY <1>7, <2>2 DEF Parsed, w
    <3>2. l.args[1] \in Numbers /\ l.args[2] \in Numbers
      BY <1>7, <2>2, LineType, EnoughArgs DEF Enqueues
    <3> QED
      BY <1>1, <1>2, <3>1, <3>2 DEF Records
  <2> QED
    BY <2>1, <2>2
<1>8. CASE l.kw \notin {"OFF", "CALIBRATION", "ODR", "STEADY", "SWEEP"}
  BY <1>1, <1>8 DEF Parsed, w
<1> QED
  BY <1>3, <1>4, <1>5, <1>6, <1>7, <1>8

(* What the coordinator sees of a record is a command.                       *)
LEMMA ViewType ==
  ASSUME NEW w \in Records
  PROVE  View(w) \in AnyCommand
  BY DEF View, Records, AnyCommand, Mode, OffCmd

LEMMA CommandsAreCommands == AnyCommand \subseteq UserCmd
  BY NumbersAreInt DEF AnyCommand, UserCmd, SteadyCmd, SweepCmd, CalCmd, OdrCmd, OffCmd

(* A send keeps the queue of commands one.                                   *)
LEMMA SendKeeps ==
  ASSUME CommsTypeOK, NEW c \in UserCmd,
         user_cmd_queue' = XQueueSend(user_cmd_queue, CmdDepth, c), UNCHANGED data_queue
  PROVE  CommsTypeOK'
  BY DepthAssumption DEF CommsTypeOK, XQueueSend

LEMMA NextChannel ==
  ASSUME NEW c \in Channels
  PROVE  /\ (c + 1) % NumChannels \in Channels
         /\ 0 \in Channels
  BY NumChannelsAssumption DEF Channels

-----------------------------------------------------------------------------
LEMMA InitInv == Init => Inv
<1> SUFFICES ASSUME Init PROVE Inv
  OBVIOUS
<1>1. Garbage \subseteq Numbers /\ 0 \in Channels
  BY NumChannelsAssumption DEF Numbers, Channels
<1>2. cmd \in Records
  BY <1>1 DEF Init, Records
<1>3. cmd \in Words
  BY <1>2, RecordsAreWords
<1>4. CommsTypeOK
  BY DepthAssumption DEF Init, CommsInit, CommsTypeOK
<1>5. buffer \in Lines \cup {<<>>}
  BY DEF Init
<1>6. cmdsLeft \in 0 .. MaxCmds
  BY ParserBounds DEF Init
<1>7. silent \in BOOLEAN /\ rested \in BOOLEAN /\ floodNext \in Channels
  BY <1>1 DEF Init
<1> QED
  BY <1>2, <1>3, <1>4, <1>5, <1>6, <1>7 DEF Inv, TypeOK

LEMMA ReadLineKeeps ==
  ASSUME Inv, NEW l \in Lines, ReadLine(l)
  PROVE  Inv' /\ View(cmd') \in AnyCommand
<1>1. cmd' \in Records
  BY ParsedType DEF ReadLine, Inv
<1>2. cmd' \in Words /\ View(cmd') \in AnyCommand
  BY <1>1, RecordsAreWords, ViewType
<1>3. CommsTypeOK'
  <2>1. CASE Enqueues(l)
    BY <1>2, <2>1, SendKeeps, CommandsAreCommands DEF ReadLine, Inv, TypeOK
  <2>2. CASE ~Enqueues(l)
    BY <2>2 DEF ReadLine, Inv, TypeOK, CommsTypeOK
  <2> QED
    BY <2>1, <2>2
<1>4. cmdsLeft' \in 0 .. MaxCmds
  BY ParserBounds DEF ReadLine, Inv, TypeOK
<1> QED
  BY <1>1, <1>2, <1>3, <1>4 DEF ReadLine, Inv, TypeOK

LEMMA FloodKeeps ==
  ASSUME Inv, Flood
  PROVE  Inv' /\ View(cmd') = [channel_id |-> floodNext, mode |-> "IDLE"]
<1>1. cmd' \in Records
  BY DEF Flood, Inv, TypeOK, Records, Mode
<1>2. cmd' \in Words
  BY <1>1, RecordsAreWords
<1>3. View(cmd') = [channel_id |-> floodNext, mode |-> "IDLE"]
  BY DEF Flood, Inv, Records, View
<1>4. CommsTypeOK'
  BY <1>1, ViewType, SendKeeps, CommandsAreCommands DEF Flood, Inv, TypeOK
<1>5. floodNext' \in Channels /\ rested' \in BOOLEAN
  BY NextChannel DEF Flood, Inv, TypeOK
<1> QED
  BY <1>1, <1>2, <1>3, <1>4, <1>5 DEF Flood, Inv, TypeOK

LEMMA TakenKeeps == ASSUME Inv, Taken PROVE Inv'
<1>1. user_cmd_queue \in Seq(UserCmd) /\ Len(user_cmd_queue) <= CmdDepth
  BY DEF Inv, TypeOK, CommsTypeOK
<1>2. user_cmd_queue' \in Seq(UserCmd) /\ Len(user_cmd_queue') <= CmdDepth
  <2>1. Len(Tail(user_cmd_queue)) = Len(user_cmd_queue) - 1
    BY <1>1 DEF Taken
  <2> QED
    BY <1>1, <2>1, DepthAssumption DEF Taken
<1>3. CommsTypeOK'
  BY <1>2 DEF Taken, Inv, TypeOK, CommsTypeOK
<1> QED
  BY <1>3 DEF Taken, Inv, TypeOK

LEMMA NextInv == Inv /\ [Next]_vars => Inv'
<1> SUFFICES ASSUME Inv, [Next]_vars PROVE Inv'
  OBVIOUS
<1>1. CASE FallSilent \/ EndDelay \/ UNCHANGED vars
  BY <1>1 DEF FallSilent, EndDelay, vars, commsVars, Inv, TypeOK, CommsTypeOK
<1> QED
  BY <1>1, ReadLineKeeps, FloodKeeps, TakenKeeps DEF Next

LEMMA InvAlways == Spec => []Inv
<1> QED
  BY InitInv, NextInv, PTL DEF Spec

(* The record, the queues and the flags of user_cmd_task keep their types,   *)
(* through lines cut short and rounds of OFF.                                *)
THEOREM ParserTypeCorrect == Spec => []TypeOK
<1>1. Inv => TypeOK
  BY DEF Inv
<1> QED
  BY InvAlways, <1>1, PTL

-----------------------------------------------------------------------------
(* What a well-formed line leaves in the record is seen as what it says.     *)
LEMMA ViewOfParsed ==
  ASSUME NEW old \in Records, NEW l \in Lines, WellFormed(l), NEW new \in Parsed(old, l)
  PROVE  View(new) = Requested(l)
<1> DEFINE w == [old EXCEPT !.channel_id = l.ch]
<1>1. /\ w \in Records /\ w.channel_id = l.ch
      /\ l.kw \in {"OFF", "CALIBRATION", "ODR", "STEADY", "SWEEP"} /\ l.kw # "blank"
  BY LineType DEF Records, WellFormed, Keywords
<1>2. Enqueues(l)
  BY DEF WellFormed
<1> HIDE DEF w
<1>3. CASE l.kw = "OFF"
  BY <1>1, <1>3 DEF Parsed, View, Requested, Records, w
<1>4. CASE l.kw = "CALIBRATION"
  <2>1. PICK u \in TimeUnit :
          new = [w EXCEPT !.mode = "CALIBRATION", !.w4 = l.args[1], !.gain = l.args[2],
                          !.unit = u, !.w12 = l.args[3]]
    BY <1>2, <1>4 DEF Parsed, w
  <2> QED
    BY <1>1, <1>4, <2>1 DEF View, Requested, Records
<1>5. CASE l.kw = "ODR"
  BY <1>1, <1>2, <1>5 DEF Parsed, View, Requested, Records, w
<1>6. CASE l.kw = "STEADY"
  <2>1. PICK g \in GainAfter(w.gain, l.unit) :
          new = [w EXCEPT !.mode = "STEADY", !.w0 = l.args[1], !.w4 = l.args[2],
                          !.unit = UnitOf(w.unit, l.unit), !.gain = g]
    BY <1>2, <1>6 DEF Parsed, w, Enqueues
  <2>2. l.unit \in {"Min", "Hour", "Day", "Month"}
    BY <1>2, <1>6, LineType DEF WellFormed, Enqueues, UnitTokens
  <2>3. UnitOf(w.unit, l.unit) = UnitOf("INF", l.unit)
    BY <2>2 DEF UnitOf
  <2> QED
    BY <1>1, <1>6, <2>1, <2>3 DEF View, Requested, Records
<1>7. CASE l.kw = "SWEEP"
  BY <1>1, <1>2, <1>7 DEF Parsed, View, Requested, Records, w
<1> QED
  BY <1>1, <1>3, <1>4, <1>5, <1>6, <1>7

LEMMA SendLast ==
  ASSUME NEW S, NEW q \in Seq(S), NEW depth \in Nat, NEW x \in S,
         Len(XQueueSend(q, depth, x)) > Len(q)
  PROVE  Last(XQueueSend(q, depth, x)) = x
  BY DEF XQueueSend, Last

(* A well-formed line is enqueued by user_cmd_task as what it says, whatever *)
(* lines and OFF rounds have left in the record and the bytes of its union.  *)
THEOREM LinesAreUnmixed == Spec => WellFormedUnmixed
<1> DEFINE Step == \A l \in Lines : Lengthens(ReadLine(l)) /\ WellFormed(l) =>
                     Last(user_cmd_queue') = Requested(l)
<1>1. Inv /\ [Next]_vars => [Step]_vars
  <2> SUFFICES ASSUME Inv, NEW l \in Lines, ReadLine(l), WellFormed(l),
                      Len(user_cmd_queue') > Len(user_cmd_queue)
               PROVE  Last(user_cmd_queue') = Requested(l)
    BY DEF Lengthens
  <2>1. View(cmd') \in UserCmd /\ View(cmd') = Requested(l)
    BY ReadLineKeeps, CommandsAreCommands, ViewOfParsed DEF ReadLine, Inv
  <2>2. user_cmd_queue' = XQueueSend(user_cmd_queue, CmdDepth, View(cmd'))
    BY DEF ReadLine, WellFormed
  <2>3. user_cmd_queue \in Seq(UserCmd) /\ CmdDepth \in Nat
    BY DepthAssumption DEF Inv, TypeOK, CommsTypeOK
  <2> QED
    BY <2>1, <2>2, <2>3, SendLast
<1> HIDE DEF Step
<1>2. Spec => [][Step]_vars
  BY InvAlways, <1>1, PTL DEF Spec
<1> QED
  BY <1>2 DEF WellFormedUnmixed, Step

-----------------------------------------------------------------------------
(* A line is an offer or a sign of life, a pass of the loop without one an   *)
(* OFF of a round; the record is the parser's own.                           *)
LEMMA SourceStep ==
  Inv /\ [Next]_vars => [Source!SourceNext]_(Source!sourceAll)
<1> SUFFICES ASSUME Inv, [Next]_vars
             PROVE  [Source!SourceNext]_(Source!sourceAll)
  OBVIOUS
<1> USE DEF Source!SourceNext, Source!sourceAll, Source!sourceVars, Source!commsVars, commsVars
<1>1. ASSUME NEW l \in Lines, ReadLine(l), Enqueues(l)
      PROVE  (\E c \in AnyCommand : Source!Offer(c)) /\ UNCHANGED data_queue
  <2>1. View(cmd') \in AnyCommand
    BY <1>1, ReadLineKeeps
  <2>2. Source!Offer(View(cmd'))
    BY <1>1 DEF ReadLine, Source!Offer, XQueueSend, Source!XQueueSend
  <2> QED
    BY <1>1, <2>1, <2>2 DEF ReadLine
<1>2. ASSUME NEW l \in Lines, ReadLine(l), ~Enqueues(l)
      PROVE  Source!KeepAlive /\ UNCHANGED commsVars
  BY <1>2 DEF ReadLine, Source!KeepAlive
<1>3. CASE FallSilent
  BY <1>3 DEF FallSilent, Source!GoSilent
<1>4. CASE Flood
  BY <1>4, FloodKeeps DEF Flood, Source!SendOff, XQueueSend, Source!XQueueSend
<1>5. CASE EndDelay
  BY <1>5 DEF EndDelay, Source!SourceTick
<1>6. CASE Taken
  BY <1>6 DEF Taken
<1>7. CASE UNCHANGED vars
  BY <1>7 DEF vars
<1> QED
  BY <1>1, <1>2, <1>3, <1>4, <1>5, <1>6, <1>7 DEF Next

(* user_cmd_task implements the abstract source with which the firmware is   *)
(* composed: the firmware theorems hold of it for any lines.                 *)
THEOREM ParserIsSource == Spec => ImplementsSource
<1>1. Init => Source!SourceInit /\ Source!CommsInit
  BY DEF Init, CommsInit, Source!SourceInit, Source!CommsInit
<1> QED
  BY InvAlways, <1>1, SourceStep, PTL DEF Spec, ImplementsSource, Source!SourceSpec
=============================================================================

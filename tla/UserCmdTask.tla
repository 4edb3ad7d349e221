----------------------------- MODULE UserCmdTask -----------------------------
(* user_cmd_task (task_comms.cpp): reads lines, fills its one UserCmd record *)
(* and enqueues it.  The record is a local variable that is never reset: it  *)
(* is uninitialised at first and keeps what earlier lines, complete or not,  *)
(* and earlier OFF rounds left in it.                                        *)
EXTENDS TaskComms, SequencesExt

CONSTANTS
  Lines,      \* the lines the host may send
  Garbage,    \* numbers a word may hold that no line has written whole
  MaxCmds     \* bound on the commands enqueued from lines

(* A line, split at the commas: channel, keyword, numeric arguments, time    *)
(* unit.  "blank" has no channel, "none" no keyword; strtok_r can only run   *)
(* out of tokens at the end of a line.                                       *)
Keywords == {"blank", "none", "OFF", "CALIBRATION", "ODR", "STEADY", "SWEEP", "other"}
UnitTokens == {"Min", "Hour", "Day", "Month", "none", "other"}

ASSUME LinesAssumption ==
  Lines \subseteq [ch : Channels, kw : Keywords, args : Seq(Int), unit : UnitTokens]
ASSUME ParserBounds == MaxCmds \in Nat /\ Garbage \subseteq Int

VARIABLES
  cmd,         \* the local UserCmd
  buffer,      \* the line read last
  silent, floodNext, rested, cmdsLeft    \* as in CommandSource

vars == <<cmd, buffer, silent, floodNext, rested, cmdsLeft, commsVars>>

(* The union `param` word by word; floats at offset 0 are in thousandths.    *)
(*   w0: Steady.voltage, Sweep.range_in_V, odr_setting                       *)
(*   w4: Steady.duration, Sweep.step_size, Cal.R_1k                          *)
(*   unit, gain: Steady.time_unit is the low byte of the word of Cal.R_gain  *)
(*   w12: Cal.dac_vref                                                       *)
Words == [channel_id : Channels, mode : Mode, w0 : Int, w4 : Int,
          unit : TimeUnit, gain : Int, w12 : Int]

TypeOK ==
  /\ CommsTypeOK
  /\ cmd \in Words
  /\ buffer \in Lines \cup {<<>>}
  /\ silent \in BOOLEAN /\ rested \in BOOLEAN
  /\ floodNext \in Channels
  /\ cmdsLeft \in 0 .. MaxCmds

(* The command a reader of the record sees: the member its mode selects.     *)
View(w) ==
  CASE w.mode = "IDLE" -> [channel_id |-> w.channel_id, mode |-> "IDLE"]
    [] w.mode = "STEADY" ->
         [channel_id |-> w.channel_id, mode |-> "STEADY", voltage |-> w.w0,
          duration |-> w.w4, time_unit |-> w.unit]
    [] w.mode = "SWEEP" ->
         [channel_id |-> w.channel_id, mode |-> "SWEEP", range |-> w.w0,
          step_size |-> w.w4]
    [] w.mode = "ODR" ->
         [channel_id |-> w.channel_id, mode |-> "ODR", odr_setting |-> w.w0]
    [] w.mode = "CALIBRATION" ->
         [channel_id |-> w.channel_id, mode |-> "CALIBRATION", R_1k |-> w.w4,
          R_gain |-> w.gain, dac_vref |-> w.w12]

-----------------------------------------------------------------------------
(* Parsing one line: Parsed(w, l) holds the record before the line, and      *)
(* yields the records it may become and whether the line is enqueued.        *)
(* Mutant of UnitOf: "Day" is missing from the chain of comparisons.         *)
UnitOfNoDay(old, token) ==
  CASE token = "Min" -> "MIN" [] token = "Hour" -> "HOUR"
    [] token = "Month" -> "MONTH"
    [] OTHER -> old

(* Mutant of UnitOf: the token itself is stored.                             *)
UnitOfRaw(old, token) == token

UnitOf(old, token) ==
  CASE token = "Min" -> "MIN" [] token = "Hour" -> "HOUR"
    [] token = "Day" -> "DAY" [] token = "Month" -> "MONTH"
    [] OTHER -> old

(* The unit of a STEADY run goes to the low byte of R_gain, which changes    *)
(* that number a little unless the byte was there before.                    *)
GainAfter(old, token) ==
  {old} \cup (IF token \in {"Min", "Hour", "Day", "Month"} THEN Garbage ELSE {})

Enqueues(l) ==
  /\ l.kw \notin {"blank", "none"}
  /\ l.kw = "CALIBRATION" => Len(l.args) >= 3
  /\ l.kw = "ODR" => Len(l.args) >= 1
  /\ l.kw = "STEADY" => Len(l.args) >= 2 /\ l.unit # "none"
  /\ l.kw = "SWEEP" => Len(l.args) >= 2

(* CALIBRATION and ODR store the mode before they look for their arguments,  *)
(* STEADY everything but the unit before it looks for the unit.              *)
Parsed(old, l) ==
  LET w == IF l.kw = "blank" THEN old ELSE [old EXCEPT !.channel_id = l.ch]
  IN CASE l.kw = "OFF" -> {[w EXCEPT !.mode = "IDLE"]}
       [] l.kw = "CALIBRATION" /\ ~Enqueues(l) -> {[w EXCEPT !.mode = "CALIBRATION"]}
       [] l.kw = "CALIBRATION" /\ Enqueues(l) ->
            {[w EXCEPT !.mode = "CALIBRATION", !.w4 = l.args[1], !.gain = l.args[2],
                       !.unit = u, !.w12 = l.args[3]] : u \in TimeUnit}
       [] l.kw = "ODR" /\ ~Enqueues(l) -> {[w EXCEPT !.mode = "ODR"]}
       [] l.kw = "ODR" /\ Enqueues(l) -> {[w EXCEPT !.mode = "ODR", !.w0 = l.args[1]]}
       [] l.kw = "STEADY" /\ Len(l.args) >= 2 ->
            {[w EXCEPT !.mode = "STEADY", !.w0 = l.args[1], !.w4 = l.args[2],
                       !.unit = UnitOf(w.unit, l.unit), !.gain = g] :
               g \in GainAfter(w.gain, l.unit)}
       [] l.kw = "SWEEP" /\ Enqueues(l) ->
            {[w EXCEPT !.mode = "SWEEP", !.w0 = l.args[1], !.w4 = l.args[2]]}
       [] OTHER -> {w}

-----------------------------------------------------------------------------
Init ==
  /\ CommsInit
  /\ cmd \in [channel_id : {0}, mode : Mode, w0 : Garbage, w4 : Garbage,
              unit : TimeUnit, gain : Garbage, w12 : Garbage]
  /\ buffer = <<>>
  /\ silent = FALSE
  /\ floodNext = 0
  /\ rested = TRUE
  /\ cmdsLeft = MaxCmds

(* fgets returns a line.                                                     *)
ReadLine(l) ==
  /\ floodNext = 0
  /\ rested
  /\ buffer' = l
  /\ silent' = FALSE
  /\ cmd' \in Parsed(cmd, l)
  /\ IF Enqueues(l)
     THEN /\ cmdsLeft > 0
          /\ cmdsLeft' = cmdsLeft - 1
          /\ user_cmd_queue' = XQueueSend(user_cmd_queue, CmdDepth, View(cmd'))
     ELSE UNCHANGED <<cmdsLeft, user_cmd_queue>>
  /\ UNCHANGED <<floodNext, rested, data_queue>>

(* 2.5 s without a line.                                                     *)
FallSilent ==
  /\ ~silent
  /\ floodNext = 0
  /\ silent' = TRUE
  /\ UNCHANGED <<cmd, buffer, floodNext, rested, cmdsLeft, commsVars>>

(* Mutant of Flood: no delay between two rounds.                             *)
FloodNoDelay ==
  /\ silent
  /\ rested
  /\ cmd' = [cmd EXCEPT !.channel_id = floodNext, !.mode = "IDLE"]
  /\ user_cmd_queue' = XQueueSend(user_cmd_queue, CmdDepth, View(cmd'))
  /\ floodNext' = (floodNext + 1) % NumChannels
  /\ UNCHANGED <<rested, buffer, silent, cmdsLeft, data_queue>>

(* fgets returns nothing and the host is silent: the record itself is made   *)
(* an OFF for one channel after the other.                                   *)
Flood ==
  /\ silent
  /\ rested
  /\ cmd' = [cmd EXCEPT !.channel_id = floodNext, !.mode = "IDLE"]
  /\ user_cmd_queue' = XQueueSend(user_cmd_queue, CmdDepth, View(cmd'))
  /\ floodNext' = (floodNext + 1) % NumChannels
  /\ rested' = (floodNext + 1 < NumChannels)
  /\ UNCHANGED <<buffer, silent, cmdsLeft, data_queue>>

(* vTaskDelay(pdMS_TO_TICKS(20)) after a round.                              *)
EndDelay ==
  /\ ~rested
  /\ rested' = TRUE
  /\ UNCHANGED <<cmd, buffer, silent, floodNext, cmdsLeft, commsVars>>

(* The coordinator takes a command.                                          *)
Taken ==
  /\ user_cmd_queue # <<>>
  /\ user_cmd_queue' = Tail(user_cmd_queue)
  /\ UNCHANGED <<cmd, buffer, silent, floodNext, rested, cmdsLeft, data_queue>>

Next ==
  \/ \E l \in Lines : ReadLine(l)
  \/ FallSilent \/ Flood \/ EndDelay \/ Taken

Spec == Init /\ [][Next]_vars

-----------------------------------------------------------------------------
(* The formats user_cmd_task documents, and the two it does not.             *)
WellFormed(l) ==
  /\ l.kw \notin {"blank", "none", "other"}
  /\ Enqueues(l)
  /\ l.kw = "STEADY" => l.unit # "other"

(* What a well-formed line asks for.                                         *)
Requested(l) ==
  CASE l.kw = "OFF" -> [channel_id |-> l.ch, mode |-> "IDLE"]
    [] l.kw = "STEADY" ->
         [channel_id |-> l.ch, mode |-> "STEADY", voltage |-> l.args[1],
          duration |-> l.args[2], time_unit |-> UnitOf("INF", l.unit)]
    [] l.kw = "SWEEP" ->
         [channel_id |-> l.ch, mode |-> "SWEEP", range |-> l.args[1],
          step_size |-> l.args[2]]
    [] l.kw = "ODR" ->
         [channel_id |-> l.ch, mode |-> "ODR", odr_setting |-> l.args[1]]
    [] l.kw = "CALIBRATION" ->
         [channel_id |-> l.ch, mode |-> "CALIBRATION", R_1k |-> l.args[1],
          R_gain |-> l.args[2], dac_vref |-> l.args[3]]

(* A step that reads a line and lengthens the queue.                         *)
Lengthens(step) == step /\ Len(user_cmd_queue') > Len(user_cmd_queue)

(* A well-formed line is enqueued as what it says, whatever earlier lines,   *)
(* complete or not, and OFF rounds left in the record and its union.         *)
WellFormedUnmixed ==
  [][\A l \in Lines : Lengthens(ReadLine(l)) /\ WellFormed(l) =>
       Last(user_cmd_queue') = Requested(l)]_vars

(* "Malformed lines are dropped silently." (task_comms.hpp:121)              *)
MalformedDropped ==
  [][\A l \in Lines : ReadLine(l) /\ ~WellFormed(l) =>
       user_cmd_queue' = user_cmd_queue]_vars

(* The parser implements the source the firmware is composed with, which     *)
(* offers every command of the right type.                                   *)
Numbers == Garbage \cup UNION {Range(l.args) : l \in Lines}

AnyCommand ==
  [channel_id : Channels, mode : {"STEADY"}, voltage : Numbers, duration : Numbers,
   time_unit : TimeUnit]
  \cup [channel_id : Channels, mode : {"SWEEP"}, range : Numbers, step_size : Numbers]
  \cup [channel_id : Channels, mode : {"CALIBRATION"}, R_1k : Numbers,
        R_gain : Numbers, dac_vref : Numbers]
  \cup [channel_id : Channels, mode : {"ODR"}, odr_setting : Numbers]
  \cup OffCmd

Source == INSTANCE CommandSource WITH Commands <- AnyCommand

ImplementsSource == Source!SourceSpec
=============================================================================

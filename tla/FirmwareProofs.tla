---------------------------- MODULE FirmwareProofs ----------------------------
(* Proofs about Firmware for every number of channels, depth of the queues,  *)
(* set of commands and bound.                                                *)
EXTENDS Firmware, TLAPS

-----------------------------------------------------------------------------
(* voltage_to_bin, for every voltage and every reference.                    *)

(* A quotient with its remainder is the integer quotient.                    *)
LEMMA DivUnique ==
  ASSUME NEW q \in Int, NEW d \in Nat \ {0}, NEW r \in 0 .. d - 1
  PROVE  (q * d + r) \div d = q
  <1> DEFINE n == q * d + r
             k == n \div d
  <1>1. n \in Int /\ k \in Int
    OBVIOUS
  <1>2. k * d <= n /\ n < (k + 1) * d
    BY <1>1
  <1>3. (k - q) * d < d /\ (q - k) * d < d
    BY <1>1, <1>2
  <1>4. QED
    BY <1>1, <1>3

LEMMA LowWord ==
  ASSUME NEW n \in Int
  PROVE  n % 65536 \in DacCodes
  BY DEF DacCodes

LEMMA CodeType ==
  ASSUME NEW q \in Int, 0 <= q, q <= 65535
  PROVE  q \in DacCodes
  <1>1. q % 65536 = q
    OBVIOUS
  <1>2. q % 65536 \in DacCodes
    BY LowWord
  <1> QED
    BY <1>1, <1>2

(* Every conversion yields a 16-bit code, in range or not.                   *)
LEMMA VoltageToBinIsCode ==
  ASSUME NEW v \in Int, NEW vref \in Nat \ {0}
  PROVE  VoltageToBin(v, vref) \subseteq DacCodes
  <1> DEFINE num == (v + 2 * vref) * 65535
             den == 4 * vref
  <1>1. num \in Int /\ -num \in Int /\ den \in Nat \ {0}
    OBVIOUS
  <1>2. num \div den \in Int /\ (-num) \div den \in Int
    BY <1>1
  <1>3. RawCode(v, vref) \in Int
    BY <1>2 DEF RawCode
  <1>4. RawCode(v, vref) % 65536 \in DacCodes
    BY <1>3, LowWord
  <1>5. 0 \in DacCodes
    BY DEF DacCodes
  <1>6. QED
    BY <1>4, <1>5 DEF VoltageToBin

(* A voltage the range reaches has one code, the truncated quotient: the     *)
(* conversion does not wrap.                                                 *)
Reachable(v, vref) == -2 * vref <= v /\ v <= 2 * vref

Quotient(v, vref) == ((v + 2 * vref) * 65535) \div (4 * vref)

LEMMA QuotientOf ==
  ASSUME NEW vref \in Nat \ {0}, NEW v \in Int, Reachable(v, vref)
  PROVE  \E n \in Int, d \in Nat \ {0}, q \in Int :
           /\ n = (v + 2 * vref) * 65535 /\ d = 4 * vref /\ q = Quotient(v, vref)
           /\ 0 <= n /\ n <= 65535 * d /\ q * d <= n /\ n < q * d + d
  <1> DEFINE n == (v + 2 * vref) * 65535
             d == 4 * vref
  <1>1. d \in Nat \ {0} /\ n \in Int /\ 0 <= n /\ n <= 65535 * d
    BY DEF Reachable
  <1>2. Quotient(v, vref) = n \div d
    BY DEF Quotient
  <1>3. n = (v + 2 * vref) * 65535 /\ d = 4 * vref
    OBVIOUS
  <1> HIDE DEF n, d
  <1>4. n \div d \in Int /\ (n \div d) * d <= n /\ n < (n \div d) * d + d
    BY <1>1
  <1> QED
    BY <1>1, <1>2, <1>3, <1>4

LEMMA CodeOfReachable ==
  ASSUME NEW vref \in Nat \ {0}, NEW v \in Int, Reachable(v, vref)
  PROVE  Quotient(v, vref) \in DacCodes /\ VoltageToBin(v, vref) = {Quotient(v, vref)}
  <1>1. PICK n \in Int, d \in Nat \ {0}, q \in Int :
          /\ n = (v + 2 * vref) * 65535 /\ d = 4 * vref /\ q = Quotient(v, vref)
          /\ 0 <= n /\ n <= 65535 * d /\ q * d <= n /\ n < q * d + d
    BY QuotientOf
  <1>2. RawCode(v, vref) = q
    BY <1>1 DEF RawCode, Quotient
  <1>3. ~(q < 0)
    <2>1. SUFFICES ASSUME q < 0 PROVE FALSE
      OBVIOUS
    <2>2. (q + 1) * d <= 0 /\ (q + 1) * d = q * d + d
      BY <1>1, <2>1
    <2> QED
      BY <1>1, <2>2
  <1>4. ~(q > 65535)
    <2>1. SUFFICES ASSUME q > 65535 PROVE FALSE
      OBVIOUS
    <2>2. q * d >= 65536 * d
      BY <1>1, <2>1
    <2> QED
      BY <1>1, <2>2
  <1>5. q \in DacCodes
    BY <1>1, <1>3, <1>4, CodeType
  <1> QED
    BY <1>1, <1>2, <1>5 DEF VoltageToBin

(* In the range of the reference voltage_to_bin neither wraps nor turns two  *)
(* voltages around: a higher voltage never gets a lower code.                *)
THEOREM CodesRise ==
  ASSUME NEW vref \in Nat \ {0},
         NEW u \in Int, NEW v \in Int, -2 * vref <= u, u <= v, v <= 2 * vref
  PROVE  \E p, q \in DacCodes :
           VoltageToBin(u, vref) = {p} /\ VoltageToBin(v, vref) = {q} /\ p <= q
  <1>1. Reachable(u, vref) /\ Reachable(v, vref)
    BY DEF Reachable
  <1>2. PICK m \in Int, d \in Nat \ {0}, p \in Int :
          /\ m = (u + 2 * vref) * 65535 /\ d = 4 * vref /\ p = Quotient(u, vref)
          /\ 0 <= m /\ m <= 65535 * d /\ p * d <= m /\ m < p * d + d
    BY <1>1, QuotientOf
  <1>3. PICK n \in Int, e \in Nat \ {0}, q \in Int :
          /\ n = (v + 2 * vref) * 65535 /\ e = 4 * vref /\ q = Quotient(v, vref)
          /\ 0 <= n /\ n <= 65535 * e /\ q * e <= n /\ n < q * e + e
    BY <1>1, QuotientOf
  <1>4. m <= n /\ p * d <= m /\ n < q * d + d
    BY <1>2, <1>3
  <1>5. ~(p > q)
    <2>1. SUFFICES ASSUME p > q PROVE FALSE
      OBVIOUS
    <2>2. p * d >= (q + 1) * d /\ (q + 1) * d = q * d + d
      BY <2>1
    <2> QED
      BY <1>4, <2>2
  <1>6. /\ p \in DacCodes /\ VoltageToBin(u, vref) = {p}
        /\ q \in DacCodes /\ VoltageToBin(v, vref) = {q}
    BY <1>1, <1>2, <1>3, CodeOfReachable
  <1> QED
    BY <1>5, <1>6

(* 0 V is the same code, and never out of range, for every reference.        *)
THEOREM ZeroVolts ==
  ASSUME NEW vref \in Nat \ {0}
  PROVE  VoltageToBin(0, vref) = {ZeroCode}
  <1> DEFINE d == 4 * vref
             r == 2 * vref
  <1>1. d \in Nat \ {0} /\ r \in 0 .. d - 1 /\ ZeroCode \in Int
    BY DEF ZeroCode
  <1>2. (0 + 2 * vref) * 65535 = ZeroCode * d + r
    BY DEF ZeroCode
  <1>3. (ZeroCode * d + r) \div d = ZeroCode
    BY <1>1, DivUnique
  <1>4. RawCode(0, vref) = ZeroCode
    BY <1>1, <1>2, <1>3 DEF RawCode, ZeroCode
  <1>5. QED
    BY <1>4 DEF VoltageToBin, DacCodes, ZeroCode

-----------------------------------------------------------------------------
(* The parts of the ADC inputs stand for their definitions throughout.       *)
USE DEF InputsTypeOK, SetChannelStatus, ChangeOdr, CalibrateAndDisable, Converts

(* Types of the helpers.                                                     *)

LEMMA InputsAfterType ==
  ASSUME ChannelTypeOK, NEW c \in Channels, NEW on \in BOOLEAN
  PROVE  InputsAfter(c, on) \subseteq [Channels -> BOOLEAN]
  BY DEF InputsAfter, ChannelTypeOK

(* A send keeps the type and the bound of a queue.                           *)
LEMMA SendType ==
  ASSUME NEW S, NEW q \in Seq(S), NEW depth \in Nat, Len(q) <= depth, NEW x \in S
  PROVE  /\ XQueueSend(q, depth, x) \in Seq(S)
         /\ Len(XQueueSend(q, depth, x)) <= depth
  BY DEF XQueueSend

(* A receive keeps them too.                                                 *)
LEMMA ReceiveType ==
  ASSUME NEW S, NEW q \in Seq(S), NEW depth \in Nat, Len(q) <= depth, q # <<>>
  PROVE  Head(q) \in S /\ Tail(q) \in Seq(S) /\ Len(Tail(q)) <= depth
  OBVIOUS

LEMMA ModType ==
  ASSUME NEW n \in Int, NEW d \in Nat \ {0}
  PROVE  n % d \in 0 .. d - 1
  OBVIOUS

LEMMA NextIdx ==
  ASSUME NEW i \in Channels, i + 1 < NumChannels
  PROVE  i + 1 \in Channels
  BY NumChannelsAssumption DEF Channels

LEMMA DataQueueType ==
  ASSUME CommsTypeOK, NEW rec \in DataLog, SendRecord(rec)
  PROVE  data_queue' \in Seq(DataLog) /\ Len(data_queue') <= LogDepth
  BY SendType, DepthAssumption DEF SendRecord, CommsTypeOK

LEMMA DacAfterType ==
  ASSUME ChannelTypeOK, NEW c \in Channels, NEW held \in SUBSET DacCodes, NEW v \in Int
  PROVE  DacAfter(c, held, v) \subseteq DacCodes
  <1>1. cal[c].dac_vref \in Nat \ {0}
    BY DEF ChannelTypeOK, Calibration
  <1>2. QED
    BY <1>1, VoltageToBinIsCode DEF DacAfter

LEMMA DacSetType ==
  ASSUME ChannelTypeOK, NEW c \in Channels, NEW codes \in SUBSET DacCodes,
         DacSet(c, codes)
  PROVE  dac' \in [Channels -> DacCodes]
  BY DEF DacSet, ChannelTypeOK

LEMMA StopType ==
  ASSUME ChannelTypeOK, CommsTypeOK, NEW c \in Channels,
         NEW held \in SUBSET DacCodes, Stop(c, held)
  PROVE  /\ mode' \in [Channels -> RunModes \cup {"IDLE"}]
         /\ dac' \in [Channels -> DacCodes]
         /\ adcEn' \in [Channels -> BOOLEAN]
         /\ data_queue' \in Seq(DataLog)
         /\ Len(data_queue') <= LogDepth
  <1>1. dac' \in [Channels -> DacCodes]
    BY DacAfterType, DacSetType DEF Stop
  <1>2. [channel_id |-> c, mode |-> "IDLE", voltage |-> 0, current |-> 0] \in DataLog
    BY DEF DataLog, Mode
  <1>3. data_queue' \in Seq(DataLog) /\ Len(data_queue') <= LogDepth
    BY <1>2, DataQueueType DEF Stop
  <1>4. QED
    BY <1>1, <1>3 DEF Stop, ChannelTypeOK

-----------------------------------------------------------------------------
(* Types of the handlers.  HandlerType is what a step of the coordinator     *)
(* leaves behind in the state of the channels and in data_queue.             *)
HandlerType ==
  /\ ChannelTypeOK'
  /\ data_queue' \in Seq(DataLog)
  /\ Len(data_queue') <= LogDepth

LEMMA CmdByMode ==
  ASSUME NEW cmd \in UserCmd
  PROVE  /\ cmd.channel_id \in Channels
         /\ cmd.mode = "STEADY" => cmd \in SteadyCmd
         /\ cmd.mode = "SWEEP" => cmd \in SweepCmd
         /\ cmd.mode = "CALIBRATION" => cmd \in CalCmd
         /\ cmd.mode = "ODR" => cmd \in OdrCmd
  BY DEF UserCmd, SteadyCmd, SweepCmd, CalCmd, OdrCmd, OffCmd

LEMMA UpdateIdleType ==
  ASSUME ChannelTypeOK, CommsTypeOK, NEW c \in Channels, UpdateIdle(c)
  PROVE  HandlerType
  <1>1. {dac[c]} \in SUBSET DacCodes
    BY DEF ChannelTypeOK
  <1>2. CASE Stop(c, {dac[c]})
    BY <1>1, <1>2, StopType DEF UpdateIdle, HandlerType, ChannelTypeOK
  <1>3. CASE UNCHANGED <<dac, mode, data_queue, adcEn>>
    BY <1>3 DEF UpdateIdle, HandlerType, ChannelTypeOK, CommsTypeOK
  <1>4. QED
    BY <1>2, <1>3 DEF UpdateIdle

LEMMA AcceptedIsCalibration ==
  ASSUME NEW cmd \in CalCmd, CalAccepted(cmd)
  PROVE  CalOf(cmd) \in Calibration /\ InTolerance(CalOf(cmd))
  BY DEF CalCmd, CalAccepted, CalOf, Calibration, InTolerance, WithinPercent, CalDefault

LEMMA UpdateCalibrationType ==
  ASSUME ChannelTypeOK, CommsTypeOK, NEW c \in Channels, NEW cmd \in CalCmd,
         UpdateCalibration(c, cmd)
  PROVE  HandlerType
  <1>1. CASE CalAccepted(cmd)
    <2>1. CalOf(cmd) \in Calibration
      BY <1>1, AcceptedIsCalibration
    <2>2. cal' \in [Channels -> Calibration]
      BY <1>1, <2>1 DEF UpdateCalibration, ChannelTypeOK
    <2>3. nvs' \in [Channels -> Calibration \cup {NoRecord}]
      BY <1>1, <2>1 DEF UpdateCalibration, ChannelTypeOK
    <2>4. QED
      BY <2>2, <2>3 DEF UpdateCalibration, HandlerType, ChannelTypeOK, CommsTypeOK
  <1>2. CASE ~CalAccepted(cmd)
    BY <1>2 DEF UpdateCalibration, HandlerType, ChannelTypeOK, CommsTypeOK
  <1>3. QED
    BY <1>1, <1>2

LEMMA UpdateOdrType ==
  ASSUME ChannelTypeOK, CommsTypeOK, NEW c \in Channels, NEW cmd \in OdrCmd,
         UpdateOdr(c, cmd)
  PROVE  HandlerType
  <1>1. filterOdr' \in [Channels -> OdrLut]
    BY DEF UpdateOdr, FilterAfter, ChannelTypeOK, OdrLut, OdrDefault
  <1>2. adcEn' \in [Channels -> BOOLEAN]
    BY InputsAfterType DEF UpdateOdr, AdcInternalCalibration
  <1>3. adcData' \in Sample \cup {NoData}
    <2>1. [ch_num |-> c, code |-> dac[c]] \in Sample
      BY DEF ChannelTypeOK, Sample
    <2>2. adcData \in Sample \cup {NoData}
      BY DEF ChannelTypeOK
    <2> QED
      BY <2>1, <2>2 DEF UpdateOdr, AdcInternalCalibration
  <1>4. QED
    BY <1>1, <1>2, <1>3 DEF UpdateOdr, HandlerType, ChannelTypeOK, CommsTypeOK

LEMMA UpdateSweepType ==
  ASSUME ChannelTypeOK, CommsTypeOK, NEW c \in Channels, NEW cmd \in SweepCmd,
         UpdateSweep(c, cmd)
  PROVE  HandlerType
  <1>1. SetSweepConfig(cmd) \in SweepParams
    BY DEF SetSweepConfig, SweepCmd, SweepParams
  <1>2. sweep' \in [Channels -> SweepParams]
    BY <1>1 DEF UpdateSweep, ChannelTypeOK
  <1>3. mode' \in [Channels -> RunModes \cup {"IDLE"}]
    BY DEF UpdateSweep, ChannelTypeOK, RunModes
  <1>4. QED
    BY <1>2, <1>3 DEF UpdateSweep, HandlerType, ChannelTypeOK, CommsTypeOK

LEMMA UpdateSteadyType ==
  ASSUME ChannelTypeOK, CommsTypeOK, NEW c \in Channels, NEW cmd \in SteadyCmd,
         UpdateSteady(c, cmd)
  PROVE  HandlerType
  <1>1. steady[c] \in SteadyParams /\ cmd.voltage \in Int /\ cmd.duration \in Int
    BY DEF ChannelTypeOK, SteadyCmd
  <1>2. cmd.time_unit # "INF" => cmd.duration * UnitTicks[cmd.time_unit] \in Int
    BY <1>1, UnitTicksAssumption DEF SteadyCmd, TimeUnit
  <1>3. TimeToUs(steady[c], cmd) \in SteadyParams
    BY <1>1, <1>2 DEF TimeToUs, SteadyParams
  <1>4. SteadyConfig(steady[c], cmd) \in SteadyParams
    BY <1>1, <1>3 DEF SteadyConfig, SteadyParams
  <1>5. steady' \in [Channels -> SteadyParams]
    BY <1>4 DEF UpdateSteady, ChannelTypeOK
  <1>6. mode' \in [Channels -> RunModes \cup {"IDLE"}]
    BY DEF UpdateSteady, ChannelTypeOK, RunModes
  <1>7. QED
    BY <1>5, <1>6 DEF UpdateSteady, HandlerType, ChannelTypeOK, CommsTypeOK

LEMMA SteadyRunType ==
  ASSUME ChannelTypeOK, CommsTypeOK, NEW c \in Channels, SteadyRun(c)
  PROVE  HandlerType
  <1> DEFINE first == ~steady[c].initialized
             s     == IF ~first THEN steady[c]
                      ELSE [steady[c] EXCEPT
                              !.initialized = TRUE,
                              !.left = IF steady[c].timer_en
                                       THEN steady[c].duration ELSE @]
             held  == IF first THEN DacAfter(c, {dac[c]}, s.voltage) ELSE {dac[c]}
  <1>1. steady[c] \in SteadyParams
    BY DEF ChannelTypeOK
  <1>2. s \in SteadyParams
    BY <1>1 DEF SteadyParams
  <1>3. s.voltage \in Int
    BY <1>2 DEF SteadyParams
  <1>4. dac[c] \in DacCodes
    BY DEF ChannelTypeOK
  <1>5. held \in SUBSET DacCodes
    BY <1>3, <1>4, DacAfterType
  <1>6. steady' \in [Channels -> SteadyParams]
    BY <1>2 DEF SteadyRun, ChannelTypeOK
  <1> HIDE DEF held, s
  <1>7. CASE Stop(c, held)
    BY <1>5, <1>6, <1>7, StopType DEF SteadyRun, HandlerType, ChannelTypeOK
  <1>8. CASE DacSet(c, held) /\ UNCHANGED <<mode, data_queue, adcEn>>
    <2>1. dac' \in [Channels -> DacCodes]
      BY <1>5, <1>8, DacSetType
    <2>2. QED
      BY <1>6, <1>8, <2>1 DEF SteadyRun, HandlerType, ChannelTypeOK, CommsTypeOK
  <1>9. Stop(c, held) \/ (DacSet(c, held) /\ UNCHANGED <<mode, data_queue, adcEn>>)
    BY DEF SteadyRun, held, s
  <1>10. QED
    BY <1>7, <1>8, <1>9

LEMMA AdvanceType ==
  ASSUME NEW s \in SweepParams, ~SweepOver(s)
  PROVE  Advance(s) \in SweepParams
  <1>1. s.phase = "FIRST" \/ s.phase = "SECOND" \/ s.phase = "THIRD"
    BY DEF SweepParams
  <1>2. QED
    BY <1>1 DEF SweepParams, Advance

LEMMA SweepRunType ==
  ASSUME ChannelTypeOK, CommsTypeOK, NEW c \in Channels, SweepRun(c)
  PROVE  HandlerType
  <1> DEFINE s    == [sweep[c] EXCEPT !.next_step_rdy = FALSE]
             held == DacAfter(c, {dac[c]}, s.voltage)
  <1>1. s \in SweepParams /\ s.voltage \in Int
    BY DEF ChannelTypeOK, SweepParams
  <1>2. dac[c] \in DacCodes
    BY DEF ChannelTypeOK
  <1>3. held \in SUBSET DacCodes
    BY <1>1, <1>2, DacAfterType
  <1> HIDE DEF held, s
  <1>4. CASE UNCHANGED <<sweep, dac, mode, data_queue, adcEn>>
    BY <1>4 DEF SweepRun, HandlerType, ChannelTypeOK, CommsTypeOK
  <1>5. CASE /\ ~SweepOver(s)
             /\ sweep' = [sweep EXCEPT ![c] = Advance(s)]
             /\ DacSet(c, held)
             /\ UNCHANGED <<mode, data_queue, adcEn>>
    <2>1. dac' \in [Channels -> DacCodes]
      BY <1>3, <1>5, DacSetType
    <2>2. sweep' \in [Channels -> SweepParams]
      BY <1>1, <1>5, AdvanceType DEF ChannelTypeOK
    <2>3. QED
      BY <1>5, <2>1, <2>2 DEF SweepRun, HandlerType, ChannelTypeOK, CommsTypeOK
  <1>6. CASE sweep' = [sweep EXCEPT ![c] = s] /\ Stop(c, held)
    <2>1. sweep' \in [Channels -> SweepParams]
      BY <1>1, <1>6 DEF ChannelTypeOK
    <2>2. QED
      BY <1>3, <1>6, <2>1, StopType DEF SweepRun, HandlerType, ChannelTypeOK
  <1>7. QED
    BY <1>4, <1>5, <1>6 DEF SweepRun, held, s

LEMMA ComputeAndSendCurrentType ==
  ASSUME ChannelTypeOK, CommsTypeOK, NEW c \in Channels, NEW code \in DacCodes,
         ComputeAndSendCurrent(c, code), adcData' = NoData
  PROVE  HandlerType
  <1> DEFINE rec == [channel_id |-> c, mode |-> mode[c], current |-> code,
                     voltage |-> IF mode[c] = "SWEEP" THEN sweep[c].voltage
                                 ELSE steady[c].voltage]
  <1>1. rec \in DataLog
    <2>1. mode[c] \in RunModes \cup {"IDLE"}
      BY DEF ChannelTypeOK
    <2>2. sweep[c].voltage \in Int /\ steady[c].voltage \in Int
      BY DEF ChannelTypeOK, SweepParams, SteadyParams
    <2>3. mode[c] \in Mode
      BY <2>1 DEF RunModes, Mode
    <2>4. code \in Int
      BY DEF DacCodes
    <2>5. QED
      BY <2>2, <2>3, <2>4 DEF DataLog
  <1>2. data_queue' \in Seq(DataLog) /\ Len(data_queue') <= LogDepth
    <2>1. CASE UNCHANGED data_queue
      BY <2>1 DEF CommsTypeOK
    <2>2. CASE SendRecord(rec)
      BY <1>1, <2>2, DataQueueType
    <2>3. QED
      BY <2>1, <2>2 DEF ComputeAndSendCurrent
  <1>3. sweep' \in [Channels -> SweepParams]
    BY DEF ComputeAndSendCurrent, ChannelTypeOK, SweepParams
  <1>4. QED
    BY <1>2, <1>3 DEF ComputeAndSendCurrent, HandlerType, ChannelTypeOK

-----------------------------------------------------------------------------
(* Types, step by step.                                                      *)

LEMMA InitType == Init => TypeOK
  <1> SUFFICES ASSUME Init PROVE TypeOK
    OBVIOUS
  <1>1. 0 \in Channels
    BY NumChannelsAssumption DEF Channels
  <1>2. CommsTypeOK
    <2>1. user_cmd_queue = <<>> /\ data_queue = <<>>
      BY DEF Init, CommsInit
    <2>2. user_cmd_queue \in Seq(UserCmd) /\ Len(user_cmd_queue) <= CmdDepth
      BY <2>1, DepthAssumption
    <2>3. data_queue \in Seq(DataLog) /\ Len(data_queue) <= LogDepth
      BY <2>1, DepthAssumption
    <2>4. QED
      BY <2>2, <2>3 DEF CommsTypeOK
  <1>3. SourceTypeOK
    <2>1. cmdsLeft \in 0 .. MaxCmds
      BY MaxCmdsAssumption DEF Init, SourceInit
    <2>2. QED
      BY <1>1, <2>1 DEF Init, SourceInit, SourceTypeOK
  <1>4. ChannelTypeOK
    <2>1. mode \in [Channels -> RunModes \cup {"IDLE"}] /\ adcEn \in [Channels -> BOOLEAN]
      BY DEF Init, CoordinatorInit
    <2>2. steady \in [Channels -> SteadyParams]
      BY DEF Init, CoordinatorInit, SteadyReset, SteadyParams
    <2>3. sweep \in [Channels -> SweepParams]
      BY DEF Init, CoordinatorInit, SweepReset, SweepParams
    <2>4. cal \in [Channels -> Calibration]
      BY DEF Init, CoordinatorInit, CalDefault, Calibration
    <2>5. nvs \in [Channels -> Calibration \cup {NoRecord}] /\ adcData \in Sample \cup {NoData}
      BY DEF Init, CoordinatorInit
    <2>6. dac \in [Channels -> DacCodes] /\ filterOdr \in [Channels -> OdrLut]
      BY DEF Init, CoordinatorInit, ZeroCode, DacCodes, OdrDefault, OdrLut
    <2>7. QED
      BY <2>1, <2>2, <2>3, <2>4, <2>5, <2>6 DEF ChannelTypeOK
  <1>5. CoordinatorTypeOK
    BY <1>1 DEF Init, CoordinatorInit, CoordinatorTypeOK
  <1>6. reboots \in 0 .. MaxReboots
    BY FirmwareAssumption DEF Init
  <1>7. QED
    BY <1>2, <1>3, <1>4, <1>5, <1>6 DEF TypeOK

(* The input task.                                                           *)
LEMMA SourceStepType ==
  ASSUME TypeOK, HostCommand \/ HostAlive \/ HostSilent \/ FloodOff
  PROVE  TypeOK'
  <1>1. UNCHANGED <<data_queue, channelVars, coordinatorVars, reboots>>
    BY DEF HostCommand, HostAlive, HostSilent, FloodOff, commsVars
  <1>2. ChannelTypeOK' /\ CoordinatorTypeOK' /\ reboots' \in 0 .. MaxReboots
    BY <1>1 DEF TypeOK, ChannelTypeOK, CoordinatorTypeOK, channelVars, coordinatorVars
  <1>3. user_cmd_queue \in Seq(UserCmd) /\ Len(user_cmd_queue) <= CmdDepth
        /\ CmdDepth \in Nat
    BY DepthAssumption DEF TypeOK, CommsTypeOK
  <1>4. CASE HostCommand
    <2>1. PICK cmd \in Commands : Offer(cmd)
      BY <1>4 DEF HostCommand
    <2>2. cmd \in UserCmd
      BY CommandsAssumption
    <2>3. user_cmd_queue' \in Seq(UserCmd) /\ Len(user_cmd_queue') <= CmdDepth
      BY <1>3, <2>1, <2>2, SendType DEF Offer
    <2>4. CommsTypeOK'
      BY <1>1, <2>3 DEF TypeOK, CommsTypeOK
    <2>5. SourceTypeOK'
      <3>1. cmdsLeft' \in 0 .. MaxCmds
        BY <2>1, MaxCmdsAssumption DEF Offer, TypeOK, SourceTypeOK
      <3>2. QED
        BY <2>1, <3>1 DEF Offer, TypeOK, SourceTypeOK
    <2>6. QED
      BY <1>2, <2>4, <2>5 DEF TypeOK
  <1>5. CASE HostSilent
    <2>1. CommsTypeOK'
      BY <1>5 DEF HostSilent, commsVars, TypeOK, CommsTypeOK
    <2>2. SourceTypeOK'
      BY <1>5 DEF HostSilent, GoSilent, TypeOK, SourceTypeOK
    <2>3. QED
      BY <1>2, <2>1, <2>2 DEF TypeOK
  <1>6. CASE FloodOff
    <2> DEFINE off == [channel_id |-> floodNext, mode |-> "IDLE"]
    <2>1. floodNext \in Channels
      BY DEF TypeOK, SourceTypeOK
    <2>2. off \in UserCmd
      BY <2>1 DEF UserCmd, OffCmd
    <2>3. user_cmd_queue' \in Seq(UserCmd) /\ Len(user_cmd_queue') <= CmdDepth
      BY <1>3, <1>6, <2>2, SendType DEF FloodOff, SendOff
    <2>4. CommsTypeOK'
      BY <1>1, <2>3 DEF TypeOK, CommsTypeOK
    <2>5. floodNext' \in Channels
      <3>1. floodNext' = (floodNext + 1) % NumChannels
        BY <1>6 DEF FloodOff, SendOff
      <3>2. floodNext + 1 \in Int /\ NumChannels \in Nat \ {0}
        BY <2>1, NumChannelsAssumption DEF Channels
      <3>3. QED
        BY <3>1, <3>2, ModType DEF Channels
    <2>6. SourceTypeOK'
      BY <1>6, <2>5 DEF FloodOff, SendOff, TypeOK, SourceTypeOK
    <2>7. QED
      BY <1>2, <2>4, <2>6 DEF TypeOK
  <1>7. CASE HostAlive
    <2>1. CommsTypeOK'
      BY <1>7 DEF HostAlive, commsVars, TypeOK, CommsTypeOK
    <2>2. SourceTypeOK'
      BY <1>7 DEF HostAlive, KeepAlive, TypeOK, SourceTypeOK
    <2>3. QED
      BY <1>2, <2>1, <2>2 DEF TypeOK
  <1>8. QED
    BY <1>4, <1>5, <1>6, <1>7

LEMMA LogType ==
  ASSUME TypeOK, Log
  PROVE  TypeOK'
  <1>1. data_queue \in Seq(DataLog) /\ Len(data_queue) <= LogDepth
        /\ LogDepth \in Nat /\ data_queue # <<>>
    BY DepthAssumption DEF Log, LogTask, TypeOK, CommsTypeOK
  <1>2. /\ Head(data_queue) \in DataLog
        /\ data_queue' \in Seq(DataLog)
        /\ Len(data_queue') <= LogDepth
    BY <1>1, ReceiveType DEF Log, LogTask
  <1>3. CommsTypeOK'
    BY <1>2 DEF Log, TypeOK, CommsTypeOK
  <1>4. SourceTypeOK' /\ CoordinatorTypeOK' /\ reboots' \in 0 .. MaxReboots
    BY DEF Log, TypeOK, SourceTypeOK, CoordinatorTypeOK, sourceVars, coordinatorVars
  <1>5. ChannelTypeOK'
    BY DEF Log, TypeOK, ChannelTypeOK, channelVars
  <1>6. QED
    BY <1>3, <1>4, <1>5 DEF TypeOK

(* Initialisation.                                                           *)
LEMMA BootType ==
  ASSUME TypeOK, BootAdc \/ BootChannel \/ BootFails
  PROVE  TypeOK'
  <1>1. UNCHANGED <<commsVars, sourceVars, reboots>>
    BY DEF BootAdc, BootChannel, BootFails, Elsewhere, commsVars
  <1>2. CommsTypeOK' /\ SourceTypeOK' /\ reboots' \in 0 .. MaxReboots
    BY <1>1 DEF TypeOK, CommsTypeOK, SourceTypeOK, commsVars, sourceVars
  <1>3. idx \in Channels /\ 0 \in Channels
    BY NumChannelsAssumption DEF TypeOK, CoordinatorTypeOK, Channels
  <1>4. CASE BootAdc
    <2>1. ChannelTypeOK'
      <3>1. adcEn' \in [Channels -> BOOLEAN] /\ adcData' \in Sample \cup {NoData}
        BY <1>4 DEF BootAdc, InitAdc
      <3>2. filterOdr' \in [Channels -> OdrLut]
        BY <1>4 DEF BootAdc, InitAdc, OdrDefault, OdrLut
      <3>3. nvs' \in [Channels -> Calibration \cup {NoRecord}]
        BY <1>4 DEF BootAdc, InitAdc, NvsInit, TypeOK, ChannelTypeOK
      <3>4. QED
        BY <1>4, <3>1, <3>2, <3>3 DEF BootAdc, InitAdc, TypeOK, ChannelTypeOK
    <2>2. CoordinatorTypeOK'
      BY <1>3, <1>4 DEF BootAdc, InitAdc, CoordinatorTypeOK
    <2>3. QED
      BY <1>2, <2>1, <2>2 DEF TypeOK
  <1>5. CASE BootChannel
    <2>1. PICK k \in Loadable(idx) :
            /\ cal' = [cal EXCEPT ![idx] = k]
            /\ \E code \in VoltageToBin(0, k.dac_vref)
                            \cup (IF DacFaults THEN {dac[idx], HalfScale} ELSE {}) :
                 dac' = [dac EXCEPT ![idx] = code]
      BY <1>5 DEF BootChannel, InitChannel, ChannelInit
    <2>2. k \in Calibration /\ k.dac_vref \in Nat \ {0}
      <3>1. CalDefault \in Calibration
        BY DEF CalDefault, Calibration
      <3>2. k \in Calibration
        BY <1>3, <3>1 DEF Loadable, TypeOK, ChannelTypeOK
      <3>3. QED
        BY <3>2 DEF Calibration
    <2>3. VoltageToBin(0, k.dac_vref) \subseteq DacCodes
      BY <2>2, VoltageToBinIsCode
    <2>4. HalfScale \in DacCodes
      BY DEF HalfScale, DacCodes
    <2>5. dac' \in [Channels -> DacCodes] /\ cal' \in [Channels -> Calibration]
      BY <1>3, <2>1, <2>2, <2>3, <2>4 DEF TypeOK, ChannelTypeOK
    <2>6. adcEn' \in [Channels -> BOOLEAN] /\ adcData' \in Sample \cup {NoData}
      <3>1. [ch_num |-> idx, code |-> dac'[idx]] \in Sample
        BY <1>3, <2>5 DEF Sample
      <3>2. ChannelTypeOK /\ adcData \in Sample \cup {NoData}
        BY DEF TypeOK, ChannelTypeOK
      <3>3. adcEn' \in InputsAfter(idx, FALSE)
            /\ adcData' \in {adcData, NoData, [ch_num |-> idx, code |-> dac'[idx]]}
        BY <1>5 DEF BootChannel, InitChannel, ChannelInit
      <3> QED
        BY <1>3, <3>1, <3>2, <3>3, InputsAfterType
    <2>7. ChannelTypeOK'
      BY <1>5, <2>5, <2>6 DEF BootChannel, InitChannel, ChannelInit, TypeOK, ChannelTypeOK
    <2>8. CoordinatorTypeOK'
      BY <1>3, <1>5, NextIdx DEF BootChannel, InitChannel, TypeOK, CoordinatorTypeOK
    <2>9. QED
      BY <1>2, <2>7, <2>8 DEF TypeOK
  <1>6. CASE BootFails
    <2>1. ChannelTypeOK'
      BY <1>6 DEF BootFails, InitFails, channelVars, TypeOK, ChannelTypeOK
    <2>2. CoordinatorTypeOK'
      BY <1>6 DEF BootFails, InitFails, TypeOK, CoordinatorTypeOK
    <2>3. QED
      BY <1>2, <2>1, <2>2 DEF TypeOK
  <1>7. QED
    BY <1>4, <1>5, <1>6

(* The loop of the coordinator.                                              *)
LEMMA LoopType ==
  ASSUME TypeOK, Drain \/ EndDrain \/ Dispatch \/ EndPoll \/ Run
  PROVE  TypeOK'
  <1>1. SourceTypeOK' /\ reboots' \in 0 .. MaxReboots
    BY DEF Drain, EndDrain, Dispatch, EndPoll, Run, Elsewhere, sourceVars,
           TypeOK, SourceTypeOK
  <1>2. ChannelTypeOK /\ CommsTypeOK /\ idx \in Channels /\ 0 \in Channels
    BY NumChannelsAssumption DEF TypeOK, CoordinatorTypeOK, Channels
  <1>3. ASSUME UNCHANGED <<channelVars, data_queue>>
        PROVE  HandlerType
    BY <1>2, <1>3 DEF HandlerType, ChannelTypeOK, channelVars, CommsTypeOK
  <1>4. HandlerType
    <2>1. CASE Drain
      <3> DEFINE cmd == Head(user_cmd_queue)
      <3>1. cmd \in UserCmd
        BY <1>2, <2>1, ReceiveType, DepthAssumption DEF Drain, DrainCmd, CommsTypeOK
      <3> HIDE DEF cmd
      <3>2. cmd.channel_id \in Channels
        BY <3>1, CmdByMode
      <3>3. Update(cmd.channel_id, cmd)
        BY <2>1 DEF Drain, DrainCmd, cmd
      <3>4. QED
        BY <1>2, <3>1, <3>2, <3>3, CmdByMode, UpdateIdleType, UpdateCalibrationType,
           UpdateOdrType, UpdateSweepType, UpdateSteadyType DEF Update
    <2>2. CASE Dispatch
      <3>1. adcData \in Sample /\ adcData' = NoData
        BY <1>2, <2>2 DEF Dispatch, PollSample, ChannelTypeOK
      <3>2. adcData.ch_num \in Channels /\ adcData.code \in DacCodes
        BY <3>1 DEF Sample
      <3>3. QED
        BY <1>2, <2>2, <3>1, <3>2, ComputeAndSendCurrentType DEF Dispatch, PollSample
    <2>3. CASE Run
      BY <1>2, <1>3, <2>3, SteadyRunType, SweepRunType DEF Run, RunChannel
    <2>4. CASE EndDrain \/ EndPoll
      BY <1>3, <2>4 DEF EndDrain, DrainDone, EndPoll, PollDone
    <2>5. QED
      BY <2>1, <2>2, <2>3, <2>4
  <1>5. user_cmd_queue' \in Seq(UserCmd) /\ Len(user_cmd_queue') <= CmdDepth
    <2>1. CASE Drain
      BY <1>2, <2>1, ReceiveType, DepthAssumption DEF Drain, DrainCmd, CommsTypeOK
    <2>2. CASE EndDrain \/ Dispatch \/ EndPoll \/ Run
      BY <1>2, <2>2 DEF EndDrain, DrainDone, Dispatch, PollSample, EndPoll, PollDone,
                        Run, RunChannel, CommsTypeOK
    <2>3. QED
      BY <2>1, <2>2
  <1>6. CoordinatorTypeOK'
    <2>1. CASE Run
      BY <1>2, <2>1, NextIdx DEF Run, RunChannel, TypeOK, CoordinatorTypeOK
    <2>2. CASE Drain \/ EndDrain \/ Dispatch \/ EndPoll
      BY <1>2, <2>2 DEF Drain, DrainCmd, EndDrain, DrainDone, Dispatch, PollSample,
                        EndPoll, PollDone, TypeOK, CoordinatorTypeOK
    <2>3. QED
      BY <2>1, <2>2
  <1>7. CommsTypeOK'
    BY <1>4, <1>5 DEF HandlerType, CommsTypeOK
  <1>8. QED
    BY <1>1, <1>4, <1>6, <1>7 DEF TypeOK, HandlerType

(* The ADC, the clock and the reset.                                         *)
LEMMA SamplingType ==
  ASSUME TypeOK, NEW c \in Channels, Sampling(c)
  PROVE  TypeOK'
  <1>1. adcData' \in Sample \cup {NoData}
    BY DEF Sampling, Convert, Sample, TypeOK, ChannelTypeOK
  <1>2. ChannelTypeOK'
    BY <1>1 DEF Sampling, Convert, TypeOK, ChannelTypeOK
  <1>3. CommsTypeOK' /\ SourceTypeOK' /\ CoordinatorTypeOK' /\ reboots' \in 0 .. MaxReboots
    BY DEF Sampling, Convert, Elsewhere, sourceVars, TypeOK, CommsTypeOK, SourceTypeOK,
           CoordinatorTypeOK
  <1>4. QED
    BY <1>2, <1>3 DEF TypeOK

LEMMA TickType ==
  ASSUME TypeOK, Tick
  PROVE  TypeOK'
  <1>1. \A c \in Channels :
          [steady[c] EXCEPT !.left = IF @ < 0 THEN @ ELSE @ - 1] \in SteadyParams
    BY DEF TypeOK, ChannelTypeOK, SteadyParams
  <1>2. steady' \in [Channels -> SteadyParams]
    BY <1>1 DEF Tick, TimerTick
  <1>3. ChannelTypeOK'
    BY <1>2 DEF Tick, TypeOK, ChannelTypeOK
  <1>4. CommsTypeOK' /\ SourceTypeOK' /\ CoordinatorTypeOK' /\ reboots' \in 0 .. MaxReboots
    BY DEF Tick, SourceTick, commsVars, coordinatorVars, TypeOK, CommsTypeOK,
           SourceTypeOK, CoordinatorTypeOK
  <1>5. QED
    BY <1>3, <1>4 DEF TypeOK

LEMMA RebootType ==
  ASSUME TypeOK, Reboot
  PROVE  TypeOK'
  <1>1. 0 \in Channels
    BY NumChannelsAssumption DEF Channels
  <1>2. reboots' \in 0 .. MaxReboots
    BY FirmwareAssumption DEF Reboot, TypeOK
  <1>3. SourceTypeOK' /\ CoordinatorTypeOK'
    BY <1>1 DEF Reboot, SourceReset, RamReset, TypeOK, SourceTypeOK, CoordinatorTypeOK
  <1>4. CommsTypeOK'
    <2>1. user_cmd_queue' \in Seq(UserCmd) /\ Len(user_cmd_queue') <= CmdDepth
      BY DepthAssumption DEF Reboot
    <2>2. data_queue' \in Seq(DataLog) /\ Len(data_queue') <= LogDepth
      BY DepthAssumption DEF Reboot
    <2>3. QED
      BY <2>1, <2>2 DEF Reboot, TypeOK, CommsTypeOK
  <1>5. ChannelTypeOK'
    <2>1. mode' \in [Channels -> RunModes \cup {"IDLE"}]
      BY DEF Reboot, RamReset
    <2>2. steady' \in [Channels -> SteadyParams]
      BY DEF Reboot, RamReset, SteadyReset, SteadyParams
    <2>3. sweep' \in [Channels -> SweepParams]
      BY DEF Reboot, RamReset, SweepReset, SweepParams
    <2>4. cal' \in [Channels -> Calibration]
      BY DEF Reboot, RamReset, CalDefault, Calibration
    <2>5. QED
      BY <2>1, <2>2, <2>3, <2>4 DEF Reboot, TypeOK, ChannelTypeOK
  <1>6. QED
    BY <1>2, <1>3, <1>4, <1>5 DEF TypeOK

LEMMA StutterType ==
  ASSUME TypeOK, UNCHANGED vars
  PROVE  TypeOK'
  BY DEF vars, commsVars, sourceVars, channelVars, coordinatorVars, TypeOK, CommsTypeOK,
         SourceTypeOK, ChannelTypeOK, CoordinatorTypeOK

LEMMA NextType == TypeOK /\ [Next]_vars => TypeOK'
  BY SourceStepType, LogType, BootType, LoopType, SamplingType, TickType, RebootType,
     StutterType DEF Next

(* Type correctness: every variable keeps its type and neither queue ever    *)
(* holds more than its depth.                                                *)
THEOREM TypeCorrect == Spec => []TypeOK
  BY InitType, NextType, PTL DEF Spec
=============================================================================

---------------------------- MODULE CommandSource ----------------------------
(* What user_cmd_task promises the coordinator, seen from the queue: while   *)
(* the host talks, any of the commands in Commands may be offered; once the  *)
(* host has been silent for more than 2.5 s the task sends OFF to every      *)
(* channel in turn, again and again, 20 ms apart.  Sends never block.        *)
(* UserCmdTask.tla models the parser itself and is shown to implement this.  *)
EXTENDS TaskComms

CONSTANTS
  Commands,   \* the commands the host may send
  MaxCmds     \* bound on the commands sent in one behaviour

ASSUME CommandsAssumption == Commands \subseteq UserCmd
ASSUME MaxCmdsAssumption == MaxCmds \in Nat

VARIABLES
  silent,      \* more than 2.5 s have passed since the last line
  floodNext,   \* the channel the running OFF round sends to next
  rested,      \* the 20 ms delay after the last OFF round has passed
  cmdsLeft     \* commands that may still be sent (bound)

sourceVars == <<silent, floodNext, rested, cmdsLeft>>

SourceTypeOK ==
  /\ silent \in BOOLEAN
  /\ floodNext \in Channels
  /\ rested \in BOOLEAN
  /\ cmdsLeft \in 0 .. MaxCmds

(* Just after a reset the host has not been silent yet.                      *)
SourceReset ==
  /\ silent' = FALSE
  /\ floodNext' = 0
  /\ rested' = TRUE

SourceInit ==
  /\ silent = FALSE
  /\ floodNext = 0
  /\ rested = TRUE
  /\ cmdsLeft = MaxCmds

-----------------------------------------------------------------------------
(* A line arrives, which restarts the silence clock, and the parser enqueues *)
(* a command, or loses it because the queue is full.  fgets is only reached  *)
(* between two rounds, after the delay.                                      *)
Offer(cmd) ==
  /\ floodNext = 0
  /\ rested
  /\ cmdsLeft > 0
  /\ cmdsLeft' = cmdsLeft - 1
  /\ silent' = FALSE
  /\ user_cmd_queue' = XQueueSend(user_cmd_queue, CmdDepth, cmd)
  /\ UNCHANGED <<floodNext, rested>>

(* A line that enqueues nothing, the host's sign of life among them.         *)
KeepAlive ==
  /\ floodNext = 0
  /\ rested
  /\ silent' = FALSE
  /\ UNCHANGED <<floodNext, rested, cmdsLeft>>

(* The silence clock passes 2.5 s: the cable is out, or the host is gone.    *)
GoSilent ==
  /\ ~silent
  /\ floodNext = 0
  /\ silent' = TRUE
  /\ UNCHANGED <<floodNext, rested, cmdsLeft>>

(* Mutant of SendOff: a round ends one channel early.                        *)
SendOffButLast ==
  /\ silent
  /\ rested
  /\ user_cmd_queue' = XQueueSend(user_cmd_queue, CmdDepth,
                                  [channel_id |-> floodNext, mode |-> "IDLE"])
  /\ floodNext' = (IF floodNext + 2 < NumChannels THEN floodNext + 1 ELSE 0)
  /\ rested' = (floodNext + 2 < NumChannels)
  /\ UNCHANGED <<silent, cmdsLeft>>

(* One OFF of a round.  A round starts when the delay after the last one is  *)
(* over and, once started, runs to the last channel before the next delay.   *)
SendOff ==
  /\ silent
  /\ rested
  /\ user_cmd_queue' = XQueueSend(user_cmd_queue, CmdDepth,
                                  [channel_id |-> floodNext, mode |-> "IDLE"])
  /\ floodNext' = (floodNext + 1) % NumChannels
  /\ rested' = (floodNext + 1 < NumChannels)
  /\ UNCHANGED <<silent, cmdsLeft>>

(* The delay between two rounds ends with a tick of the clock.               *)
SourceTick == rested' = TRUE

-----------------------------------------------------------------------------
(* The source next to a reader of its queue: what the parser is compared to. *)
sourceAll == <<sourceVars, commsVars>>

SourceNext ==
  \/ (\E cmd \in Commands : Offer(cmd)) /\ UNCHANGED data_queue
  \/ (KeepAlive \/ GoSilent) /\ UNCHANGED commsVars
  \/ SendOff /\ UNCHANGED data_queue
  \/ SourceTick /\ UNCHANGED <<silent, floodNext, cmdsLeft, commsVars>>
  \/ /\ user_cmd_queue # <<>>
     /\ user_cmd_queue' = Tail(user_cmd_queue)
     /\ UNCHANGED <<sourceVars, data_queue>>

SourceSpec == SourceInit /\ CommsInit /\ [][SourceNext]_sourceAll
=============================================================================

---------------------------- MODULE MCUserCmdTask ----------------------------
(* A small instance of UserCmdTask for TLC.                                  *)
EXTENDS UserCmdTask

Line(c, kw, args, unit) == [ch |-> c, kw |-> kw, args |-> args, unit |-> unit]

(* Every keyword, complete and cut short, and the two malformed forms that   *)
(* reach xQueueSend.                                                         *)
MCLines ==
  {Line(0, "blank", <<>>, "none"), Line(1, "none", <<>>, "none"),
   Line(0, "OFF", <<>>, "none"),
   Line(0, "CALIBRATION", <<1000, 401, 2500>>, "none"),
   Line(1, "CALIBRATION", <<1000>>, "none"),
   Line(0, "ODR", <<401>>, "none"), Line(1, "ODR", <<>>, "none"),
   Line(1, "STEADY", <<401, 1000>>, "Min"), Line(0, "STEADY", <<401, 1000>>, "none"),
   Line(1, "STEADY", <<401>>, "none"), Line(1, "STEADY", <<401, 1000>>, "Day"),
   Line(0, "STEADY", <<401, 1000>>, "other"),
   Line(0, "SWEEP", <<2500, 401>>, "none"), Line(1, "SWEEP", <<1000>>, "none"),
   Line(1, "other", <<>>, "none")}

MCGarbage == {7}
=============================================================================

--------------------------- MODULE MCSensorHealth ---------------------------
(***************************************************************************)
(* Three frames of the receiver, which differ in the arm channel and the   *)
(* failsafe flag, so that a mixture of two can be a frame nobody sent.     *)
(* Overrides read as arm switch on or off.                                 *)
(***************************************************************************)
EXTENDS SensorHealth

MCFrames == [arm : BOOLEAN, mode : {"STABILIZE"}, collLow : {TRUE}]
MCFollowed == {{"imu"}, {"rc"}}
MCSent == {f \in [sw : MCFrames, failsafe : BOOLEAN] : f.failsafe => ~f.sw.arm}
MCOverrides == MCFrames
=============================================================================

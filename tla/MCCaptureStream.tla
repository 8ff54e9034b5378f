--------------------------- MODULE MCCaptureStream --------------------------
(* Pools of two blocks, memory for two of them, a ring that takes as many  *)
(* reads as are wanted in flight.                                          *)
EXTENDS CaptureStream

(* Anything; anything but a thread whose object cannot be had; neither     *)
(* this nor a command that fails.                                          *)
Everything == {AllFaults, AllFaults \ {"handle"}, AllFaults \ {"handle", "command"}}
=============================================================================

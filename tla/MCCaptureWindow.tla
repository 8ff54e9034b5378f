--------------------------- MODULE MCCaptureWindow --------------------------
(* The buffer holds five packets, the least with which m_NextReadPacket    *)
(* can be taken back to before the first packet; the number wraps after 15.*)
EXTENDS CaptureWindow
=============================================================================

---------------------------- MODULE MCAcxStream -----------------------------
(* Two periods and two RT packets: the least with which a pump, a drain    *)
(* and a client can each be at a different one.                            *)
EXTENDS AcxStream
=============================================================================

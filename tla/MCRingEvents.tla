---------------------------- MODULE MCRingEvents ----------------------------
(* Small rings whose indexes wrap soon; both ways of suppressing           *)
(* notifications are explored, since the feature is chosen in Init.        *)
EXTENDS RingEvents
=============================================================================

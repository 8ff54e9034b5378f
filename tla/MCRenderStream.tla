--------------------------- MODULE MCRenderStream ---------------------------
(* A pool of two blocks, one packet of preroll, and memory for one block   *)
(* more: writes the stream has lost count of and a new pool fit beside     *)
(* each other.  The fallback format keeps fewer packets outstanding.       *)
EXTENDS RenderStream

Everything == {AllFaults, {"memory", "thread"}}
=============================================================================

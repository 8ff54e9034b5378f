--------------------------- MODULE MCRenderPackets ---------------------------
(* Three packets, eight numbers, one packet of preroll; a fallback period  *)
(* takes two packets.                                                      *)
EXTENDS RenderPackets
=============================================================================

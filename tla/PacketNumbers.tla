---------------------------- MODULE PacketNumbers ----------------------------
(***************************************************************************)
(* The numbers of the packets of a stream, which are ULONGs and wrap, and  *)
(* the buffer they lie in (ViosndWaveRT.cpp): what CaptureWindow and       *)
(* RenderPackets share.                                                    *)
(***************************************************************************)
EXTENDS Naturals

CONSTANTS
  Modulus,     (* the range of a packet number (2^32)                       *)
  N            (* m_NotificationCount: the packets in the audio buffer      *)

ASSUME PacketNumbersAssumption ==
  /\ N \in Nat \ {0}
  /\ Modulus \in Nat /\ Modulus > 2 * N

Numbers == 0 .. Modulus - 1

(* Arithmetic on ULONGs: the sum is wrapped, the difference too.           *)
Wrap(n)     == n % Modulus
Plus(m, n)  == Wrap(m + n)
Minus(m, n) == (m + Modulus - n) % Modulus
=============================================================================

---------------------------- MODULE MCAcxDevice -----------------------------
(* What is the same under every name: the streams' threads, the addresses. *)
EXTENDS AcxDevice, TLC

Symmetry == Permutations(Streams) \cup Permutations(Addresses)
=============================================================================

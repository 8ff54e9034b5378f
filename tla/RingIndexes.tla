---------------------------- MODULE RingIndexes -----------------------------
(***************************************************************************)
(* The four free-running indexes of a split virtqueue (VirtIO/VirtIORing.c)*)
(* and their arithmetic, which SplitRing and RingEvents share: SplitRing   *)
(* tells what lies in the rings at these places, RingEvents who is woken   *)
(* when they move.                                                         *)
(***************************************************************************)
EXTENDS Naturals

CONSTANTS
  Num,        (* the size of the queue: the most buffers outstanding        *)
  Modulus     (* the range of a free-running index (2^16)                   *)

ASSUME RingIndexesAssumption ==
  /\ Num \in Nat \ {0}
  /\ Modulus \in Nat /\ Modulus >= 2 * Num

VARIABLES
  avail_idx,  (* master_vring_avail.idx, and vring.avail->idx               *)
  used_idx,   (* vring.used->idx                                            *)
  last_used,  (* the driver's place in the used ring                        *)
  seen        (* the device's place in the available ring                   *)

Index == 0 .. Modulus - 1

(* 16-bit arithmetic.                                                      *)
Plus(i, n) == (i + n) % Modulus

(* The entries between two indexes.                                        *)
Distance(from, to) == (to + Modulus - from) % Modulus
=============================================================================

---------------------------- MODULE MCSplitRing -----------------------------
(* A ring small enough to wrap its indexes many times over.                *)
EXTENDS SplitRing, TLC

(* Pointers are only compared.                                             *)
Symmetry == Permutations(Msgs)
=============================================================================

--------------------------- MODULE MCControlQueue ---------------------------
(* Two threads sharing the control queue: the instance TLC checks.         *)
EXTENDS ControlQueue, TLC

(* Threads and addresses are only compared, and CHOOSE is not used, so the *)
(* safety runs may identify states up to renaming them.                    *)
Symmetry == Permutations(Clients) \cup Permutations(Addrs)
=============================================================================

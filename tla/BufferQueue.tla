---------------------------- MODULE BufferQueue -----------------------------
(***************************************************************************)
(* What a virtqueue promises to the driver, with no rings, no descriptors  *)
(* and no index arithmetic: a buffer that was added is offered to the      *)
(* device in order, is kept by the device for as long as it likes, comes   *)
(* back once, in the order in which the device gave it back, under the     *)
(* pointer it was added with, and takes up room until then.  SplitRing is  *)
(* checked against this.                                                   *)
(***************************************************************************)
EXTENDS Naturals, Sequences

CONSTANTS
  Msgs,       (* the pointers a driver adds: "opaque"                       *)
  Room,       (* the number of descriptors of the queue                     *)
  MaxChain    (* the longest scatter list the driver uses                   *)

VARIABLES
  submitted,  (* added, not yet taken by the device, oldest first           *)
  held,       (* taken by the device                                        *)
  returned,   (* given back, not yet collected, oldest first                *)
  cost,       (* the descriptors each outstanding buffer takes up, else 0   *)
  room        (* the descriptors left                                       *)

vars == <<submitted, held, returned, cost, room>>

Outstanding(m) == cost[m] # 0

Init ==
  /\ submitted = <<>>
  /\ held      = {}
  /\ returned  = <<>>
  /\ cost      = [m \in Msgs |-> 0]
  /\ room      = Room

(* Adding a buffer: refused when its descriptors do not fit.               *)
Add(m, n) ==
  /\ ~Outstanding(m)
  /\ n <= room
  /\ submitted' = Append(submitted, m)
  /\ cost'      = [cost EXCEPT ![m] = n]
  /\ room'      = room - n
  /\ UNCHANGED <<held, returned>>

Take ==
  /\ submitted # <<>>
  /\ held'      = held \cup {Head(submitted)}
  /\ submitted' = Tail(submitted)
  /\ UNCHANGED <<returned, cost, room>>

GiveBack(m) ==
  /\ m \in held
  /\ held'     = held \ {m}
  /\ returned' = Append(returned, m)
  /\ UNCHANGED <<submitted, cost, room>>

Collect ==
  /\ returned # <<>>
  /\ returned' = Tail(returned)
  /\ room'     = room + cost[Head(returned)]
  /\ cost'     = [cost EXCEPT ![Head(returned)] = 0]
  /\ UNCHANGED <<submitted, held>>

(* Taking back a buffer the device has not touched, in any order, while    *)
(* the device has nothing.                                                 *)
Detach(i) ==
  /\ held = {} /\ returned = <<>>
  /\ submitted' = [k \in 1 .. Len(submitted) - 1 |->
                     submitted[IF k < i THEN k ELSE k + 1]]
  /\ room'      = room + cost[submitted[i]]
  /\ cost'      = [cost EXCEPT ![submitted[i]] = 0]
  /\ UNCHANGED <<held, returned>>

(* The queue is set up anew: whatever was outstanding is forgotten.        *)
Reset ==
  /\ submitted' = <<>>
  /\ held'      = {}
  /\ returned'  = <<>>
  /\ cost'      = [m \in Msgs |-> 0]
  /\ room'      = Room

Next == \/ \E m \in Msgs, n \in 1 .. MaxChain : Add(m, n)
        \/ Take
        \/ \E m \in Msgs : GiveBack(m)
        \/ Collect
        \/ \E i \in DOMAIN submitted : Detach(i)
        \/ Reset

Spec == Init /\ [][Next]_vars
=============================================================================

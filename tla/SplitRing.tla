----------------------------- MODULE SplitRing ------------------------------
(***************************************************************************)
(* The split virtqueue of VirtIO/VirtIORing.c: a table of descriptors with *)
(* a linked free list, the available ring the driver writes and the used   *)
(* ring the device writes, all addressed by free-running 16-bit indexes.   *)
(* The callers serialise the operations with a mutex per queue, so each    *)
(* operation is one step; the device runs concurrently and sees a buffer   *)
(* only when the available index is published, the last write of an add.   *)
(* Notification suppression is the subject of RingEvents.                  *)
(***************************************************************************)
EXTENDS RingIndexes, FiniteSets

CONSTANTS
  Msgs,       (* the "opaque" pointers                                      *)
  NoMsg,      (* NULL                                                       *)
  MaxChain    (* the longest scatter list (2 for a PCM packet or a command) *)

(* The size is a power of 2, so that the mask of DESC_INDEX is the         *)
(* remainder: a divisor of Modulus here.                                   *)
ASSUME SplitRingAssumption ==
  /\ Num > 1 /\ Modulus % Num = 0
  /\ NoMsg \notin Msgs
  /\ MaxChain \in Nat \ {0}

VARIABLES
  next,         (* vring.desc[i].next                                       *)
  more,         (* vring.desc[i].flags & VIRTQ_DESC_F_NEXT                  *)
  first_unused, (* the head of the free list                                *)
  num_unused,   (* its length                                               *)
  opaque,       (* vq->opaque[i]                                            *)
  avail,        (* vring.avail->ring                                        *)
  used,         (* vring.used->ring[i].id                                   *)
  working,      (* the heads the device has taken and not given back        *)
  detaching     (* the driver is in its detach loop                         *)

driverVars == <<next, more, first_unused, num_unused, opaque, last_used>>
availVars  == <<avail, avail_idx>>
deviceVars == <<used, used_idx, seen, working>>
vars       == <<driverVars, availVars, deviceVars, detaching>>

Slots == 0 .. Num - 1

(* From(i)[k] is the descriptor k links after i.                           *)
From(i) == LET walk[k \in 0 .. Num] == IF k = 0 THEN i ELSE next[walk[k - 1]]
           IN  walk

(* The links of the chain at head i: it ends at the first descriptor       *)
(* without the NEXT flag.                                                  *)
Links(i) == CHOOSE k \in Slots : /\ ~more[From(i)[k]]
                                 /\ \A j \in 0 .. k - 1 : more[From(i)[j]]

Init ==
  /\ next         = [i \in Slots |-> IF i = Num - 1 THEN 0 ELSE i + 1]
  /\ more         = [i \in Slots |-> i # Num - 1]
  /\ first_unused = 0
  /\ num_unused   = Num
  /\ opaque       = [i \in Slots |-> NoMsg]
  /\ avail        = [i \in Slots |-> 0]
  /\ avail_idx    = 0
  /\ used         = [i \in Slots |-> 0]
  /\ used_idx     = 0
  /\ last_used    = 0
  /\ seen         = 0
  /\ working      = {}
  /\ detaching    = FALSE

-----------------------------------------------------------------------------
(* get_unused_desc n times: the first n descriptors of the free list.      *)
Taken(n) == {From(first_unused)[k] : k \in 0 .. n - 1}

(* The head goes into the available ring and the index is published.       *)
Publish(head) ==
  /\ avail'     = [avail EXCEPT ![avail_idx % Num] = head]
  /\ avail_idx' = (avail_idx + 1) % Modulus

(* n regular descriptors off the free list.  Their "next" fields already   *)
(* link them: the code stores the value they hold.                         *)
AddChain(m, n) ==
  /\ n <= num_unused
  /\ opaque'       = [opaque EXCEPT ![first_unused] = m]
  /\ more'         = [i \in Slots |-> IF i \in Taken(n)
                                      THEN i # From(first_unused)[n - 1]
                                      ELSE more[i]]
  /\ first_unused' = From(first_unused)[n]
  /\ num_unused'   = num_unused - n
  /\ Publish(first_unused)
  /\ UNCHANGED <<next, last_used, deviceVars, detaching>>

(* One descriptor for an indirect table of n elements.                     *)
AddIndirect(m, n) ==
  /\ n > 1 /\ num_unused > 0
  /\ opaque'       = [opaque EXCEPT ![first_unused] = m]
  /\ more'         = [more EXCEPT ![first_unused] = FALSE]
  /\ first_unused' = next[first_unused]
  /\ num_unused'   = num_unused - 1
  /\ Publish(first_unused)
  /\ UNCHANGED <<next, last_used, deviceVars, detaching>>

(* virtqueue_add_buf_split, by a caller that adds each pointer once.       *)
AddBuf(m) ==
  /\ ~detaching
  /\ \A i \in Slots : opaque[i] # m
  /\ \E n \in 1 .. MaxChain : AddChain(m, n) \/ AddIndirect(m, n)

(* Mistaken: the tail of the chain is not linked to the free list.         *)
Mut_PutUnusedDescChain(i) ==
  LET last == From(i)[Links(i)]
  IN  /\ opaque'       = [opaque EXCEPT ![i] = NoMsg]
      /\ more'         = [more EXCEPT ![last] = TRUE]
      /\ num_unused'   = num_unused + Links(i) + 1
      /\ first_unused' = i
      /\ UNCHANGED next

PutUnusedDescChain(i) ==
  LET last == From(i)[Links(i)]
  IN  /\ opaque'       = [opaque EXCEPT ![i] = NoMsg]
      /\ more'         = [more EXCEPT ![last] = TRUE]
      /\ next'         = [next EXCEPT ![last] = first_unused]
      /\ num_unused'   = num_unused + Links(i) + 1
      /\ first_unused' = i

(* virtqueue_get_buf_split, when virtqueue_has_buf_split holds.            *)
HasBuf == last_used # used_idx

(* Mistaken: the newest entry of the used ring is taken, not the oldest.   *)
Mut_GetBuf ==
  /\ ~detaching
  /\ HasBuf
  /\ PutUnusedDescChain(used[(used_idx + Modulus - 1) % Num])
  /\ last_used' = (last_used + 1) % Modulus
  /\ UNCHANGED <<availVars, deviceVars, detaching>>

GetBuf ==
  /\ ~detaching
  /\ HasBuf
  /\ PutUnusedDescChain(used[last_used % Num])
  /\ last_used' = (last_used + 1) % Modulus
  /\ UNCHANGED <<availVars, deviceVars, detaching>>

(* The loop around virtqueue_detach_unused_buf_split, by a caller that     *)
(* collected everything and whose device has taken nothing and is quiet:   *)
(* it ends when the function returns NULL.                                 *)
Attached == {i \in Slots : opaque[i] # NoMsg}

Lowest == CHOOSE i \in Attached : \A j \in Attached : i <= j

DetachUnusedBuf ==
  /\ working = {} /\ ~HasBuf
  /\ Attached # {}
  /\ PutUnusedDescChain(Lowest)
  /\ detaching' = (Attached # {Lowest})
  /\ avail_idx' = (avail_idx + Modulus - 1) % Modulus
  /\ UNCHANGED <<avail, last_used, deviceVars>>

(* virtqueue_shutdown_split, after the device was reset.                   *)
Shutdown ==
  /\ next'         = [i \in Slots |-> IF i = Num - 1 THEN 0 ELSE i + 1]
  /\ more'         = [i \in Slots |-> i # Num - 1]
  /\ first_unused' = 0
  /\ num_unused'   = Num
  /\ opaque'       = [i \in Slots |-> NoMsg]
  /\ avail'        = [i \in Slots |-> 0]
  /\ avail_idx'    = 0
  /\ used'         = [i \in Slots |-> 0]
  /\ used_idx'     = 0
  /\ last_used'    = 0
  /\ seen'         = 0
  /\ working'      = {}
  /\ detaching'    = FALSE

-----------------------------------------------------------------------------
(* The device takes the oldest entry of the available ring ...             *)
DeviceTake ==
  /\ ~detaching
  /\ seen # avail_idx
  /\ working' = working \cup {avail[seen % Num]}
  /\ seen'    = (seen + 1) % Modulus
  /\ UNCHANGED <<driverVars, availVars, used, used_idx, detaching>>

(* ... and gives any of the chains it took back on the used ring.          *)
DeviceGiveBack(i) ==
  /\ i \in working
  /\ working'  = working \ {i}
  /\ used'     = [used EXCEPT ![used_idx % Num] = i]
  /\ used_idx' = (used_idx + 1) % Modulus
  /\ UNCHANGED <<driverVars, availVars, seen, detaching>>

Next == \/ \E m \in Msgs : AddBuf(m)
        \/ GetBuf
        \/ DetachUnusedBuf
        \/ Shutdown
        \/ DeviceTake
        \/ \E i \in Slots : DeviceGiveBack(i)

Spec == Init /\ [][Next]_vars

-----------------------------------------------------------------------------
(* The type invariant: the indexes stay in their 16-bit range and the      *)
(* count of unused descriptors within the queue.                           *)
TypeOK ==
  /\ next \in [Slots -> Slots] /\ more \in [Slots -> BOOLEAN]
  /\ first_unused \in Slots /\ num_unused \in 0 .. Num
  /\ opaque \in [Slots -> Msgs \cup {NoMsg}]
  /\ avail \in [Slots -> Slots] /\ used \in [Slots -> Slots]
  /\ {avail_idx, used_idx, last_used, seen} \subseteq 0 .. Modulus - 1
  /\ working \subseteq Slots
  /\ detaching \in BOOLEAN

Chain(i) == {From(i)[k] : k \in 0 .. Links(i)}
FreeList == Taken(num_unused)

(* Every descriptor is on the free list or in the chain of exactly one     *)
(* outstanding buffer: get_unused_desc never hands out a descriptor the    *)
(* device may still read, and put_unused_desc_chain loses none.            *)
DescriptorsPartitioned ==
  /\ Cardinality(FreeList) = num_unused
  /\ \A i \in Attached : Chain(i) \cap FreeList = {}
  /\ \A i, j \in Attached : i # j => Chain(i) \cap Chain(j) = {}
  /\ Slots = FreeList \cup UNION {Chain(i) : i \in Attached}

(* The rings never overrun: what lies between the driver's place in the    *)
(* used ring and the available index is at most the outstanding buffers,   *)
(* so no entry is overwritten before it is read, across the 16-bit wrap.   *)
NoOverrun ==
  /\ Distance(last_used, avail_idx) = Cardinality(Attached)
  /\ Distance(last_used, used_idx) + Cardinality(working) = Distance(last_used, seen)

(* What the two sides and the free list may rely on after any history of   *)
(* adding, returning in any order, detaching and wrapping.                 *)
RingInv == TypeOK /\ DescriptorsPartitioned /\ NoOverrun

-----------------------------------------------------------------------------
(* What the ring shows of the queue it implements: the buffers that wait   *)
(* for the device are those with a pointer that it has neither taken nor   *)
(* returned, in the order of the available ring from its place on.  (The   *)
(* detach loop takes pointers away and leaves the ring as it is.)          *)
Ring(place, k) == (place + k) % Num

Back == [k \in 1 .. Distance(last_used, used_idx) |-> used[Ring(last_used, k - 1)]]

Pending == Attached \ (working \cup {Back[k] : k \in DOMAIN Back})

Place(i) == CHOOSE k \in Slots : /\ avail[Ring(seen, k)] = i
                                 /\ \A j \in 0 .. k - 1 : avail[Ring(seen, j)] # i

Waiting(k) == CHOOSE i \in Pending :
                Cardinality({j \in Pending : Place(j) < Place(i)}) = k - 1

Submitted == [k \in 1 .. Distance(seen, avail_idx) |-> opaque[Waiting(k)]]
Held      == {opaque[i] : i \in working}
Returned  == [k \in DOMAIN Back |-> opaque[Back[k]]]
Cost      == [m \in Msgs |-> IF \E i \in Attached : opaque[i] = m
                             THEN Links(CHOOSE i \in Attached : opaque[i] = m) + 1
                             ELSE 0]

Queue == INSTANCE BufferQueue WITH
  Room <- Num, submitted <- Submitted, held <- Held, returned <- Returned,
  cost <- Cost, room <- num_unused

(* The ring implements the queue: buffers are offered in order, come back  *)
(* once and under the pointer they were added with, and adding is possible *)
(* as long as descriptors are left (the comments of VirtIORing.c on        *)
(* add_buf, get_buf and detach_unused_buf).                                *)
ImplementsQueue == Queue!Spec
=============================================================================

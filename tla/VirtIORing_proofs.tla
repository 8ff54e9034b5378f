------------------------- MODULE VirtIORing_proofs --------------------------
(***************************************************************************)
(* The split virtqueue of VirtIO/VirtIORing.c, for every size of the queue *)
(* and every range of the indexes that is a multiple of it and at least    *)
(* twice as large, 2^16 with it, and however often they wrap:              *)
(*                                                                         *)
(*   - no wake-up is lost (RingEvents): neither side sleeps over work the  *)
(*     other has announced;                                                *)
(*   - the descriptors are partitioned into the free list and the chains   *)
(*     of the outstanding buffers, and the rings never overrun (SplitRing);*)
(*   - the ring implements the queue of BufferQueue.                       *)
(*                                                                         *)
(* The linked lists are followed by walks, and what an add or a return     *)
(* does to the table is stated of any table (LayoutAdd, LayoutPut), by     *)
(* induction over the length of a walk, which is had from the least number *)
(* of a set.  The rings are windows between two indexes: the invariant of  *)
(* SplitRing is that the entries of the two windows and the heads the      *)
(* device works on are the outstanding buffers, each once, and that the    *)
(* distances between the indexes count them.  The detach loop leaves the   *)
(* available ring behind its index as it is, so during it the waiting      *)
(* buffers are some of the entries of a window, ordered by their ranks.    *)
(***************************************************************************)
EXTENDS SplitRing, RingEvents, FiniteSetTheorems, SequenceTheorems, WellFoundedInduction,
        TLAPS

-----------------------------------------------------------------------------
(* The index arithmetic without remainders.                                *)

(* The numbers the proofs start from.                                      *)
LEMMA Sizes == Num \in Nat /\ Num > 1 /\ Modulus \in Nat /\ Modulus >= 2 * Num
  BY RingIndexesAssumption, SplitRingAssumption

(* A sum of two indexes exceeds the range at most once.                    *)
LEMMA Remainders ==
  /\ \A i \in 0 .. Modulus - 1 : i % Modulus = i
  /\ \A i \in Modulus .. 2 * Modulus - 1 : i % Modulus = i - Modulus
  /\ \A i \in Nat : i % Modulus \in 0 .. Modulus - 1
<1>1. Modulus \in Nat \ {0}
  BY RingIndexesAssumption
<1>2. ASSUME NEW i \in 0 .. Modulus - 1 PROVE i % Modulus = i
  BY <1>1
<1>3. ASSUME NEW i \in Modulus .. 2 * Modulus - 1 PROVE i % Modulus = i - Modulus
  BY <1>1
<1>4. ASSUME NEW i \in Nat PROVE i % Modulus \in 0 .. Modulus - 1
  BY <1>1
<1>5. QED
  BY <1>2, <1>3, <1>4

(* The next index, and the one before.                                     *)
Following(i) == IF i = Modulus - 1 THEN 0 ELSE i + 1

(* An increment of an index.                                               *)
LEMMA PlusOne == \A i \in Index : Plus(i, 1) = Following(i) /\ Following(i) \in Index
  BY Remainders, RingIndexesAssumption DEF Plus, Following, Index

(* How far it is from one index to another.                                *)
Gap(f, t) == IF f <= t THEN t - f ELSE t + Modulus - f

(* What the 16-bit subtraction computes.                                   *)
LEMMA DistanceIsGap ==
  \A f, t \in Index : Distance(f, t) = Gap(f, t) /\ Gap(f, t) \in Index
<1> SUFFICES ASSUME NEW f \in Index, NEW t \in Index
             PROVE  Distance(f, t) = Gap(f, t) /\ Gap(f, t) \in Index
  OBVIOUS
<1>1. Modulus \in Nat \ {0} /\ f \in 0 .. Modulus - 1 /\ t \in 0 .. Modulus - 1
  BY RingIndexesAssumption DEF Index
<1>2. CASE f <= t
  <2>1. t + Modulus - f \in Modulus .. 2 * Modulus - 1
    BY <1>1, <1>2
  <2>2. (t + Modulus - f) % Modulus = t - f
    BY <1>1, <2>1, Remainders
  <2>3. QED
    BY <1>1, <1>2, <2>2 DEF Distance, Gap, Index
<1>3. CASE ~(f <= t)
  <2>1. t + Modulus - f \in 0 .. Modulus - 1
    BY <1>1, <1>3
  <2>2. (t + Modulus - f) % Modulus = t + Modulus - f
    BY <1>1, <2>1, Remainders
  <2>3. QED
    BY <1>1, <1>3, <2>1, <2>2 DEF Distance, Gap, Index
<1>4. QED
  BY <1>2, <1>3

(* Moving either end of a gap by one (the 16-bit increments and the        *)
(* decrement of the detach loop).                                          *)
LEMMA GapMoves ==
  ASSUME NEW p \in Index, NEW q \in Index
  PROVE  /\ Gap(p, q) \in Index /\ Gap(p, p) = 0
         /\ Gap(p, q) < Modulus - 1 => Gap(p, (q + 1) % Modulus) = Gap(p, q) + 1
         /\ p # q => /\ Gap(p, q) > 0
                     /\ Gap((p + 1) % Modulus, q) = Gap(p, q) - 1
                     /\ Gap(p, (q + Modulus - 1) % Modulus) = Gap(p, q) - 1
         /\ (p + 1) % Modulus \in Index /\ (q + Modulus - 1) % Modulus \in Index
<1>1. /\ (p + 1) % Modulus = Following(p) /\ (q + 1) % Modulus = Following(q)
      /\ Following(p) \in Index /\ Following(q) \in Index
  BY PlusOne DEF Plus
<1>2. /\ (q + Modulus - 1) % Modulus = IF q = 0 THEN Modulus - 1 ELSE q - 1
      /\ (q + Modulus - 1) % Modulus \in Index
  <2>1. CASE q = 0
    <3>1. q + Modulus - 1 = Modulus - 1 /\ Modulus - 1 \in 0 .. Modulus - 1
      BY <2>1, Sizes
    <3>2. (q + Modulus - 1) % Modulus = Modulus - 1
      BY <3>1, Remainders
    <3>3. QED
      BY <2>1, <3>1, <3>2 DEF Index
  <2>2. CASE q # 0
    <3>1. /\ q + Modulus - 1 \in Modulus .. 2 * Modulus - 1 /\ (q + Modulus - 1) - Modulus = q - 1
          /\ q - 1 \in Index
      BY <2>2, Sizes DEF Index
    <3>2. (q + Modulus - 1) % Modulus = (q + Modulus - 1) - Modulus
      BY <3>1, Remainders
    <3>3. QED
      BY <2>2, <3>1, <3>2
  <2>3. QED
    BY <2>1, <2>2
<1>3. QED
  BY <1>1, <1>2, Sizes DEF Gap, Following, Index

(* The index n buffers ago.                                                *)
LEMMA GapBack ==
  ASSUME NEW t \in Index, NEW n \in Index
  PROVE  Distance(n, t) \in Index /\ Gap(Distance(n, t), t) = n
<1>1. Distance(n, t) = Gap(n, t) /\ Gap(n, t) \in Index
  BY DistanceIsGap
<1>2. Gap(Gap(n, t), t) = n
  BY RingIndexesAssumption DEF Gap, Index
<1>3. QED
  BY <1>1, <1>2

(* Passing an event index that lies d buffers back is noticed when more    *)
(* than d buffers were added (vring_need_event).                           *)
LEMMA NeedEventGap ==
  ASSUME NEW event \in Index, NEW new \in Index, NEW n \in Index,
         event # new, Gap(event, new) <= n
  PROVE  NeedEvent(event, new, Distance(n, new))
<1>1. Plus(event, 1) = Following(event) /\ Following(event) \in Index
  BY PlusOne
<1>2. Distance(n, new) \in Index /\ Gap(Distance(n, new), new) = n
  BY GapBack
<1>3. Distance(Distance(n, new), new) = n
  BY <1>2, DistanceIsGap
<1>4. Distance(Following(event), new) = Gap(Following(event), new)
  BY <1>1, DistanceIsGap
<1>5. Gap(Following(event), new) = Gap(event, new) - 1 /\ Gap(event, new) \in Nat
  BY RingIndexesAssumption DEF Gap, Following, Index
<1>6. QED
  BY <1>1, <1>3, <1>4, <1>5 DEF NeedEvent, Index

-----------------------------------------------------------------------------
(* The inductive invariant.                                                *)
Sleepers == [at : {"enabling", "asleep"}, mode : Modes, bufs : Nat]

EventsTypes ==
  /\ avail_idx \in Index /\ last_used \in Index /\ used_event \in Index
  /\ seen \in Index /\ used_idx \in Index /\ avail_event \in Index
  /\ added \in 0 .. MaxAdded
  /\ event_idx \in BOOLEAN /\ master_quiet \in BOOLEAN /\ quiet \in BOOLEAN
  /\ no_notify \in BOOLEAN /\ announcing \in BOOLEAN /\ bell \in BOOLEAN /\ irq \in BOOLEAN
  /\ driver = Running \/ driver \in Sleepers
  /\ device \in {"running", "arming", "asleep"}

(* The four places follow each other round the ring.                       *)
Places ==
  /\ Gap(last_used, used_idx) + Gap(used_idx, seen) + Gap(seen, avail_idx)
       = Gap(last_used, avail_idx)
  /\ Gap(last_used, avail_idx) <= Num

(* What the device asked for before it looked again, and what was added    *)
(* since the last kick once it sleeps.                                     *)
Kicks ==
  /\ device \in {"arming", "asleep"} => ~no_notify /\ avail_event = seen
  /\ device = "asleep" /\ ~bell => Gap(seen, avail_idx) <= added

(* What the driver asked for before it looked again, and what the device   *)
(* is announcing while it sleeps.                                          *)
WaitsFor(mode) == driver \in Sleepers /\ driver.mode = mode

Interrupts ==
  /\ ~event_idx => quiet = master_quiet
  /\ driver \in Sleepers => ~master_quiet
  /\ WaitsFor("now") => used_event = last_used
  /\ WaitsFor("now") /\ driver.at = "asleep" /\ ~irq =>
       \/ used_idx = last_used
       \/ announcing /\ used_idx = Following(last_used)

EventsIInv == EventsTypes /\ Places /\ Kicks /\ Interrupts

(* The initial state has it.                                               *)
LEMMA EventsInitInv == ASSUME EventsInit PROVE EventsIInv
<1>1. 0 \in Index /\ Gap(0, 0) = 0
  BY RingIndexesAssumption DEF Index, Gap
<1>2. EventsTypes
  <2>1. 0 \in 0 .. MaxAdded
    BY RingIndexesAssumption, RingEventsAssumption
  <2>2. QED
    BY <1>1, <2>1, Zenon DEF EventsInit, EventsTypes
<1>3. Places /\ Kicks
  BY <1>1, RingIndexesAssumption DEF EventsInit, Places, Kicks
<1>4. Interrupts
  BY DEF EventsInit, Interrupts, WaitsFor, Sleepers, Running
<1>5. QED
  BY <1>2, <1>3, <1>4 DEF EventsIInv

(* A driver that runs does not wait.                                       *)
LEMMA RunningWaitsNot == Running \notin Sleepers
<1>1. Running.at = "running" /\ \A w \in Sleepers : w.at # "running"
  BY DEF Running, Sleepers
<1>2. QED
  BY <1>1

-----------------------------------------------------------------------------
(* The steps of the driver.                                                *)
LEMMA AddIndexStep == ASSUME EventsIInv, AddIndex PROVE EventsIInv'
<1>1. /\ avail_idx' = Following(avail_idx) /\ avail_idx' \in Index
      /\ Gap(last_used, avail_idx) < Num /\ added' = added + 1 /\ added < MaxAdded
  BY PlusOne, DistanceIsGap DEF EventsIInv, EventsTypes, AddIndex, deviceEnd
<1>2. EventsTypes'
  BY <1>1, RingIndexesAssumption, RingEventsAssumption
  DEF EventsIInv, EventsTypes, AddIndex, deviceEnd
<1>3. Places' /\ Gap(seen, avail_idx)' = Gap(seen, avail_idx) + 1
  BY <1>1, RingIndexesAssumption
  DEF EventsIInv, EventsTypes, Places, AddIndex, deviceEnd, Following, Gap, Index
<1>4. Kicks'
  BY <1>1, <1>3, RingIndexesAssumption
  DEF EventsIInv, EventsTypes, Kicks, AddIndex, deviceEnd, Gap, Index
<1>5. Interrupts'
  BY DEF EventsIInv, Interrupts, WaitsFor, AddIndex, deviceEnd
<1>6. QED
  BY <1>2, <1>3, <1>4, <1>5 DEF EventsIInv

(* A kick is suppressed only when the device will not sleep over a buffer. *)
LEMMA KickIsNeeded ==
  ASSUME EventsIInv, device = "asleep", ~bell, seen # avail_idx
  PROVE  KickNeeded
<1>1. CASE event_idx
  <2>1. avail_event = seen /\ Gap(seen, avail_idx) <= added
    BY DEF EventsIInv, Kicks
  <2>2. CASE added >= Modulus
    BY <1>1, <2>2 DEF KickNeeded
  <2>3. CASE added < Modulus
    <3>1. added \in 0 .. Modulus - 1 /\ added \in Index
      BY <2>3, RingIndexesAssumption, RingEventsAssumption DEF EventsIInv, EventsTypes, Index
    <3>2. added % Modulus = added
      BY <3>1, Remainders
    <3>3. NeedEvent(avail_event, avail_idx, Distance(added, avail_idx))
      BY <2>1, <3>1, NeedEventGap DEF EventsIInv, EventsTypes
    <3>4. QED
      BY <1>1, <3>2, <3>3 DEF KickNeeded
  <2>4. QED
    BY <2>2, <2>3, RingIndexesAssumption, RingEventsAssumption DEF EventsIInv, EventsTypes
<1>2. CASE ~event_idx
  BY <1>2 DEF EventsIInv, Kicks, KickNeeded
<1>3. QED
  BY <1>1, <1>2

(* virtqueue_kick.                                                         *)
LEMMA KickStep == ASSUME EventsIInv, Kick \/ KickAlways PROVE EventsIInv'
<1>1. /\ added' = 0
      /\ UNCHANGED <<event_idx, avail_idx, last_used, master_quiet, quiet, used_event, driver,
                     seen, used_idx, no_notify, avail_event, announcing, device, irq>>
  BY DEF Kick, KickAlways, deviceEnd
<1>2. bell' \in BOOLEAN
  BY DEF EventsIInv, EventsTypes, Kick, KickAlways, KickNeeded, NeedEvent
<1>3. bell => bell'
  BY DEF Kick, KickAlways
<1>4. EventsTypes' /\ Places'
  BY <1>1, <1>2, RingIndexesAssumption, RingEventsAssumption DEF EventsIInv, EventsTypes, Places
<1>5. device = "asleep" /\ ~bell' => seen = avail_idx
  BY <1>3, KickIsNeeded DEF Kick, KickAlways
<1>6. Kicks'
  BY <1>1, <1>3, <1>5, RingIndexesAssumption DEF EventsIInv, EventsTypes, Kicks, Gap, Index
<1>7. Interrupts'
  BY <1>1 DEF EventsIInv, Interrupts, WaitsFor
<1>8. QED
  BY <1>4, <1>6, <1>7 DEF EventsIInv

(* virtqueue_get_buf_split.                                                *)
LEMMA GetIndexStep == ASSUME EventsIInv, GetIndex PROVE EventsIInv'
<1>1. last_used' = Following(last_used) /\ last_used' \in Index
  BY PlusOne DEF EventsIInv, EventsTypes, GetIndex
<1>2. EventsTypes'
  BY <1>1 DEF EventsIInv, EventsTypes, GetIndex, deviceEnd
<1>3. Places'
  BY <1>1, RingIndexesAssumption
  DEF EventsIInv, EventsTypes, Places, GetIndex, deviceEnd, Following, Gap, Index
<1>4. Kicks'
  BY DEF EventsIInv, Kicks, GetIndex, deviceEnd
<1>5. Interrupts'
  BY RunningWaitsNot DEF EventsIInv, Interrupts, WaitsFor, GetIndex, deviceEnd
<1>6. QED
  BY <1>2, <1>3, <1>4, <1>5 DEF EventsIInv

(* virtqueue_disable_cb_split.                                             *)
LEMMA DisableCbStep == ASSUME EventsIInv, DisableCb PROVE EventsIInv'
<1>1. EventsTypes'
  BY DEF EventsIInv, EventsTypes, DisableCb, SetQuiet, deviceEnd
<1>2. Places' /\ Kicks'
  BY DEF EventsIInv, Places, Kicks, DisableCb, deviceEnd
<1>3. Interrupts'
  BY RunningWaitsNot
  DEF EventsIInv, EventsTypes, Interrupts, WaitsFor, DisableCb, SetQuiet, deviceEnd
<1>4. QED
  BY <1>1, <1>2, <1>3 DEF EventsIInv

(* The threshold is a number, and 0 for enable_cb.                         *)
LEMMA EnableCbStep ==
  ASSUME EventsIInv, NEW mode \in Modes, EnableCb(mode) PROVE EventsIInv'
<1> DEFINE bufs == IF mode = "now" THEN 0 ELSE Threshold
<1>1. Threshold \in Nat
  <2>1. Distance(last_used, avail_idx) \in Nat
    BY DistanceIsGap DEF EventsIInv, EventsTypes, Index
  <2>2. QED
    BY <2>1 DEF Threshold
<1>2. bufs \in Nat
  BY <1>1
<1>3. /\ driver' = At("enabling", mode, bufs) /\ used_event' = Plus(last_used, bufs)
      /\ SetQuiet(FALSE) /\ driver = Running
      /\ UNCHANGED <<event_idx, avail_idx, added, last_used, seen, used_idx, no_notify,
                     avail_event, announcing, device, bell, irq>>
  BY DEF EnableCb, deviceEnd
<1> HIDE DEF bufs
<1>4. driver' \in Sleepers /\ driver'.at = "enabling" /\ driver'.mode = mode
  BY <1>2, <1>3 DEF At, Sleepers
<1>5. used_event' \in Index
  <2>1. last_used + bufs \in Nat
    BY <1>2 DEF EventsIInv, EventsTypes, Index
  <2>2. QED
    BY <1>3, <2>1, Remainders DEF Plus, Index
<1>6. mode = "now" => used_event' = last_used
  <2>1. last_used \in 0 .. Modulus - 1 /\ last_used + 0 = last_used
    BY RingIndexesAssumption DEF EventsIInv, EventsTypes, Index
  <2>2. QED
    BY <1>3, <2>1, Remainders DEF Plus, bufs
<1>7. EventsTypes'
  BY <1>3, <1>4, <1>5 DEF EventsIInv, EventsTypes, SetQuiet
<1>8. Places' /\ Kicks'
  BY <1>3 DEF EventsIInv, Places, Kicks
<1>9. Interrupts'
  BY <1>3, <1>4, <1>6 DEF EventsIInv, EventsTypes, Interrupts, WaitsFor, SetQuiet
<1>10. QED
  BY <1>7, <1>8, <1>9 DEF EventsIInv

(* The driver sleeps only when it saw nothing after it had asked.          *)
LEMMA EnabledStep == ASSUME EventsIInv, Enabled PROVE EventsIInv'
<1>1. UNCHANGED <<event_idx, avail_idx, added, last_used, master_quiet, quiet, used_event,
                  seen, used_idx, no_notify, avail_event, announcing, device, bell, irq>>
  BY DEF Enabled, driverEnd, deviceEnd
<1>2. driver \in Sleepers
  BY DEF EventsIInv, EventsTypes, Enabled, Running
<1>3. \/ driver' = Running
      \/ /\ driver' = At("asleep", driver.mode, driver.bufs)
         /\ ~Satisfied(driver.mode, driver.bufs)
  BY DEF Enabled
<1>4. ASSUME driver' # Running
      PROVE  /\ driver' \in Sleepers /\ driver'.mode = driver.mode
             /\ driver.mode = "now" => last_used = used_idx
  BY <1>2, <1>3, <1>4 DEF At, Sleepers, Satisfied
<1>5. EventsTypes'
  BY <1>1, <1>4 DEF EventsIInv, EventsTypes
<1>6. Places' /\ Kicks'
  BY <1>1 DEF EventsIInv, Places, Kicks
<1>7. Interrupts'
  BY <1>1, <1>2, <1>4, RunningWaitsNot DEF EventsIInv, Interrupts, WaitsFor
<1>8. QED
  BY <1>5, <1>6, <1>7 DEF EventsIInv

(* The interrupt wakes a driver that waits.                                *)
LEMMA InterruptStep == ASSUME EventsIInv, Interrupt PROVE EventsIInv'
<1>1. EventsTypes'
  BY DEF EventsIInv, EventsTypes, Interrupt, driverEnd, deviceEnd
<1>2. Places' /\ Kicks'
  BY DEF EventsIInv, Places, Kicks, Interrupt, driverEnd, deviceEnd
<1>3. Interrupts'
  BY RunningWaitsNot DEF EventsIInv, Interrupts, WaitsFor, Interrupt, driverEnd, deviceEnd
<1>4. QED
  BY <1>1, <1>2, <1>3 DEF EventsIInv

-----------------------------------------------------------------------------
(* The steps of the device.                                                *)
LEMMA DeviceWakesStep == ASSUME EventsIInv, DeviceWakes PROVE EventsIInv'
<1>1. EventsTypes'
  BY DEF EventsIInv, EventsTypes, DeviceWakes, driverEnd
<1>2. Places' /\ Kicks' /\ Interrupts'
  BY DEF EventsIInv, Places, Kicks, Interrupts, WaitsFor, DeviceWakes, driverEnd
<1>3. QED
  BY <1>1, <1>2 DEF EventsIInv

(* The device takes a buffer.                                              *)
LEMMA DeviceSeesStep == ASSUME EventsIInv, DeviceSees PROVE EventsIInv'
<1>1. seen' = Following(seen) /\ seen' \in Index
  BY PlusOne DEF EventsIInv, EventsTypes, DeviceSees
<1>2. EventsTypes'
  BY <1>1 DEF EventsIInv, EventsTypes, DeviceSees, driverEnd
<1>3. Places'
  BY <1>1, RingIndexesAssumption
  DEF EventsIInv, EventsTypes, Places, DeviceSees, driverEnd, Following, Gap, Index
<1>4. Kicks' /\ Interrupts'
  BY DEF EventsIInv, Kicks, Interrupts, WaitsFor, DeviceSees, driverEnd
<1>5. QED
  BY <1>2, <1>3, <1>4 DEF EventsIInv

(* The device asks for a kick before it looks again.                       *)
LEMMA DeviceArmStep == ASSUME EventsIInv, DeviceArm PROVE EventsIInv'
<1>1. EventsTypes'
  BY DEF EventsIInv, EventsTypes, DeviceArm, driverEnd
<1>2. Places' /\ Kicks' /\ Interrupts'
  BY DEF EventsIInv, Places, Kicks, Interrupts, WaitsFor, DeviceArm, driverEnd
<1>3. QED
  BY <1>1, <1>2 DEF EventsIInv

(* It sleeps only over an empty ring.                                      *)
LEMMA DeviceSleepStep == ASSUME EventsIInv, DeviceSleep PROVE EventsIInv'
<1>1. EventsTypes'
  BY DEF EventsIInv, EventsTypes, DeviceSleep, driverEnd, deviceEnd
<1>2. Places' /\ Interrupts'
  BY DEF EventsIInv, Places, Interrupts, WaitsFor, DeviceSleep, driverEnd, deviceEnd
<1>3. Kicks'
  BY RingIndexesAssumption
  DEF EventsIInv, EventsTypes, Kicks, DeviceSleep, driverEnd, deviceEnd, Gap, Index
<1>4. QED
  BY <1>1, <1>2, <1>3 DEF EventsIInv

(* What it returns past a driver that sleeps it goes on to announce.       *)
LEMMA DeviceReturnStep == ASSUME EventsIInv, DeviceReturn PROVE EventsIInv'
<1>1. used_idx' = Following(used_idx) /\ used_idx' \in Index
  BY PlusOne DEF EventsIInv, EventsTypes, DeviceReturn
<1>2. EventsTypes'
  BY <1>1 DEF EventsIInv, EventsTypes, DeviceReturn, driverEnd
<1>3. Places'
  BY <1>1, RingIndexesAssumption
  DEF EventsIInv, EventsTypes, Places, DeviceReturn, driverEnd, Following, Gap, Index
<1>4. Kicks' /\ Interrupts'
  BY <1>1 DEF EventsIInv, Kicks, Interrupts, WaitsFor, DeviceReturn, driverEnd
<1>5. QED
  BY <1>2, <1>3, <1>4 DEF EventsIInv

(* The announcement of a buffer past such a driver is an interrupt.        *)
LEMMA DeviceAnnounceStep == ASSUME EventsIInv, DeviceAnnounce PROVE EventsIInv'
<1> DEFINE need == IF event_idx
                   THEN NeedEvent(used_event, used_idx, Distance(1, used_idx))
                   ELSE ~quiet
<1>1. /\ announcing' = FALSE /\ irq' = (irq \/ need)
      /\ UNCHANGED <<event_idx, avail_idx, added, last_used, master_quiet, quiet, used_event,
                     driver, seen, used_idx, no_notify, avail_event, device, bell>>
  BY DEF DeviceAnnounce, driverEnd
<1>2. irq' \in BOOLEAN
  BY <1>1
<1>3. ASSUME WaitsFor("now"), used_idx = Following(last_used) PROVE need
  <2>1. CASE event_idx
    <3>1. /\ used_event \in Index /\ used_idx \in Index /\ 1 \in Index
          /\ used_event # used_idx /\ Gap(used_event, used_idx) <= 1
      BY <1>3, RingIndexesAssumption DEF EventsIInv, EventsTypes, Interrupts, Following, Gap, Index
    <3>2. QED
      BY <2>1, <3>1, NeedEventGap
  <2>2. CASE ~event_idx
    BY <1>3, <2>2 DEF EventsIInv, EventsTypes, Interrupts, WaitsFor
  <2>3. QED
    BY <2>1, <2>2 DEF EventsIInv, EventsTypes
<1> HIDE DEF need
<1>4. EventsTypes'
  BY <1>1, <1>2 DEF EventsIInv, EventsTypes
<1>5. Places' /\ Kicks'
  BY <1>1 DEF EventsIInv, Places, Kicks
<1>6. Interrupts'
  BY <1>1, <1>3 DEF EventsIInv, Interrupts, WaitsFor
<1>7. QED
  BY <1>4, <1>5, <1>6 DEF EventsIInv

-----------------------------------------------------------------------------

(* Every step keeps the invariant.                                         *)
LEMMA EventsStepInv == ASSUME EventsIInv, [EventsNext]_eventsVars PROVE EventsIInv'
<1>1. CASE UNCHANGED eventsVars
  <2>1. UNCHANGED <<event_idx, avail_idx, added, last_used, master_quiet, quiet, used_event,
                    driver, seen, used_idx, no_notify, avail_event, announcing, device, bell,
                    irq>>
    BY <1>1 DEF eventsVars, driverEnd, deviceEnd
  <2>2. QED
    BY <2>1 DEF EventsIInv, EventsTypes, Places, Kicks, Interrupts, WaitsFor
<1>2. QED
  BY <1>1, AddIndexStep, KickStep, GetIndexStep, DisableCbStep, EnableCbStep, EnabledStep,
     InterruptStep, DeviceWakesStep, DeviceSeesStep, DeviceArmStep, DeviceSleepStep,
     DeviceReturnStep, DeviceAnnounceStep
  DEF EventsNext

(* It implies that no wake-up is lost.                                     *)
LEMMA EventsInvImplies == ASSUME EventsIInv PROVE NoLostWakeup
<1>1. EventsTypeOK
  <2>1. /\ {avail_idx, last_used, used_event, seen, used_idx, avail_event} \subseteq Index
        /\ {event_idx, master_quiet, quiet, no_notify, announcing, bell, irq}
             \subseteq BOOLEAN
        /\ driver.at \in {"running", "enabling", "asleep"}
    BY DEF EventsIInv, EventsTypes, Running, Sleepers
  <2>2. /\ Distance(last_used, used_idx) + Distance(used_idx, seen)
             + Distance(seen, avail_idx) = Distance(last_used, avail_idx)
        /\ Distance(last_used, avail_idx) <= Num
    BY DistanceIsGap DEF EventsIInv, EventsTypes, Places
  <2>3. QED
    BY <2>1, <2>2 DEF EventsIInv, EventsTypes, EventsTypeOK
<1>2. NoLostKick
  BY RingIndexesAssumption DEF EventsIInv, EventsTypes, Kicks, NoLostKick, Gap, Index
<1>3. NoLostInterrupt
  <2>1. driver.at = "asleep" => driver \in Sleepers
    BY DEF EventsIInv, EventsTypes, Running
  <2>2. QED
    BY <2>1 DEF EventsIInv, EventsTypes, Interrupts, WaitsFor, NoLostInterrupt
<1>4. QED
  BY <1>1, <1>2, <1>3 DEF NoLostWakeup

(* Neither side of a split virtqueue sleeps over work that the other has   *)
(* announced: what virtqueue_kick_prepare suppresses the device sees when  *)
(* it looks again, a whole turn of the index between two kicks included,   *)
(* and what virtqueue_enable_cb did not see is interrupted for.            *)
THEOREM NoWakeupIsLost == EventsSpec => []NoLostWakeup
<1>1. EventsInit => EventsIInv
  BY EventsInitInv
<1>2. EventsIInv /\ [EventsNext]_eventsVars => EventsIInv'
  BY EventsStepInv
<1>3. EventsIInv => NoLostWakeup
  BY EventsInvImplies
<1>4. QED
  BY <1>1, <1>2, <1>3, PTL DEF EventsSpec

-----------------------------------------------------------------------------
(* Numbers and walks.                                                      *)

(* A set of numbers has a least element: the interval up to it is minimal  *)
(* among the finite sets.                                                  *)
LEMMA HasLeast ==
  ASSUME NEW S, S \subseteq Nat, S # {}
  PROVE  \E p \in S : \A q \in S : p <= q
<1> DEFINE T == {1 .. p : p \in S}
<1>1. T \subseteq FiniteSubsetsOf(Nat) /\ T # {}
  <2>1. \A p \in S : IsFiniteSet(1 .. p) /\ 1 .. p \subseteq Nat
    BY FS_Interval
  <2>2. QED
    BY <2>1, Zenon DEF FiniteSubsetsOf
<1>2. IsWellFoundedOn(StrictSubsetOrdering(Nat), FiniteSubsetsOf(Nat))
  BY FS_StrictSubsetOrderingWellFounded
<1>3. PICK x \in T : \A y \in T : ~(<<y, x>> \in StrictSubsetOrdering(Nat))
  <2> HIDE DEF T
  <2> QED
    BY <1>1, <1>2, WFMin, Zenon
<1>4. PICK p \in S : x = 1 .. p
  OBVIOUS
<1>5. ASSUME NEW q \in S, q < p PROVE FALSE
  <2>1. 1 .. q \subseteq 1 .. p /\ p \in 1 .. p /\ p \notin 1 .. q
    BY <1>5
  <2>2. 1 .. q \in SUBSET Nat /\ 1 .. p \in SUBSET Nat /\ 1 .. q # 1 .. p
    BY <2>1
  <2>3. <<1 .. q, 1 .. p>> \in StrictSubsetOrdering(Nat)
    BY <2>1, <2>2 DEF StrictSubsetOrdering
  <2>4. QED
    BY <1>3, <1>4, <1>5, <2>3, Zenon
<1>6. QED
  BY <1>5

(* Induction, over a set instead of a predicate.                           *)
LEMMA Induction ==
  ASSUME NEW S, 0 \in S, \A n \in S \cap Nat : n + 1 \in S
  PROVE  Nat \subseteq S
<1> SUFFICES ASSUME Nat \ S # {} PROVE FALSE
  OBVIOUS
<1>1. PICK p \in Nat \ S : \A q \in Nat \ S : p <= q
  BY HasLeast
<1>2. p - 1 \in S \cap Nat
  BY <1>1
<1>3. QED
  BY <1>1, <1>2

(* There are as many slots as the queue is long.                           *)
LEMMA SlotsFinite == IsFiniteSet(Slots) /\ Cardinality(Slots) = Num
<1>1. /\ IsFiniteSet(0 .. Num - 1)
      /\ Cardinality(0 .. Num - 1) = IF 0 > Num - 1 THEN 0 ELSE Num - 1 - 0 + 1
  BY FS_Interval, Sizes
<1>2. QED
  BY <1>1, Sizes DEF Slots

(* A table of links: the next fields, or the entries of a ring.            *)
Tables == [Slots -> Slots]

WalkOf(f, l, i, n) == f = [k \in 0 .. n |-> IF k = 0 THEN i ELSE l[f[k - 1]]]

(* The walk along the links l from i.                                      *)
Walk(l, i) == CHOOSE f : WalkOf(f, l, i, Num)

(* The recursion has a solution, of any length.                            *)
LEMMA WalkExists ==
  ASSUME NEW l, NEW i, NEW n \in Nat
  PROVE  \E f : WalkOf(f, l, i, n)
<1> DEFINE S == {m \in Nat : \E f : WalkOf(f, l, i, m)}
<1>1. 0 \in S
  <2> DEFINE f == [k \in 0 .. 0 |-> i]
  <2>1. WalkOf(f, l, i, 0)
    BY DEF WalkOf
  <2>2. QED
    BY <2>1
<1>2. ASSUME NEW m \in S \cap Nat PROVE m + 1 \in S
  <2>1. PICK f : WalkOf(f, l, i, m)
    OBVIOUS
  <2> DEFINE g == [k \in 0 .. m + 1 |-> IF k = m + 1 THEN l[f[m]] ELSE f[k]]
  <2>2. ASSUME NEW k \in 0 .. m + 1
        PROVE  g[k] = IF k = 0 THEN i ELSE l[g[k - 1]]
    <3>1. CASE k = 0
      BY <2>1, <3>1 DEF WalkOf
    <3>2. CASE k \in 1 .. m
      <4>1. \A j \in 0 .. m : f[j] = IF j = 0 THEN i ELSE l[f[j - 1]]
        BY <2>1, Zenon DEF WalkOf
      <4>2. k \in 0 .. m /\ k # 0 /\ g[k] = f[k] /\ g[k - 1] = f[k - 1]
        BY <3>2
      <4> HIDE DEF g
      <4>3. QED
        BY <4>1, <4>2
    <3>3. CASE k = m + 1
      <4>1. g[k] = l[f[m]] /\ g[k - 1] = f[m] /\ k # 0
        BY <3>3
      <4> HIDE DEF g
      <4>2. QED
        BY <4>1
    <3>4. QED
      BY <3>1, <3>2, <3>3
  <2>3. g = [k \in 0 .. m + 1 |-> g[k]]
    OBVIOUS
  <2> HIDE DEF g
  <2>4. WalkOf(g, l, i, m + 1)
    BY <2>2, <2>3 DEF WalkOf
  <2>5. QED
    BY <2>4
<1>3. Nat \subseteq S
  <2> HIDE DEF S
  <2>1. QED
    BY <1>1, <1>2, Induction
<1>4. QED
  BY <1>3

(* The walk follows the links and stays in the table.                      *)
LEMMA WalkIs ==
  ASSUME NEW l \in Tables, NEW i \in Slots
  PROVE  /\ Walk(l, i)[0] = i
         /\ \A k \in 1 .. Num : Walk(l, i)[k] = l[Walk(l, i)[k - 1]]
         /\ \A k \in 0 .. Num : Walk(l, i)[k] \in Slots
<1> DEFINE w == Walk(l, i)
<1>1. WalkOf(w, l, i, Num)
  BY WalkExists, Sizes, Zenon DEF Walk
<1> HIDE DEF w
<1>2. w[0] = i /\ \A k \in 1 .. Num : w[k] = l[w[k - 1]]
  <2>1. \A k \in 0 .. Num : w[k] = IF k = 0 THEN i ELSE l[w[k - 1]]
    BY <1>1, Zenon DEF WalkOf
  <2>2. QED
    BY <2>1, Sizes
<1> DEFINE S == {k \in Nat : k <= Num => w[k] \in Slots}
<1>3. 0 \in S
  BY <1>2
<1>4. ASSUME NEW k \in S \cap Nat PROVE k + 1 \in S
  <2>1. ASSUME k + 1 <= Num PROVE w[k + 1] \in Slots
    <3>1. k <= Num /\ k + 1 \in 1 .. Num /\ (k + 1) - 1 = k
      BY <2>1, Sizes
    <3>2. w[k + 1] = l[w[k]] /\ w[k] \in Slots
      BY <1>2, <3>1
    <3>3. QED
      BY <3>2 DEF Tables
  <2>2. QED
    BY <2>1
<1>5. Nat \subseteq S
  <2> HIDE DEF S
  <2>1. QED
    BY <1>3, <1>4, Induction
<1>6. \A k \in 0 .. Num : w[k] \in Slots
  BY <1>5, Sizes
<1>7. QED
  BY <1>2, <1>6 DEF w

(* Links that are changed behind a walk do not matter to it.               *)
LEMMA WalkSame ==
  ASSUME NEW l \in Tables, NEW m \in Tables, NEW i \in Slots, NEW n \in 0 .. Num,
         \A k \in 0 .. n - 1 : m[Walk(l, i)[k]] = l[Walk(l, i)[k]]
  PROVE  \A k \in 0 .. n : Walk(m, i)[k] = Walk(l, i)[k]
<1> DEFINE S == {k \in Nat : k <= n => Walk(m, i)[k] = Walk(l, i)[k]}
<1>1. 0 \in S
  BY WalkIs
<1>2. ASSUME NEW k \in S \cap Nat PROVE k + 1 \in S
  <2>1. ASSUME k + 1 <= n PROVE Walk(m, i)[k + 1] = Walk(l, i)[k + 1]
    <3>1. k <= n /\ k \in 0 .. n - 1 /\ k + 1 \in 1 .. Num /\ (k + 1) - 1 = k
      BY <2>1, Sizes
    <3>2. Walk(m, i)[k + 1] = m[Walk(m, i)[k]] /\ Walk(l, i)[k + 1] = l[Walk(l, i)[k]]
      BY <3>1, WalkIs
    <3>3. QED
      BY <3>1, <3>2
  <2>2. QED
    BY <2>1
<1>3. Nat \subseteq S
  <2> HIDE DEF S
  <2>1. QED
    BY <1>1, <1>2, Induction
<1>4. QED
  BY <1>3

(* A walk goes on where another one is.                                    *)
LEMMA WalkOn ==
  ASSUME NEW l \in Tables, NEW i \in Slots, NEW j \in Nat, NEW k \in Nat, j + k <= Num
  PROVE  Walk(l, Walk(l, i)[j])[k] = Walk(l, i)[j + k]
<1> DEFINE S == {n \in Nat : j + n <= Num => Walk(l, Walk(l, i)[j])[n] = Walk(l, i)[j + n]}
<1>0. j \in 0 .. Num /\ Walk(l, i)[j] \in Slots
  BY WalkIs, Sizes
<1>1. 0 \in S
  BY <1>0, WalkIs
<1>2. ASSUME NEW n \in S \cap Nat PROVE n + 1 \in S
  <2>1. ASSUME j + (n + 1) <= Num
        PROVE  Walk(l, Walk(l, i)[j])[n + 1] = Walk(l, i)[j + (n + 1)]
    <3>1. /\ n + 1 \in 1 .. Num /\ (n + 1) - 1 = n /\ j + n <= Num
          /\ j + (n + 1) \in 1 .. Num /\ (j + (n + 1)) - 1 = j + n
      BY <2>1, Sizes
    <3>2. Walk(l, Walk(l, i)[j])[n + 1] = l[Walk(l, Walk(l, i)[j])[n]]
      BY <1>0, <3>1, WalkIs
    <3>3. Walk(l, i)[j + (n + 1)] = l[Walk(l, i)[j + n]]
      BY <3>1, WalkIs
    <3>4. QED
      BY <3>1, <3>2, <3>3
  <2>2. QED
    BY <2>1
<1>3. Nat \subseteq S
  <2> HIDE DEF S
  <2>1. QED
    BY <1>1, <1>2, Induction
<1>4. QED
  BY <1>3

(* T is enumerated by f without repetition.                                *)
Enumerates(f, n, T) == /\ T = {f[k] : k \in 0 .. n - 1}
                       /\ \A j, k \in 0 .. n - 1 : f[j] = f[k] => j = k

(* Then it has n elements.                                                 *)
LEMMA ImageCount ==
  ASSUME NEW n \in Nat, NEW f, NEW T, Enumerates(f, n, T)
  PROVE  IsFiniteSet(T) /\ Cardinality(T) = n
<1> DEFINE g == [k \in 0 .. n - 1 |-> f[k]]
<1>1. g \in [0 .. n - 1 -> T] /\ \A k \in 0 .. n - 1 : g[k] = f[k]
  BY DEF Enumerates
<1>2. \A t \in T : \E k \in 0 .. n - 1 : f[k] = t
  BY DEF Enumerates
<1> HIDE DEF g
<1>3. g \in Bijection(0 .. n - 1, T)
  BY <1>1, <1>2 DEF Enumerates, Bijection, Injection, Surjection, IsInjective
<1>4. ExistsBijection(0 .. n - 1, T)
  BY <1>3, Zenon DEF ExistsBijection
<1>5. IsFiniteSet(0 .. n - 1) /\ Cardinality(0 .. n - 1) = n
  BY FS_Interval
<1>6. QED
  BY <1>4, <1>5, FS_Bijection

(* A table of flags: whether the chain goes on.                            *)
Flags == [Slots -> BOOLEAN]

(* The first n descriptors of a walk, and that they are different.         *)
Piece(l, i, n) == {Walk(l, i)[k] : k \in 0 .. n - 1}
Apart(l, i, n) == \A j, k \in 0 .. n - 1 : Walk(l, i)[j] = Walk(l, i)[k] => j = k

(* A chain ends after k links, at the first descriptor without the flag.   *)
Ends(l, mo, i, k) == /\ k \in Slots
                     /\ mo[Walk(l, i)[k]] = FALSE
                     /\ \A j \in 0 .. k - 1 : mo[Walk(l, i)[j]] = TRUE

LinksOf(l, mo, i) == CHOOSE k \in Slots : /\ ~mo[Walk(l, i)[k]]
                                          /\ \A j \in 0 .. k - 1 : mo[Walk(l, i)[j]]
Size(l, mo, i)    == LinksOf(l, mo, i) + 1
ChainOf(l, mo, i) == Piece(l, i, Size(l, mo, i))

(* There is only one such number.                                          *)
LEMMA LinksOfIs ==
  ASSUME NEW l \in Tables, NEW mo \in Flags, NEW i \in Slots, NEW k, Ends(l, mo, i, k)
  PROVE  LinksOf(l, mo, i) = k
<1>1. k \in Slots /\ ~mo[Walk(l, i)[k]] /\ \A j \in 0 .. k - 1 : mo[Walk(l, i)[j]]
  BY DEF Ends
<1>2. ASSUME NEW n \in Slots, ~mo[Walk(l, i)[n]], \A j \in 0 .. n - 1 : mo[Walk(l, i)[j]]
      PROVE  n = k
  <2>1. n < k => n \in 0 .. k - 1
    BY <1>1, Sizes DEF Slots
  <2>2. k < n => k \in 0 .. n - 1
    BY <1>1, Sizes DEF Slots
  <2>3. ~(n < k) /\ ~(k < n)
    BY <1>1, <1>2, <2>1, <2>2
  <2>4. QED
    BY <1>1, <2>3, Sizes DEF Slots
<1>3. QED
  BY <1>1, <1>2, Zenon DEF LinksOf

(* n different descriptors are n.                                          *)
LEMMA PieceCount ==
  ASSUME NEW l \in Tables, NEW i \in Slots, NEW n \in 0 .. Num, Apart(l, i, n)
  PROVE  /\ Piece(l, i, n) \subseteq Slots /\ IsFiniteSet(Piece(l, i, n))
         /\ Cardinality(Piece(l, i, n)) = n
<1>1. \A k \in 0 .. n - 1 : Walk(l, i)[k] \in Slots
  BY WalkIs, Sizes
<1>2. n \in Nat
  BY Sizes
<1>3. Enumerates(Walk(l, i), n, Piece(l, i, n))
  BY DEF Enumerates, Piece, Apart
<1>4. IsFiniteSet(Piece(l, i, n)) /\ Cardinality(Piece(l, i, n)) = n
  BY <1>2, <1>3, ImageCount
<1>5. Piece(l, i, n) \subseteq Slots
  BY <1>1 DEF Piece
<1>6. QED
  BY <1>4, <1>5

(* The descriptor table: the free list of length u at f, and the chains of *)
(* the heads O. No descriptor is twice in one or in two of them, and none  *)
(* is in neither.                                                          *)
Layout(l, mo, f, u, O) ==
  /\ Apart(l, f, u)
  /\ \A i \in O : Ends(l, mo, i, LinksOf(l, mo, i)) /\ Apart(l, i, Size(l, mo, i))
  /\ \A i \in O : ChainOf(l, mo, i) \cap Piece(l, f, u) = {}
  /\ \A i, j \in O : i # j => ChainOf(l, mo, i) \cap ChainOf(l, mo, j) = {}
  /\ \A s \in Slots : s \in Piece(l, f, u) \/ \E i \in O : s \in ChainOf(l, mo, i)

(* The first n descriptors of the free list are cut off as a chain.        *)
Adds(l, mo, f, u, O, n, mp) ==
  /\ l \in Tables /\ mo \in Flags /\ f \in Slots /\ u \in 0 .. Num /\ O \in SUBSET Slots
  /\ mp \in Flags /\ Layout(l, mo, f, u, O) /\ n \in 1 .. u
  /\ \A i \in Slots : mp[i] = IF i \in Piece(l, f, n) THEN i # Walk(l, f)[n - 1] ELSE mo[i]

(* What that leaves is a layout again, with the same other chains.         *)
AddsWell(l, mo, f, u, O, n, mp) ==
  /\ Layout(l, mp, Walk(l, f)[n], u - n, O \cup {f})
  /\ Walk(l, f)[n] \in Slots /\ f \notin O
  /\ LinksOf(l, mp, f) = n - 1
  /\ \A i \in O : LinksOf(l, mp, i) = LinksOf(l, mo, i)

(* An add (virtqueue_add_buf_split) keeps the layout.                      *)
LEMMA LayoutAdd ==
  ASSUME NEW l, NEW mo, NEW f, NEW u, NEW O, NEW n, NEW mp, Adds(l, mo, f, u, O, n, mp)
  PROVE  AddsWell(l, mo, f, u, O, n, mp)
<1> DEFINE w == Walk(l, f)
           g == w[n]
<1>0. /\ l \in Tables /\ mo \in Flags /\ f \in Slots /\ u \in 0 .. Num
      /\ O \in SUBSET Slots /\ mp \in Flags /\ Layout(l, mo, f, u, O) /\ n \in 1 .. u
      /\ \A i \in Slots : mp[i] = IF i \in Piece(l, f, n) THEN i # w[n - 1] ELSE mo[i]
  BY Zenon DEF Adds
<1>1. \A k \in 0 .. Num : w[k] \in Slots
  BY <1>0, WalkIs
<1>2. n \in Nat /\ u \in Nat /\ 1 <= n /\ n <= u /\ u <= Num /\ g \in Slots
  BY <1>0, <1>1, Sizes
<1>3. \A k \in 0 .. u - n - 1 : Walk(l, g)[k] = w[n + k] /\ n + k \in 0 .. u - 1
  <2>1. ASSUME NEW k \in 0 .. u - n - 1 PROVE Walk(l, g)[k] = w[n + k] /\ n + k \in 0 .. u - 1
    <3>1. k \in Nat /\ n + k <= Num /\ n + k \in 0 .. u - 1
      BY <1>0, <1>2, Sizes
    <3>2. QED
      BY <1>0, <1>2, <3>1, WalkOn
  <2>2. QED
    BY <1>0, <2>1
<1>4. w[0] = f
  BY <1>0, WalkIs
<1> HIDE DEF w, g
<1>5. \A j, k \in 0 .. u - 1 : w[j] = w[k] => j = k
  BY <1>0 DEF Layout, Apart, w
<1>6. Apart(l, g, u - n)
  BY <1>0, <1>2, <1>3, <1>5 DEF Apart
<1>7. /\ Piece(l, f, u) = {w[k] : k \in 0 .. u - 1}
      /\ Piece(l, f, n) = {w[k] : k \in 0 .. n - 1}
  BY DEF Piece, w
<1>8. Piece(l, g, u - n) \subseteq {w[k] : k \in n .. u - 1}
  BY <1>0, <1>2, <1>3 DEF Piece
<1>9. {w[k] : k \in n .. u - 1} \subseteq Piece(l, g, u - n)
  <2>1. ASSUME NEW k \in n .. u - 1 PROVE w[k] \in Piece(l, g, u - n)
    <3>1. k - n \in 0 .. u - n - 1 /\ n + (k - n) = k
      BY <1>0, <1>2
    <3>2. Walk(l, g)[k - n] = w[k]
      BY <1>0, <1>3, <3>1
    <3>3. QED
      BY <1>0, <3>1, <3>2 DEF Piece
  <2>2. QED
    BY <1>0, <2>1
<1>10. /\ Piece(l, f, n) \cap Piece(l, g, u - n) = {}
       /\ Piece(l, f, u) = Piece(l, f, n) \cup Piece(l, g, u - n)
  BY <1>0, <1>2, <1>5, <1>7, <1>8, <1>9
<1>11. Ends(l, mp, f, n - 1)
  <2>1. n - 1 \in Slots /\ n - 1 \in 0 .. n - 1
    BY <1>0, <1>2, Sizes DEF Slots
  <2>2. mp[w[n - 1]] = FALSE
    <3>1. w[n - 1] \in Slots /\ w[n - 1] \in Piece(l, f, n)
      BY <1>0, <1>1, <1>2, <1>7, <2>1, Sizes
    <3>2. QED
      BY <1>0, <3>1
  <2>3. ASSUME NEW j \in 0 .. (n - 1) - 1 PROVE mp[w[j]] = TRUE
    <3>1. j \in 0 .. n - 1 /\ j \in 0 .. u - 1 /\ n - 1 \in 0 .. u - 1 /\ j # n - 1
          /\ j \in 0 .. Num
      BY <1>0, <1>2, Sizes
    <3>2. w[j] # w[n - 1] /\ w[j] \in Piece(l, f, n) /\ w[j] \in Slots
      BY <1>0, <1>1, <1>5, <1>7, <3>1
    <3>3. QED
      BY <1>0, <3>2
  <2>4. QED
    BY <1>0, <2>1, <2>2, <2>3 DEF Ends, w
<1>12. LinksOf(l, mp, f) = n - 1 /\ Size(l, mp, f) = n /\ ChainOf(l, mp, f) = Piece(l, f, n)
  <2>1. LinksOf(l, mp, f) = n - 1
    BY <1>0, <1>11, LinksOfIs
  <2>2. QED
    BY <1>0, <1>2, <2>1 DEF Size, ChainOf
<1>13. Apart(l, f, n)
  BY <1>0, <1>2, <1>5 DEF Apart, w
<1>14. ASSUME NEW i \in O
       PROVE  /\ LinksOf(l, mp, i) = LinksOf(l, mo, i)
              /\ Ends(l, mp, i, LinksOf(l, mp, i))
              /\ Size(l, mp, i) = Size(l, mo, i)
              /\ ChainOf(l, mp, i) = ChainOf(l, mo, i)
              /\ i \in ChainOf(l, mo, i)
  <2> DEFINE q == LinksOf(l, mo, i)
  <2>1. Ends(l, mo, i, q) /\ ChainOf(l, mo, i) \cap Piece(l, f, u) = {}
    BY <1>0 DEF Layout
  <2>2. ChainOf(l, mo, i) = {Walk(l, i)[k] : k \in 0 .. q}
    BY <1>0, <2>1 DEF ChainOf, Piece, Size, Ends, Slots
  <2> HIDE DEF q
  <2>3. q \in Slots /\ q \in Nat /\ q <= Num
    BY <1>0, <2>1, Sizes DEF Ends, Slots
  <2>4. \A k \in 0 .. q : Walk(l, i)[k] \in Slots /\ mp[Walk(l, i)[k]] = mo[Walk(l, i)[k]]
    <3>1. \A k \in 0 .. q : Walk(l, i)[k] \in Slots
      BY <1>0, <2>3, WalkIs, Sizes
    <3>2. QED
      BY <1>0, <1>10, <2>1, <2>2, <3>1
  <2>5. Ends(l, mp, i, q)
    BY <1>0, <2>1, <2>3, <2>4 DEF Ends
  <2>6. LinksOf(l, mp, i) = q
    BY <1>0, <2>5, LinksOfIs
  <2>7. Walk(l, i)[0] = i /\ 0 \in 0 .. q
    BY <1>0, <2>3, WalkIs
  <2>8. QED
    BY <1>0, <2>2, <2>5, <2>6, <2>7 DEF q, Size, ChainOf
<1>15. f \notin O
  <2>1. f \in Piece(l, f, u)
    BY <1>0, <1>2, <1>4, <1>7
  <2>2. QED
    BY <1>0, <1>14, <2>1 DEF Layout
<1>16. Layout(l, mp, g, u - n, O \cup {f})
  <2>1. \A i \in O \cup {f} : Ends(l, mp, i, LinksOf(l, mp, i)) /\ Apart(l, i, Size(l, mp, i))
    BY <1>0, <1>11, <1>12, <1>13, <1>14 DEF Layout
  <2>2. \A i \in O \cup {f} : ChainOf(l, mp, i) \cap Piece(l, g, u - n) = {}
    BY <1>0, <1>10, <1>12, <1>14 DEF Layout
  <2>3. \A i, j \in O \cup {f} : i # j => ChainOf(l, mp, i) \cap ChainOf(l, mp, j) = {}
    BY <1>0, <1>10, <1>12, <1>14 DEF Layout
  <2>4. \A s \in Slots : s \in Piece(l, g, u - n) \/ \E i \in O \cup {f} : s \in ChainOf(l, mp, i)
    BY <1>0, <1>10, <1>12, <1>14 DEF Layout
  <2>5. QED
    BY <1>0, <1>6, <2>1, <2>2, <2>3, <2>4, Zenon DEF Layout
<1>17. QED
  BY <1>0, <1>2, <1>12, <1>14, <1>15, <1>16 DEF AddsWell, g, w

(* What a changed link or flag at the end of one chain does not touch.     *)
LEMMA ChainSame ==
  ASSUME NEW l \in Tables, NEW mo \in Flags, NEW j \in Slots,
         Ends(l, mo, j, LinksOf(l, mo, j)), Apart(l, j, Size(l, mo, j)),
         NEW m \in Tables, NEW mp \in Flags,
         \A s \in ChainOf(l, mo, j) : m[s] = l[s] /\ mp[s] = mo[s]
  PROVE  /\ LinksOf(m, mp, j) = LinksOf(l, mo, j)
         /\ Ends(m, mp, j, LinksOf(m, mp, j)) /\ Apart(m, j, Size(m, mp, j))
         /\ ChainOf(m, mp, j) = ChainOf(l, mo, j)
<1> DEFINE q == LinksOf(l, mo, j)
<1>1. ChainOf(l, mo, j) = {Walk(l, j)[k] : k \in 0 .. q}
  BY DEF ChainOf, Piece, Size, Ends, Slots
<1>2. q \in Slots /\ Ends(l, mo, j, q) /\ Apart(l, j, q + 1)
  BY DEF Ends, Size
<1> HIDE DEF q
<1>3. q \in Nat /\ q + 1 \in 0 .. Num /\ (q + 1) - 1 = q
  BY <1>2, Sizes DEF Slots
<1>4. \A k \in 0 .. q + 1 : Walk(m, j)[k] = Walk(l, j)[k]
  <2>1. \A k \in 0 .. (q + 1) - 1 : m[Walk(l, j)[k]] = l[Walk(l, j)[k]]
    BY <1>1, <1>3
  <2>2. QED
    BY <1>3, <2>1, WalkSame
<1>5. Ends(m, mp, j, q) /\ Apart(m, j, q + 1)
  BY <1>1, <1>2, <1>3, <1>4 DEF Ends, Apart
<1>6. LinksOf(m, mp, j) = q
  BY <1>5, LinksOfIs
<1>7. Piece(m, j, q + 1) = Piece(l, j, q + 1)
  BY <1>3, <1>4 DEF Piece
<1>8. QED
  BY <1>5, <1>6, <1>7 DEF Size, ChainOf, q

(* A chain and the free list fit into the table.                           *)
LEMMA LayoutCount ==
  ASSUME NEW l \in Tables, NEW mo \in Flags, NEW f \in Slots, NEW u \in 0 .. Num,
         NEW O \in SUBSET Slots, Layout(l, mo, f, u, O), NEW i \in O
  PROVE  /\ Size(l, mo, i) \in 1 .. Num /\ u + Size(l, mo, i) <= Num
         /\ LinksOf(l, mo, i) = Size(l, mo, i) - 1
<1> DEFINE n == Size(l, mo, i)
<1>1. Ends(l, mo, i, LinksOf(l, mo, i)) /\ Apart(l, i, n) /\ Apart(l, f, u)
      /\ Piece(l, i, n) \cap Piece(l, f, u) = {}
  BY Zenon DEF Layout, ChainOf
<1>2. n \in 1 .. Num /\ LinksOf(l, mo, i) = n - 1
  BY <1>1, Sizes DEF Ends, Size, Slots
<1> HIDE DEF n
<1>3. n \in 0 .. Num
  BY <1>2, Sizes
<1>4. /\ Piece(l, i, n) \subseteq Slots /\ IsFiniteSet(Piece(l, i, n))
      /\ Cardinality(Piece(l, i, n)) = n
  BY <1>1, <1>3, PieceCount
<1>5. /\ Piece(l, f, u) \subseteq Slots /\ IsFiniteSet(Piece(l, f, u))
      /\ Cardinality(Piece(l, f, u)) = u
  BY <1>1, PieceCount
<1>6. Cardinality(Piece(l, i, n) \cup Piece(l, f, u)) = n + u - Cardinality({})
  BY <1>1, <1>4, <1>5, FS_Union
<1>7. Cardinality(Piece(l, i, n) \cup Piece(l, f, u)) <= Num
  BY <1>4, <1>5, SlotsFinite, FS_Subset
<1>8. QED
  BY <1>2, <1>6, <1>7, FS_EmptySet, Sizes DEF n

(* The chain at i goes in front of the free list.                          *)
Last(l, mo, i) == Walk(l, i)[LinksOf(l, mo, i)]

Puts(l, mo, f, u, O, i) ==
  /\ l \in Tables /\ mo \in Flags /\ f \in Slots /\ u \in 0 .. Num /\ O \in SUBSET Slots
  /\ Layout(l, mo, f, u, O) /\ i \in O

(* That leaves a layout again, too.                                        *)
PutsWell(l, mo, f, u, O, i) ==
  LET m  == [l EXCEPT ![Last(l, mo, i)] = f]
      mp == [mo EXCEPT ![Last(l, mo, i)] = TRUE]
      n  == u + LinksOf(l, mo, i) + 1
  IN  /\ Last(l, mo, i) \in Slots
      /\ Layout(m, mp, i, n, O \ {i})
      /\ n \in 0 .. Num
      /\ \A j \in O \ {i} : LinksOf(m, mp, j) = LinksOf(l, mo, j)

(* A return (put_unused_desc_chain) keeps the layout.                      *)
LEMMA LayoutPut ==
  ASSUME NEW l, NEW mo, NEW f, NEW u, NEW O, NEW i, Puts(l, mo, f, u, O, i)
  PROVE  PutsWell(l, mo, f, u, O, i)
<1> DEFINE e == Last(l, mo, i)
           n == Size(l, mo, i)
           m == [l EXCEPT ![e] = f]
           mp == [mo EXCEPT ![e] = TRUE]
           w == Walk(l, i)
           v == Walk(l, f)
<1>0. /\ l \in Tables /\ mo \in Flags /\ f \in Slots /\ u \in 0 .. Num
      /\ O \in SUBSET Slots /\ Layout(l, mo, f, u, O) /\ i \in O /\ i \in Slots
  BY DEF Puts
<1>1. /\ n \in 1 .. Num /\ u + n <= Num /\ LinksOf(l, mo, i) = n - 1
      /\ u + LinksOf(l, mo, i) + 1 = u + n /\ n \in Nat /\ u \in Nat
  BY <1>0, LayoutCount, Sizes
<1>2. e = w[n - 1] /\ n - 1 \in 0 .. Num /\ \A k \in 0 .. Num : w[k] \in Slots /\ v[k] \in Slots
  BY <1>0, <1>1, WalkIs, Sizes DEF Last
<1>3. e \in Slots
  BY <1>0, <1>2
<1>4. /\ m \in Tables /\ mp \in Flags /\ m[e] = f
      /\ \A s \in Slots \ {e} : m[s] = l[s] /\ mp[s] = mo[s]
  BY <1>0, <1>3 DEF Tables, Flags
<1>5. /\ \A j, k \in 0 .. n - 1 : w[j] = w[k] => j = k
      /\ \A j, k \in 0 .. u - 1 : v[j] = v[k] => j = k
      /\ ChainOf(l, mo, i) = {w[k] : k \in 0 .. n - 1}
      /\ Piece(l, f, u) = {v[k] : k \in 0 .. u - 1}
  BY <1>0 DEF Layout, Apart, ChainOf, Piece
<1>6. e \in ChainOf(l, mo, i) /\ e \notin Piece(l, f, u)
  <2>1. n - 1 \in 0 .. n - 1
    BY <1>0, <1>1
  <2>2. e \in ChainOf(l, mo, i)
    BY <1>0, <1>2, <1>5, <2>1
  <2>3. QED
    BY <1>0, <2>2 DEF Layout
<1> HIDE DEF n, m, mp, w, v, e
<1>7. \A k \in 0 .. n - 1 : Walk(m, i)[k] = w[k]
  <2>1. ASSUME NEW k \in 0 .. (n - 1) - 1 PROVE m[w[k]] = l[w[k]]
    <3>1. k \in 0 .. n - 1 /\ n - 1 \in 0 .. n - 1 /\ k # n - 1 /\ k \in 0 .. Num
      BY <1>0, <1>1, Sizes
    <3>2. w[k] # e /\ w[k] \in Slots
      BY <1>0, <1>2, <1>5, <3>1
    <3>3. QED
      BY <1>0, <1>4, <3>2
  <2>2. QED
    BY <1>0, <1>2, <1>4, <2>1, WalkSame DEF w
<1>8. Walk(m, i)[n] = f
  <2>1. Walk(m, i)[n] = m[Walk(m, i)[n - 1]]
    BY <1>0, <1>1, <1>4, WalkIs
  <2>2. n - 1 \in 0 .. n - 1
    BY <1>0, <1>1
  <2>3. QED
    BY <1>0, <1>2, <1>4, <1>7, <2>1, <2>2
<1>9. \A k \in 0 .. u : Walk(m, f)[k] = v[k]
  <2>1. ASSUME NEW k \in 0 .. u - 1 PROVE m[v[k]] = l[v[k]]
    <3>1. v[k] # e /\ v[k] \in Slots
      BY <1>0, <1>1, <1>2, <1>5, <1>6, Sizes
    <3>2. QED
      BY <1>0, <1>4, <3>1
  <2>2. QED
    BY <1>0, <1>4, <2>1, WalkSame DEF v
<1>10. \A k \in 0 .. u - 1 : Walk(m, i)[n + k] = v[k]
  <2>1. ASSUME NEW k \in 0 .. u - 1 PROVE Walk(m, i)[n + k] = v[k]
    <3>1. k \in Nat /\ n + k <= Num /\ k \in 0 .. u
      BY <1>0, <1>1, Sizes
    <3>2. Walk(m, Walk(m, i)[n])[k] = Walk(m, i)[n + k]
      BY <1>0, <1>1, <1>4, <3>1, WalkOn
    <3>3. QED
      BY <1>0, <1>8, <1>9, <3>1, <3>2
  <2>2. QED
    BY <1>0, <2>1
<1>11. \A k \in 0 .. (u + n) - 1 :
         \/ k \in 0 .. n - 1 /\ Walk(m, i)[k] = w[k]
         \/ k - n \in 0 .. u - 1 /\ Walk(m, i)[k] = v[k - n]
  <2>1. ASSUME NEW k \in 0 .. (u + n) - 1, k \notin 0 .. n - 1
        PROVE  k - n \in 0 .. u - 1 /\ Walk(m, i)[k] = v[k - n]
    <3>1. k - n \in 0 .. u - 1 /\ n + (k - n) = k
      BY <1>0, <1>1, <2>1
    <3>2. QED
      BY <1>0, <1>10, <3>1
  <2>2. QED
    BY <1>0, <1>7, <2>1
<1>12. {w[k] : k \in 0 .. n - 1} \cap {v[k] : k \in 0 .. u - 1} = {}
  BY <1>0, <1>5 DEF Layout
<1>13. Apart(m, i, u + n)
  <2>1. ASSUME NEW j \in 0 .. (u + n) - 1, NEW k \in 0 .. (u + n) - 1, Walk(m, i)[j] = Walk(m, i)[k]
        PROVE  j = k
    <3>1. CASE j \in 0 .. n - 1 /\ k \in 0 .. n - 1
      BY <1>0, <1>5, <1>7, <2>1, <3>1
    <3>2. CASE j - n \in 0 .. u - 1 /\ k - n \in 0 .. u - 1
      <4>1. j - n = k - n
        <5>1. j = n + (j - n) /\ k = n + (k - n)
          BY <1>0, <1>1
        <5>2. v[j - n] = v[k - n]
          BY <1>0, <1>10, <2>1, <3>2, <5>1
        <5>3. QED
          BY <1>0, <1>5, <3>2, <5>2
      <4>2. QED
        BY <1>0, <1>1, <4>1
    <3>3. CASE j \in 0 .. n - 1 /\ k \notin 0 .. n - 1
      BY <1>0, <1>7, <1>11, <1>12, <2>1, <3>3
    <3>4. CASE j \notin 0 .. n - 1 /\ k \in 0 .. n - 1
      BY <1>0, <1>7, <1>11, <1>12, <2>1, <3>4
    <3>5. QED
      BY <1>0, <1>11, <3>1, <3>2, <3>3, <3>4
  <2>2. QED
    BY <1>0, <2>1 DEF Apart
<1>14. Piece(m, i, u + n) = ChainOf(l, mo, i) \cup Piece(l, f, u)
  <2>1. ASSUME NEW k \in 0 .. (u + n) - 1
        PROVE  Walk(m, i)[k] \in ChainOf(l, mo, i) \cup Piece(l, f, u)
    <3>1. CASE k \in 0 .. n - 1 /\ Walk(m, i)[k] = w[k]
      BY <1>5, <3>1
    <3>2. CASE k - n \in 0 .. u - 1 /\ Walk(m, i)[k] = v[k - n]
      BY <1>5, <3>2
    <3>3. QED
      BY <1>11, <3>1, <3>2
  <2>2. ASSUME NEW k \in 0 .. n - 1 PROVE w[k] \in Piece(m, i, u + n)
    <3>1. k \in 0 .. (u + n) - 1
      BY <1>0, <1>1
    <3>2. QED
      BY <1>0, <1>7, <3>1 DEF Piece
  <2>3. ASSUME NEW k \in 0 .. u - 1 PROVE v[k] \in Piece(m, i, u + n)
    <3>1. n + k \in 0 .. (u + n) - 1
      BY <1>0, <1>1
    <3>2. QED
      BY <1>0, <1>10, <3>1 DEF Piece
  <2>4. QED
    <3>1. Piece(m, i, u + n) = {Walk(m, i)[k] : k \in 0 .. (u + n) - 1}
      BY DEF Piece
    <3>2. QED
      BY <1>5, <2>1, <2>2, <2>3, <3>1
<1>15. ASSUME NEW j \in O \ {i}
       PROVE  /\ LinksOf(m, mp, j) = LinksOf(l, mo, j)
              /\ Ends(m, mp, j, LinksOf(m, mp, j)) /\ Apart(m, j, Size(m, mp, j))
              /\ ChainOf(m, mp, j) = ChainOf(l, mo, j)
  <2>1. /\ Ends(l, mo, j, LinksOf(l, mo, j)) /\ Apart(l, j, Size(l, mo, j))
        /\ ChainOf(l, mo, j) \cap ChainOf(l, mo, i) = {}
    BY <1>0, Zenon DEF Layout
  <2>2. ChainOf(l, mo, j) \subseteq Slots
    <3>1. Size(l, mo, j) \in 0 .. Num
      BY <1>0, LayoutCount, Sizes
    <3>2. QED
      BY <1>0, <2>1, <3>1, PieceCount DEF ChainOf
  <2>3. \A s \in ChainOf(l, mo, j) : m[s] = l[s] /\ mp[s] = mo[s]
    BY <1>0, <1>4, <1>6, <2>1, <2>2
  <2>4. QED
    BY <1>0, <1>4, <2>1, <2>3, ChainSame
<1>16. Layout(m, mp, i, u + n, O \ {i})
  <2>1. \A j \in O \ {i} : ChainOf(m, mp, j) \cap Piece(m, i, u + n) = {}
    BY <1>0, <1>14, <1>15 DEF Layout
  <2>2. \A j, k \in O \ {i} : j # k => ChainOf(m, mp, j) \cap ChainOf(m, mp, k) = {}
    BY <1>0, <1>15 DEF Layout
  <2>3. \A s \in Slots : s \in Piece(m, i, u + n) \/ \E j \in O \ {i} : s \in ChainOf(m, mp, j)
    BY <1>0, <1>14, <1>15 DEF Layout
  <2>4. QED
    BY <1>0, <1>13, <1>15, <2>1, <2>2, <2>3, Zenon DEF Layout
<1>17. u + LinksOf(l, mo, i) + 1 \in 0 .. Num
  BY <1>0, <1>1, Sizes
<1>18. Layout(m, mp, i, u + LinksOf(l, mo, i) + 1, O \ {i})
  BY <1>0, <1>1, <1>16
<1>19. QED
  BY <1>3, <1>15, <1>17, <1>18, Zenon DEF PutsWell, m, mp, e

(* The table as initialize_virtqueue leaves it is one free list.           *)
LEMMA LayoutInit ==
  ASSUME NEW l, l = [i \in Slots |-> IF i = Num - 1 THEN 0 ELSE i + 1], NEW mo
  PROVE  l \in Tables /\ Layout(l, mo, 0, Num, {})
<1>1. l \in Tables /\ 0 \in Slots
  BY Sizes DEF Tables, Slots
<1> DEFINE S == {k \in Nat : k < Num => Walk(l, 0)[k] = k}
<1>2. 0 \in S
  BY <1>1, WalkIs
<1>3. ASSUME NEW k \in S \cap Nat PROVE k + 1 \in S
  <2>1. ASSUME k + 1 < Num PROVE Walk(l, 0)[k + 1] = k + 1
    <3>1. k < Num /\ k + 1 \in 1 .. Num /\ (k + 1) - 1 = k /\ k \in Slots /\ k # Num - 1
      BY <2>1, Sizes DEF Slots
    <3>2. Walk(l, 0)[k + 1] = l[Walk(l, 0)[k]]
      BY <1>1, <3>1, WalkIs
    <3>3. QED
      BY <3>1, <3>2
  <2>2. QED
    BY <2>1
<1>4. Nat \subseteq S
  <2> HIDE DEF S
  <2>1. QED
    BY <1>2, <1>3, Induction
<1>5. \A k \in 0 .. Num - 1 : Walk(l, 0)[k] = k
  <2>1. ASSUME NEW k \in 0 .. Num - 1 PROVE Walk(l, 0)[k] = k
    <3>1. k \in Nat /\ k < Num
      BY Sizes
    <3>2. k \in S
      BY <1>4, <3>1
    <3>3. QED
      BY <3>1, <3>2
  <2>2. QED
    BY <2>1
<1>6. Apart(l, 0, Num)
  BY <1>5 DEF Apart
<1>7. \A s \in Slots : s \in Piece(l, 0, Num)
  BY <1>5 DEF Piece, Slots
<1>8. QED
  BY <1>1, <1>6, <1>7 DEF Layout

(* The layout as the operators of the module see it, before a step and     *)
(* after it.                                                               *)
LEMMA LayoutSeen ==
  /\ \A n : Taken(n) = Piece(next, first_unused, n)
  /\ \A i : Links(i) = LinksOf(next, more, i)
  /\ \A i : Links(i)' = LinksOf(next', more', i)
  /\ \A i : From(i) = Walk(next, i)
<1>1. /\ \A i : From(i) = Walk(next, i)
      /\ \A i : From(i)' = Walk(next', i)
  BY Zenon DEF From, Walk, WalkOf
<1>2. \A n : Taken(n) = Piece(next, first_unused, n)
  BY <1>1 DEF Taken, Piece
<1>3. \A i : Links(i) = LinksOf(next, more, i)
  BY <1>1, Zenon DEF Links, LinksOf
<1>4. \A i : Links(i)' = LinksOf(next', more', i)
  BY <1>1, Zenon DEF Links, LinksOf
<1>5. QED
  BY <1>1, <1>2, <1>3, <1>4

(* The layout is the partition that RingInv states.                        *)
LEMMA LayoutPartitions ==
  ASSUME next \in Tables, more \in Flags, first_unused \in Slots, num_unused \in 0 .. Num,
         Attached \in SUBSET Slots,
         Layout(next, more, first_unused, num_unused, Attached)
  PROVE  DescriptorsPartitioned
<1>1. FreeList = Piece(next, first_unused, num_unused)
  BY LayoutSeen DEF FreeList
<1>2. ASSUME NEW i \in Attached PROVE Chain(i) = ChainOf(next, more, i)
  <2>1. /\ LinksOf(next, more, i) = Size(next, more, i) - 1
        /\ Links(i) = LinksOf(next, more, i) /\ From(i) = Walk(next, i)
    BY LayoutCount, LayoutSeen
  <2>2. QED
    BY <2>1 DEF Chain, ChainOf, Piece
<1>3. Cardinality(FreeList) = num_unused
  BY <1>1, PieceCount DEF Layout
<1>4. \A i \in Attached : ChainOf(next, more, i) \subseteq Slots
  <2>1. ASSUME NEW i \in Attached PROVE ChainOf(next, more, i) \subseteq Slots
    <3>1. Size(next, more, i) \in 0 .. Num /\ Apart(next, i, Size(next, more, i)) /\ i \in Slots
      BY LayoutCount, Sizes DEF Layout
    <3>2. QED
      BY <3>1, PieceCount DEF ChainOf
  <2>2. QED
    BY <2>1
<1>5. FreeList \subseteq Slots
  BY <1>1, PieceCount DEF Layout
<1>6. \A i \in Attached : Chain(i) \cap FreeList = {}
  BY <1>1, <1>2 DEF Layout
<1>7. \A i, j \in Attached : i # j => Chain(i) \cap Chain(j) = {}
  BY <1>2 DEF Layout
<1>8. Slots = FreeList \cup UNION {Chain(i) : i \in Attached}
  <2>1. ASSUME NEW s \in Slots PROVE s \in FreeList \cup UNION {Chain(i) : i \in Attached}
    BY <1>1, <1>2 DEF Layout
  <2>2. QED
    BY <1>2, <1>4, <1>5, <2>1
<1>9. QED
  BY <1>3, <1>6, <1>7, <1>8 DEF DescriptorsPartitioned

-----------------------------------------------------------------------------
(* The places of the two rings.                                            *)

(* A remainder, its quotient, and that they determine it.                  *)
LEMMA Division ==
  ASSUME NEW d \in Nat \ {0}, NEW a \in Nat
  PROVE  a % d \in 0 .. d - 1 /\ \E q \in Nat : a = d * q + (a % d)
<1>1. a % d \in 0 .. d - 1 /\ a \div d \in Nat
  OBVIOUS
<1>2. a = d * (a \div d) + (a % d)
  OBVIOUS
<1>3. QED
  BY <1>1, <1>2

(* No positive multiple is below the divisor.                              *)
LEMMA NoMultiple ==
  ASSUME NEW d \in Nat \ {0}, NEW t \in Int, d * t < d
  PROVE  t <= 0
  OBVIOUS

(* The remainder is the only number below the divisor with a quotient.     *)
LEMMA Remainder ==
  ASSUME NEW d \in Nat \ {0}, NEW a \in Nat, NEW q \in Int, NEW r \in 0 .. d - 1,
         a = d * q + r
  PROVE  a % d = r
<1> DEFINE e == a % d
<1>1. PICK s \in Nat : a = d * s + e
  BY Division
<1>2. e \in 0 .. d - 1
  BY Division
<1> HIDE DEF e
<1>3. /\ d * (q - s) = e - r
      /\ d * (s - q) = r - e
  <2>1. d * (q - s) = d * q - d * s /\ d * (s - q) = d * s - d * q
    OBVIOUS
  <2>2. d * q \in Int /\ d * s \in Int
    OBVIOUS
  <2>3. QED
    BY <1>1, <1>2, <2>1, <2>2
<1>4. q - s <= 0 /\ s - q <= 0
  <2>1. d * (q - s) < d /\ q - s \in Int
    BY <1>2, <1>3
  <2>2. d * (s - q) < d /\ s - q \in Int
    BY <1>2, <1>3
  <2>3. QED
    BY <2>1, <2>2, NoMultiple
<1>5. q = s
  BY <1>4
<1>6. e = r
  BY <1>2, <1>3, <1>5
<1>7. QED
  BY <1>6 DEF e

(* A place in a ring is a slot.                                            *)
LEMMA RingIn ==
  ASSUME NEW p \in Nat, NEW k \in Nat
  PROVE  Ring(p, k) \in Slots /\ p % Num \in Slots /\ p % Num = Ring(p, 0)
<1>1. p + k \in Nat /\ p + 0 = p /\ Num \in Nat \ {0}
  BY Sizes
<1>2. QED
  BY <1>1, Division DEF Ring, Slots

(* The ring does not notice when an index wraps: its size divides the      *)
(* range (DESC_INDEX).                                                     *)
LEMMA RingWraps ==
  ASSUME NEW p \in Nat
  PROVE  (p + Modulus) % Num = p % Num
<1>0. Num \in Nat \ {0} /\ Modulus \in Nat /\ Modulus % Num = 0
  BY Sizes, SplitRingAssumption
<1>1. PICK q \in Nat : Modulus = Num * q + (Modulus % Num)
  BY <1>0, Division
<1>2. PICK s \in Nat : p = Num * s + (p % Num)
  BY <1>0, Division
<1>3. p % Num \in 0 .. Num - 1
  BY <1>0, Division
<1>4. PICK r \in 0 .. Num - 1 : r = p % Num
  BY <1>3
<1>5. PICK z \in Nat : z = Modulus % Num
  BY <1>0
<1>6. Num * (s + q) = Num * s + Num * q /\ Num * s \in Nat /\ Num * q \in Nat
  BY <1>0
<1>7. p + Modulus = Num * (s + q) + r /\ s + q \in Int /\ p + Modulus \in Nat
  BY <1>0, <1>1, <1>2, <1>4, <1>5, <1>6
<1>8. (p + Modulus) % Num = r
  BY <1>0, <1>7, Remainder
<1>9. QED
  BY <1>4, <1>8

(* The places from the next index on.                                      *)
LEMMA RingNext ==
  ASSUME NEW p \in Index, NEW k \in Nat
  PROVE  Ring((p + 1) % Modulus, k) = Ring(p, k + 1)
<1>1. (p + 1) % Modulus = Following(p) /\ p \in Nat
  BY PlusOne, Sizes DEF Plus, Index
<1>2. CASE p = Modulus - 1
  <2>1. Following(p) + k = k /\ p + (k + 1) = k + Modulus
    BY <1>1, <1>2, Sizes DEF Following
  <2>2. (k + Modulus) % Num = k % Num
    BY RingWraps
  <2>3. QED
    BY <1>1, <2>1, <2>2 DEF Ring
<1>3. CASE p # Modulus - 1
  <2>1. Following(p) + k = p + (k + 1)
    BY <1>1, <1>3 DEF Following
  <2>2. QED
    BY <1>1, <2>1 DEF Ring
<1>4. QED
  BY <1>2, <1>3

(* Fewer places than the ring is long are different.                       *)
LEMMA RingApart ==
  ASSUME NEW p \in Nat, NEW j \in Slots, NEW k \in Slots, Ring(p, j) = Ring(p, k)
  PROVE  j = k
<1>0. Num \in Nat \ {0} /\ j \in Nat /\ k \in Nat /\ j < Num /\ k < Num
  BY Sizes DEF Slots
<1>1. p + j \in Nat /\ p + k \in Nat
  BY <1>0
<1>2. PICK s \in Nat : p + j = Num * s + ((p + j) % Num)
  BY <1>0, <1>1, Division
<1>3. PICK q \in Nat : p + k = Num * q + ((p + k) % Num)
  BY <1>0, <1>1, Division
<1>4. PICK r \in 0 .. Num - 1 : r = (p + j) % Num
  BY <1>0, <1>1, Division
<1>5. r = (p + k) % Num
  BY <1>4 DEF Ring
<1>6. p + j = Num * s + r /\ p + k = Num * q + r /\ r \in Nat
  BY <1>0, <1>2, <1>3, <1>4, <1>5
<1>7. Num * (s - q) = Num * s - Num * q /\ Num * (q - s) = Num * q - Num * s
      /\ Num * s \in Nat /\ Num * q \in Nat
  BY <1>0
<1>8. Num * (s - q) = j - k /\ Num * (q - s) = k - j
  BY <1>0, <1>6, <1>7
<1>9. s - q <= 0 /\ q - s <= 0
  <2>1. Num * (s - q) < Num /\ s - q \in Int
    BY <1>0, <1>8
  <2>2. Num * (q - s) < Num /\ q - s \in Int
    BY <1>0, <1>8
  <2>3. QED
    BY <1>0, <2>1, <2>2, NoMultiple
<1>10. s = q
  BY <1>9
<1>11. QED
  BY <1>0, <1>6, <1>10

(* The slot of an index is as far along the ring as the index is away.     *)
LEMMA RingAt ==
  ASSUME NEW from \in Index, NEW to \in Index
  PROVE  to % Num = Ring(from, Gap(from, to))
<1>0. from \in Nat /\ to \in Nat /\ Modulus \in Nat
  BY Sizes DEF Index
<1>1. CASE from <= to
  BY <1>0, <1>1 DEF Ring, Gap
<1>2. CASE ~(from <= to)
  <2>1. from + Gap(from, to) = to + Modulus
    BY <1>0, <1>2 DEF Gap
  <2>2. QED
    BY <1>0, <2>1, RingWraps DEF Ring
<1>3. QED
  BY <1>1, <1>2

(* The n entries of ring t from place p on.                                *)
Window(t, p, n)   == {t[Ring(p, k)] : k \in 0 .. n - 1}
Distinct(t, p, n) == \A j, k \in 0 .. n - 1 : t[Ring(p, j)] = t[Ring(p, k)] => j = k

(* n different entries are n.                                              *)
LEMMA WindowCount ==
  ASSUME NEW t \in Tables, NEW p \in Index, NEW n \in 0 .. Num, Distinct(t, p, n)
  PROVE  /\ Window(t, p, n) \subseteq Slots /\ IsFiniteSet(Window(t, p, n))
         /\ Cardinality(Window(t, p, n)) = n
<1> DEFINE g == [k \in 0 .. n - 1 |-> t[Ring(p, k)]]
<1>1. n \in Nat /\ p \in Nat
  BY Sizes DEF Index
<1>2. \A k \in 0 .. n - 1 : t[Ring(p, k)] \in Slots
  BY <1>1, RingIn DEF Tables
<1>3. Enumerates(g, n, Window(t, p, n))
  BY DEF Enumerates, Window, Distinct
<1> HIDE DEF g
<1>4. IsFiniteSet(Window(t, p, n)) /\ Cardinality(Window(t, p, n)) = n
  BY <1>1, <1>3, ImageCount
<1>5. Window(t, p, n) \subseteq Slots
  BY <1>2 DEF Window
<1>6. QED
  BY <1>4, <1>5

(* Writing the entry at the end of the window and moving the end on.       *)
Pushes(t, p, q, n, e, t2) ==
  /\ t \in Tables /\ p \in Index /\ q \in Index /\ e \in Slots
  /\ n = Gap(p, q) /\ n < Num /\ t2 = [t EXCEPT ![q % Num] = e]

Pushed(t, p, q, n, e, t2) ==
  /\ t2 \in Tables
  /\ \A k \in 0 .. n - 1 : t2[Ring(p, k)] = t[Ring(p, k)]
  /\ t2[Ring(p, n)] = e
  /\ Gap(p, (q + 1) % Modulus) = n + 1
  /\ Window(t2, p, n + 1) = Window(t, p, n) \cup {e}
  /\ Distinct(t, p, n) /\ e \notin Window(t, p, n) => Distinct(t2, p, n + 1)

(* That is what it does: the window has one entry more.                    *)
LEMMA WindowPush ==
  ASSUME NEW t, NEW p, NEW q, NEW n, NEW e, NEW t2, Pushes(t, p, q, n, e, t2)
  PROVE  Pushed(t, p, q, n, e, t2)
<1>0. /\ t \in Tables /\ p \in Index /\ q \in Index /\ e \in Slots
      /\ n = Gap(p, q) /\ n < Num /\ t2 = [t EXCEPT ![q % Num] = e]
  BY Zenon DEF Pushes
<1>1. p \in Nat /\ n \in Nat /\ n \in Slots /\ n + 1 \in Nat
  BY <1>0, GapMoves, Sizes DEF Index, Slots
<1>2. q % Num = Ring(p, n) /\ Ring(p, n) \in Slots
  BY <1>0, <1>1, RingAt, RingIn
<1>3. t2 \in Tables /\ t2[Ring(p, n)] = e
  BY <1>0, <1>2 DEF Tables
<1>4. ASSUME NEW k \in 0 .. n - 1 PROVE t2[Ring(p, k)] = t[Ring(p, k)]
  <2>1. k \in Slots /\ k # n /\ k \in Nat
    BY <1>1, Sizes DEF Slots
  <2>2. Ring(p, k) # Ring(p, n) /\ Ring(p, k) \in Slots
    BY <1>1, <2>1, RingApart, RingIn
  <2>3. QED
    BY <1>0, <1>2, <2>2 DEF Tables
<1>5. Gap(p, (q + 1) % Modulus) = n + 1
  <2>1. n < Modulus - 1
    BY <1>0, <1>1, Sizes
  <2>2. QED
    BY <1>0, <2>1, GapMoves
<1>6. Window(t2, p, n + 1) = Window(t, p, n) \cup {e}
  BY <1>1, <1>3, <1>4 DEF Window
<1>7. ASSUME Distinct(t, p, n), e \notin Window(t, p, n)
      PROVE  Distinct(t2, p, n + 1)
  <2>1. \A k \in 0 .. n - 1 : t2[Ring(p, k)] # e
    BY <1>4, <1>7 DEF Window
  <2>2. ASSUME NEW j \in 0 .. (n + 1) - 1, NEW k \in 0 .. (n + 1) - 1,
               t2[Ring(p, j)] = t2[Ring(p, k)]
        PROVE  j = k
    <3>1. (j \in 0 .. n - 1 \/ j = n) /\ (k \in 0 .. n - 1 \/ k = n)
      BY <1>1
    <3>2. QED
      BY <1>3, <1>4, <1>7, <2>1, <2>2, <3>1 DEF Distinct
  <2>3. QED
    BY <2>2 DEF Distinct
<1>8. QED
  BY <1>3, <1>4, <1>5, <1>6, <1>7 DEF Pushed

(* Moving the beginning of the window on.                                  *)
LEMMA WindowPop ==
  ASSUME NEW t \in Tables, NEW p \in Index, NEW q \in Index, NEW n, n = Gap(p, q), p # q
  PROVE  LET p2 == (p + 1) % Modulus
         IN  /\ n > 0 /\ p2 \in Index /\ Gap(p2, q) = n - 1
             /\ t[p % Num] = t[Ring(p, 0)]
             /\ \A k \in 0 .. n - 2 : t[Ring(p2, k)] = t[Ring(p, k + 1)]
             /\ Window(t, p, n) = {t[p % Num]} \cup Window(t, p2, n - 1)
             /\ Distinct(t, p, n) => /\ t[p % Num] \notin Window(t, p2, n - 1)
                                     /\ Distinct(t, p2, n - 1)
<1> DEFINE p2 == (p + 1) % Modulus
<1>1. p \in Nat /\ n \in Nat /\ n > 0 /\ p2 \in Index /\ Gap(p2, q) = n - 1
  BY GapMoves, Sizes DEF Index
<1>2. p % Num = Ring(p, 0)
  BY <1>1, RingIn
<1>3. \A k \in Nat : Ring(p2, k) = Ring(p, k + 1)
  BY RingNext
<1> HIDE DEF p2
<1>4. Window(t, p, n) = {t[p % Num]} \cup Window(t, p2, n - 1)
  <2>1. ASSUME NEW k \in 0 .. n - 1
        PROVE  t[Ring(p, k)] \in {t[p % Num]} \cup Window(t, p2, n - 1)
    <3>1. CASE k = 0
      BY <1>2, <3>1
    <3>2. CASE k # 0
      <4>1. k - 1 \in 0 .. (n - 1) - 1 /\ k - 1 \in Nat /\ (k - 1) + 1 = k
        BY <1>1, <3>2
      <4>2. Ring(p2, k - 1) = Ring(p, k)
        BY <1>3, <4>1
      <4>3. QED
        BY <4>1, <4>2 DEF Window
    <3>3. QED
      BY <3>1, <3>2
  <2>2. ASSUME NEW k \in 0 .. (n - 1) - 1 PROVE t[Ring(p2, k)] \in Window(t, p, n)
    <3>1. k + 1 \in 0 .. n - 1 /\ k \in Nat
      BY <1>1
    <3>2. QED
      BY <1>3, <3>1 DEF Window
  <2>3. t[p % Num] \in Window(t, p, n)
    BY <1>1, <1>2 DEF Window
  <2>4. QED
    BY <2>1, <2>2, <2>3 DEF Window
<1>5. ASSUME Distinct(t, p, n)
      PROVE  t[p % Num] \notin Window(t, p2, n - 1) /\ Distinct(t, p2, n - 1)
  <2>1. \A k \in 0 .. (n - 1) - 1 : k \in Nat /\ k + 1 \in 0 .. n - 1 /\ k + 1 # 0
    BY <1>1
  <2>2. 0 \in 0 .. n - 1
    BY <1>1
  <2>3. t[p % Num] \notin Window(t, p2, n - 1)
    BY <1>2, <1>3, <1>5, <2>1, <2>2 DEF Window, Distinct
  <2>4. ASSUME NEW j \in 0 .. (n - 1) - 1, NEW k \in 0 .. (n - 1) - 1,
               t[Ring(p2, j)] = t[Ring(p2, k)]
        PROVE  j = k
    <3>1. t[Ring(p, j + 1)] = t[Ring(p, k + 1)]
      BY <1>3, <2>1, <2>4
    <3>2. j + 1 = k + 1
      BY <1>5, <2>1, <3>1 DEF Distinct
    <3>3. QED
      BY <3>2
  <2>5. QED
    BY <2>3, <2>4 DEF Distinct
<1>6. \A k \in 0 .. n - 2 : t[Ring(p2, k)] = t[Ring(p, k + 1)]
  BY <1>3
<1>7. QED
  BY <1>1, <1>2, <1>4, <1>5, <1>6 DEF p2

-----------------------------------------------------------------------------
(* The inductive invariant of the split virtqueue.                         *)

(* The types, as the proofs use them.                                      *)
Types ==
  /\ next \in Tables /\ more \in Flags
  /\ first_unused \in Slots /\ num_unused \in 0 .. Num
  /\ opaque \in [Slots -> Msgs \cup {NoMsg}]
  /\ avail \in Tables /\ used \in Tables
  /\ avail_idx \in Index /\ used_idx \in Index /\ last_used \in Index /\ seen \in Index
  /\ working \in SUBSET Slots
  /\ detaching \in BOOLEAN

(* A pointer is outstanding once.                                          *)
Opaques == \A i, j \in Attached : opaque[i] = opaque[j] => i = j

(* The descriptors, and what they carry.                                   *)
Descriptors == Layout(next, more, first_unused, num_unused, Attached) /\ Opaques

(* The outstanding buffers are slots.                                      *)
LEMMA AttachedIn == Attached \in SUBSET Slots /\ IsFiniteSet(Attached)
                    /\ Cardinality(Attached) \in Nat /\ Cardinality(Attached) <= Num
<1>1. Attached \in SUBSET Slots
  BY DEF Attached
<1>2. QED
  BY <1>1, SlotsFinite, FS_Subset, FS_CardinalityType

(* The buffers that wait in the available ring, and those back in the used *)
(* ring.                                                                   *)
Waits == Window(avail, seen, Gap(seen, avail_idx))
Backs == Window(used, last_used, Gap(last_used, used_idx))

(* The distances between the indexes count the buffers in between.         *)
Counts ==
  /\ Gap(last_used, seen) = Gap(last_used, used_idx) + Cardinality(working)
  /\ Gap(last_used, avail_idx) = Gap(last_used, seen) + Gap(seen, avail_idx)
  /\ Gap(last_used, avail_idx) = Cardinality(Attached)

(* Outside the detach loop every outstanding buffer is in exactly one of   *)
(* the two windows or with the device.                                     *)
Lists == detaching = FALSE =>
  /\ Distinct(avail, seen, Gap(seen, avail_idx))
  /\ Distinct(used, last_used, Gap(last_used, used_idx))
  /\ Waits \cap working = {} /\ Waits \cap Backs = {} /\ Backs \cap working = {}
  /\ Attached = Waits \cup working \cup Backs

(* During the loop nothing is taken or back, and what is left is some of   *)
(* the entries of a window that begins at the place of the device.         *)
Detached == detaching = TRUE =>
  /\ working = {} /\ used_idx = last_used /\ seen = last_used
  /\ \E n \in 0 .. Num : Distinct(avail, seen, n) /\ Attached \subseteq Window(avail, seen, n)

(* The inductive invariant.                                                *)
IInv == Types /\ Descriptors /\ Counts /\ Lists /\ Detached

-----------------------------------------------------------------------------
(* What its operations do to the descriptors.                              *)
(* An add with a chain of n descriptors, an indirect table having one.     *)
Added(m, n) ==
  /\ n \in 1 .. MaxChain /\ n \in 1 .. num_unused
  /\ detaching = FALSE
  /\ \A i \in Slots : opaque[i] # m
  /\ opaque' = [opaque EXCEPT ![first_unused] = m]
  /\ more' \in Flags
  /\ \A i \in Slots : more'[i] = IF i \in Piece(next, first_unused, n)
                                 THEN i # Walk(next, first_unused)[n - 1]
                                 ELSE more[i]
  /\ first_unused' = Walk(next, first_unused)[n]
  /\ num_unused' = num_unused - n
  /\ avail' = [avail EXCEPT ![avail_idx % Num] = first_unused]
  /\ avail_idx' = (avail_idx + 1) % Modulus
  /\ UNCHANGED <<next, last_used, used, used_idx, seen, working, detaching>>

(* Either way of virtqueue_add_buf_split, regular or indirect, is such an  *)
(* add.                                                                    *)
LEMMA AddIs ==
  ASSUME Types, NEW m \in Msgs, AddBuf(m)
  PROVE  \E n \in Nat : Added(m, n)
<1> DEFINE f == first_unused
           w == Walk(next, f)
<1>1. /\ next \in Tables /\ more \in Flags /\ f \in Slots /\ num_unused \in Nat
      /\ MaxChain \in Nat \ {0} /\ detaching \in BOOLEAN
  BY SplitRingAssumption, Sizes DEF Types
<1>2. w[0] = f /\ w[1] = next[f]
  <2>1. 1 \in 1 .. Num /\ 1 - 1 = 0
    BY Sizes
  <2>2. w[0] = f /\ w[1] = next[w[0]]
    BY <1>1, <2>1, WalkIs
  <2>3. QED
    BY <2>2
<1> HIDE DEF w, f
<1>3. PICK n \in 1 .. MaxChain : AddChain(m, n) \/ AddIndirect(m, n)
  BY DEF AddBuf
<1>4. ~detaching /\ \A i \in Slots : opaque[i] # m
  BY DEF AddBuf
<1>5. CASE AddChain(m, n)
  <2>1. n \in Nat /\ n \in 1 .. num_unused
    BY <1>1, <1>3, <1>5 DEF AddChain
  <2>2. Taken(n) = Piece(next, f, n) /\ From(first_unused) = w
    BY LayoutSeen DEF f, w
  <2>3. more' = [i \in Slots |-> IF i \in Piece(next, f, n) THEN i # w[n - 1] ELSE more[i]]
    BY <1>5, <2>2 DEF AddChain
  <2>4. more' \in Flags
    BY <1>1, <2>3 DEF Flags
  <2>5. \A i \in Slots : more'[i] = IF i \in Piece(next, f, n) THEN i # w[n - 1] ELSE more[i]
    BY <2>3, Zenon
  <2>6. Added(m, n)
    BY <1>1, <1>3, <1>4, <1>5, <2>1, <2>2, <2>4, <2>5
    DEF AddChain, Publish, Added, f, w, deviceVars
  <2>7. QED
    BY <2>1, <2>6
<1>6. CASE AddIndirect(m, n)
  <2>1. 1 \in Nat /\ 1 \in 1 .. num_unused /\ 1 \in 1 .. MaxChain /\ 1 - 1 = 0
    BY <1>1, <1>6 DEF AddIndirect
  <2>2. Piece(next, f, 1) = {f}
    BY <1>2 DEF Piece, w
  <2>3. more' = [more EXCEPT ![f] = FALSE]
    BY <1>6 DEF AddIndirect, f
  <2>4. more' \in Flags
    BY <1>1, <2>3 DEF Flags
  <2>5. \A i \in Slots : more'[i] = IF i \in Piece(next, f, 1) THEN i # w[1 - 1] ELSE more[i]
    BY <1>1, <1>2, <2>1, <2>2, <2>3 DEF Flags
  <2>6. Added(m, 1)
    BY <1>1, <1>2, <1>4, <1>6, <2>1, <2>4, <2>5
    DEF AddIndirect, Publish, Added, f, w, deviceVars
  <2>7. QED
    BY <2>1, <2>6
<1>7. QED
  BY <1>3, <1>5, <1>6

(* It keeps the descriptors in order and puts out one more buffer.         *)
LEMMA AddDescriptors ==
  ASSUME Types, Descriptors, NEW m \in Msgs, NEW n \in Nat, Added(m, n)
  PROVE  /\ Descriptors' /\ Types'
         /\ Attached' = Attached \cup {first_unused} /\ first_unused \notin Attached
         /\ \A i : i = first_unused => Links(i)' = n - 1
         /\ \A i \in Attached : Links(i)' = Links(i)
<1> DEFINE f == first_unused
<1> HIDE DEF f
<1>1. /\ next \in Tables /\ more \in Flags /\ f \in Slots /\ num_unused \in 0 .. Num
      /\ n \in 1 .. num_unused /\ more' \in Flags /\ Attached \in SUBSET Slots
      /\ opaque \in [Slots -> Msgs \cup {NoMsg}]
  BY AttachedIn DEF Types, Added, f
<1>2. /\ Layout(next, more', Walk(next, f)[n], num_unused - n, Attached \cup {f})
      /\ Walk(next, f)[n] \in Slots /\ f \notin Attached
      /\ LinksOf(next, more', f) = n - 1
      /\ \A i \in Attached : LinksOf(next, more', i) = LinksOf(next, more, i)
  <2>1. Adds(next, more, f, num_unused, Attached, n, more')
    BY <1>1 DEF Adds, Added, Descriptors, f
  <2>2. AddsWell(next, more, f, num_unused, Attached, n, more')
    BY <2>1, LayoutAdd, Zenon
  <2>3. QED
    BY <2>2, Zenon DEF AddsWell
<1>3. opaque' = [opaque EXCEPT ![f] = m] /\ next' = next /\ \A i \in Slots : opaque[i] # m
  BY DEF Added, f
<1>4. Attached' = Attached \cup {f}
  BY <1>1, <1>3, SplitRingAssumption DEF Attached
<1>5. opaque' \in [Slots -> Msgs \cup {NoMsg}]
  BY <1>1, <1>3
<1>6. Opaques'
  BY <1>1, <1>3, <1>4 DEF Descriptors, Opaques
<1>7. avail_idx' \in Index /\ avail' \in Tables
  <2>1. avail_idx' = (avail_idx + 1) % Modulus /\ avail_idx + 1 \in Nat
    BY Sizes DEF Types, Added, Index
  <2>2. avail' = [avail EXCEPT ![avail_idx % Num] = f] /\ avail \in Tables
    BY DEF Added, Types, f
  <2>3. avail_idx' \in Index
    BY <2>1, Remainders DEF Index
  <2>4. QED
    BY <1>1, <2>2, <2>3 DEF Tables
<1>8. num_unused - n \in 0 .. Num
  BY <1>1, Sizes
<1>9. Types'
  BY <1>1, <1>2, <1>3, <1>5, <1>7, <1>8 DEF Types, Added, f
<1>10. Layout(next', more', first_unused', num_unused', Attached')
  BY <1>2, <1>3, <1>4 DEF Added, f
<1>11. Descriptors'
  BY <1>6, <1>10 DEF Descriptors
<1>12. \A i : Links(i)' = LinksOf(next', more', i)
  BY LayoutSeen
<1>13. \A i : Links(i) = LinksOf(next, more, i)
  BY LayoutSeen
<1>14. \A i : Links(i)' = LinksOf(next, more', i)
  BY <1>3, <1>12, Zenon
<1>15. \A i \in Attached : Links(i)' = Links(i)
  BY <1>2, <1>13, <1>14, Zenon
<1>16. \A i : i = f => Links(i)' = n - 1
  BY <1>2, <1>14
<1>17. QED
  BY <1>2, <1>4, <1>9, <1>11, <1>15, <1>16, Zenon DEF f

(* put_unused_desc_chain keeps the descriptors in order and takes one      *)
(* buffer in.                                                              *)
LEMMA PutDescriptors ==
  ASSUME Types, Descriptors, NEW i \in Attached, PutUnusedDescChain(i)
  PROVE  /\ Descriptors'
         /\ next' \in Tables /\ more' \in Flags /\ first_unused' \in Slots
         /\ num_unused' \in 0 .. Num /\ num_unused' = num_unused + Links(i) + 1
         /\ opaque' \in [Slots -> Msgs \cup {NoMsg}]
         /\ opaque' = [opaque EXCEPT ![i] = NoMsg]
         /\ Attached' = Attached \ {i}
         /\ \A j \in Attached \ {i} : Links(j)' = Links(j)
<1> DEFINE f == first_unused
           e == Last(next, more, i)
<1>1. /\ next \in Tables /\ more \in Flags /\ f \in Slots /\ num_unused \in 0 .. Num
      /\ Attached \in SUBSET Slots /\ opaque \in [Slots -> Msgs \cup {NoMsg}] /\ i \in Slots
  BY AttachedIn DEF Types
<1>2. /\ Links(i) = LinksOf(next, more, i) /\ From(i) = Walk(next, i)
      /\ \A j : Links(j) = LinksOf(next, more, j)
  BY LayoutSeen
<1>3. e = From(i)[Links(i)]
  BY <1>2 DEF Last
<1>4. /\ opaque' = [opaque EXCEPT ![i] = NoMsg] /\ more' = [more EXCEPT ![e] = TRUE]
      /\ next' = [next EXCEPT ![e] = f] /\ num_unused' = num_unused + Links(i) + 1
      /\ first_unused' = i
  BY <1>3 DEF PutUnusedDescChain
<1> HIDE DEF f, e
<1>5. /\ e \in Slots
      /\ Layout([next EXCEPT ![e] = f], [more EXCEPT ![e] = TRUE],
                i, num_unused + LinksOf(next, more, i) + 1, Attached \ {i})
      /\ num_unused + LinksOf(next, more, i) + 1 \in 0 .. Num
      /\ \A j \in Attached \ {i} :
           LinksOf([next EXCEPT ![e] = f], [more EXCEPT ![e] = TRUE], j)
             = LinksOf(next, more, j)
  <2>1. Puts(next, more, f, num_unused, Attached, i)
    BY <1>1 DEF Puts, Descriptors, f
  <2>2. PutsWell(next, more, f, num_unused, Attached, i)
    BY <2>1, LayoutPut, Zenon
  <2>3. QED
    BY <2>2, Zenon DEF PutsWell, e
<1>6. Attached' = Attached \ {i}
  BY <1>1, <1>4 DEF Attached
<1>7. opaque' \in [Slots -> Msgs \cup {NoMsg}]
  BY <1>1, <1>4
<1>8. Opaques'
  BY <1>1, <1>4, <1>6 DEF Descriptors, Opaques
<1>9. next' \in Tables /\ more' \in Flags
  BY <1>1, <1>4, <1>5 DEF Tables, Flags
<1>10. Layout(next', more', first_unused', num_unused', Attached')
  BY <1>2, <1>4, <1>5, <1>6
<1>11. Descriptors'
  BY <1>8, <1>10 DEF Descriptors
<1>12. \A j : Links(j)' = LinksOf(next', more', j)
  BY LayoutSeen
<1>13. \A j \in Attached \ {i} : Links(j)' = Links(j)
  BY <1>2, <1>4, <1>5, <1>12
<1>14. QED
  BY <1>1, <1>2, <1>4, <1>5, <1>6, <1>7, <1>9, <1>11, <1>13

-----------------------------------------------------------------------------
(* The steps.                                                              *)

(* The counts are at most the size of the queue, so the gaps add up.       *)
LEMMA CountsAre ==
  ASSUME IInv
  PROVE  /\ IsFiniteSet(working) /\ Cardinality(working) \in Nat
         /\ Cardinality(Attached) \in 0 .. Num /\ IsFiniteSet(Attached)
         /\ Attached \in SUBSET Slots
         /\ Gap(last_used, seen) \in 0 .. Num /\ Gap(seen, avail_idx) \in 0 .. Num
         /\ Gap(last_used, used_idx) \in 0 .. Num /\ Gap(last_used, avail_idx) \in 0 .. Num
         /\ Gap(last_used, used_idx) + Cardinality(working) <= Num
         /\ Cardinality(Attached) =
              Gap(last_used, used_idx) + Cardinality(working) + Gap(seen, avail_idx)
<1>1. IsFiniteSet(working) /\ Cardinality(working) \in Nat
  <2>1. working \subseteq Slots
    BY DEF IInv, Types
  <2>2. QED
    BY <2>1, SlotsFinite, FS_Subset, FS_CardinalityType
<1>2. /\ Cardinality(Attached) \in 0 .. Num /\ IsFiniteSet(Attached)
      /\ Attached \in SUBSET Slots
  BY AttachedIn, Sizes
<1>3. /\ Gap(last_used, seen) \in Nat /\ Gap(seen, avail_idx) \in Nat
      /\ Gap(last_used, used_idx) \in Nat /\ Gap(last_used, avail_idx) \in Nat
  BY GapMoves, Sizes DEF IInv, Types, Index
<1>4. QED
  BY <1>1, <1>2, <1>3, Sizes DEF IInv, Counts

(* virtqueue_add_buf_split: the slot it writes is free, for not every slot *)
(* is a head.                                                              *)
LEMMA AddStep ==
  ASSUME IInv, NEW m \in Msgs, NEW n \in Nat, Added(m, n)
  PROVE  IInv'
<1> DEFINE f == first_unused
           w == Gap(seen, avail_idx)
           a == Gap(last_used, avail_idx)
<1>1. /\ Types /\ Descriptors /\ Types' /\ Descriptors'
      /\ Attached' = Attached \cup {f} /\ f \notin Attached
  BY AddDescriptors DEF IInv
<1>2. /\ avail \in Tables /\ seen \in Index /\ avail_idx \in Index /\ last_used \in Index
      /\ f \in Slots
  BY <1>1 DEF Types
<1>3. /\ avail' = [avail EXCEPT ![avail_idx % Num] = f]
      /\ avail_idx' = (avail_idx + 1) % Modulus
      /\ UNCHANGED <<last_used, used, used_idx, seen, working, detaching>> /\ detaching = FALSE
  BY DEF Added, f
<1> HIDE DEF f
<1>4. /\ IsFiniteSet(Attached') /\ Cardinality(Attached') <= Num
      /\ Cardinality(Attached') = Cardinality(Attached) + 1
  <2>1. Attached \cup {f} \subseteq Slots
    BY <1>2, AttachedIn
  <2>2. IsFiniteSet(Attached \cup {f}) /\ Cardinality(Attached \cup {f}) <= Num
    BY <2>1, SlotsFinite, FS_Subset
  <2>3. Cardinality(Attached \cup {f}) = Cardinality(Attached) + 1
    BY <1>1, AttachedIn, FS_AddElement
  <2>4. QED
    BY <1>1, <2>2, <2>3
<1>5. a < Num /\ a \in Nat /\ w < Num /\ w \in Nat /\ w \in 0 .. Num
  BY <1>4, CountsAre, Sizes DEF IInv, Counts
<1>6. /\ Gap(seen, (avail_idx + 1) % Modulus) = w + 1
      /\ Window(avail', seen, w + 1) = Window(avail, seen, w) \cup {f}
      /\ Distinct(avail, seen, w) /\ f \notin Window(avail, seen, w)
           => Distinct(avail', seen, w + 1)
  <2>1. Pushes(avail, seen, avail_idx, w, f, avail')
    BY <1>2, <1>3, <1>5 DEF Pushes
  <2>2. Pushed(avail, seen, avail_idx, w, f, avail')
    BY <2>1, WindowPush, Zenon
  <2>3. QED
    BY <2>2, Zenon DEF Pushed
<1>7. Gap(last_used, (avail_idx + 1) % Modulus) = a + 1
  <2>1. a < Modulus - 1
    BY <1>5, Sizes
  <2>2. QED
    BY <1>2, <2>1, GapMoves
<1> HIDE DEF w, a
<1>8. Counts'
  <2>1. /\ Gap(last_used, seen)' = Gap(last_used, seen)
        /\ Gap(last_used, used_idx)' = Gap(last_used, used_idx)
        /\ Cardinality(working)' = Cardinality(working)
        /\ Gap(last_used, avail_idx)' = Gap(last_used, (avail_idx + 1) % Modulus)
        /\ Gap(seen, avail_idx)' = Gap(seen, (avail_idx + 1) % Modulus)
    BY <1>3
  <2>2. QED
    BY <1>4, <1>6, <1>7, <2>1, CountsAre DEF IInv, Counts, w, a
<1>9. Lists'
  <2>1. Distinct(avail, seen, w) /\ Distinct(used, last_used, Gap(last_used, used_idx))
    BY <1>3 DEF IInv, Lists, w
  <2>2. /\ Waits \cap working = {} /\ Waits \cap Backs = {} /\ Backs \cap working = {}
        /\ Attached = Waits \cup working \cup Backs
    BY <1>3 DEF IInv, Lists
  <2>3. f \notin Waits /\ Waits = Window(avail, seen, w)
    BY <1>1, <2>2 DEF Waits, w
  <2>4. Waits' = Waits \cup {f} /\ Backs' = Backs
    BY <1>3, <1>6, <2>3 DEF Waits, Backs
  <2>5. /\ Distinct(avail, seen, Gap(seen, avail_idx))'
        /\ Distinct(used, last_used, Gap(last_used, used_idx))'
    BY <1>3, <1>6, <2>1, <2>3
  <2>6. /\ (Waits \cap working = {})' /\ (Waits \cap Backs = {})' /\ (Backs \cap working = {})'
        /\ (Attached = Waits \cup working \cup Backs)'
    BY <1>1, <1>3, <2>2, <2>4
  <2>7. QED
    BY <2>5, <2>6 DEF Lists
<1>10. Detached'
  BY <1>3 DEF Detached
<1>11. QED
  BY <1>1, <1>8, <1>9, <1>10 DEF IInv

(* The device takes the first of what waits.                               *)
LEMMA TakeStep ==
  ASSUME IInv, DeviceTake
  PROVE  IInv'
<1> DEFINE w == Gap(seen, avail_idx)
           h == avail[seen % Num]
           s2 == (seen + 1) % Modulus
<1>1. /\ detaching = FALSE /\ seen # avail_idx /\ working' = working \cup {h} /\ seen' = s2
      /\ UNCHANGED <<next, more, first_unused, num_unused, opaque, last_used>>
      /\ UNCHANGED <<avail, avail_idx, used, used_idx, detaching>>
  BY DEF DeviceTake, driverVars, availVars, IInv, Types
<1>2. Attached' = Attached
  BY <1>1 DEF Attached
<1>3. /\ avail \in Tables /\ seen \in Index /\ avail_idx \in Index /\ last_used \in Index
      /\ working \in SUBSET Slots /\ seen \in Nat /\ h \in Slots
  <2>1. avail \in Tables /\ seen \in Index /\ avail_idx \in Index /\ last_used \in Index
        /\ working \in SUBSET Slots /\ seen \in Nat
    BY Sizes DEF IInv, Types, Index
  <2>2. QED
    BY <2>1, RingIn DEF Tables
<1>4. /\ w > 0 /\ s2 \in Index /\ Gap(s2, avail_idx) = w - 1
      /\ Window(avail, seen, w) = {h} \cup Window(avail, s2, w - 1)
      /\ Distinct(avail, seen, w) => /\ h \notin Window(avail, s2, w - 1)
                                     /\ Distinct(avail, s2, w - 1)
  BY <1>1, <1>3, WindowPop
<1>5. /\ Waits \cap working = {} /\ Waits \cap Backs = {} /\ Backs \cap working = {}
      /\ Attached = Waits \cup working \cup Backs /\ Distinct(avail, seen, w)
      /\ Distinct(used, last_used, Gap(last_used, used_idx))
  BY <1>1 DEF IInv, Lists
<1>6. /\ Gap(last_used, seen) < Num /\ Gap(last_used, seen) \in Nat /\ w \in Nat
      /\ Gap(last_used, seen) < Modulus - 1
  BY <1>4, CountsAre, Sizes DEF IInv, Counts
<1>7. Gap(last_used, s2) = Gap(last_used, seen) + 1
  BY <1>3, <1>6, GapMoves
<1>8. h \notin working /\ Cardinality(working \cup {h}) = Cardinality(working) + 1
  <2>1. h \in Waits
    BY <1>4 DEF Waits
  <2>2. h \notin working
    BY <1>5, <2>1
  <2>3. QED
    BY <2>2, CountsAre, FS_AddElement
<1> HIDE DEF w, h, s2
<1>9. Types'
  BY <1>1, <1>3, <1>4 DEF IInv, Types
<1>10. Descriptors'
  BY <1>1, <1>2 DEF IInv, Descriptors, Opaques
<1>11. Counts'
  <2>1. /\ Gap(last_used, seen)' = Gap(last_used, s2)
        /\ Gap(last_used, used_idx)' = Gap(last_used, used_idx)
        /\ Cardinality(working)' = Cardinality(working \cup {h})
        /\ Gap(last_used, avail_idx)' = Gap(last_used, avail_idx)
        /\ Gap(seen, avail_idx)' = Gap(s2, avail_idx)
    BY <1>1
  <2>2. QED
    BY <1>2, <1>4, <1>6, <1>7, <1>8, <2>1, CountsAre DEF IInv, Counts, w
<1>12. Lists'
  <2>1. Waits = {h} \cup Waits' /\ h \notin Waits' /\ Backs' = Backs
    BY <1>1, <1>4, <1>5 DEF Waits, Backs, w
  <2>2. Distinct(avail, seen, Gap(seen, avail_idx))'
    BY <1>1, <1>4, <1>5
  <2>3. Distinct(used, last_used, Gap(last_used, used_idx))'
    BY <1>1, <1>5
  <2>4. /\ (Waits \cap working = {})' /\ (Waits \cap Backs = {})' /\ (Backs \cap working = {})'
        /\ (Attached = Waits \cup working \cup Backs)'
    BY <1>1, <1>2, <1>5, <2>1
  <2>5. QED
    BY <2>2, <2>3, <2>4 DEF Lists
<1>13. Detached'
  BY <1>1 DEF Detached
<1>14. QED
  BY <1>9, <1>10, <1>11, <1>12, <1>13 DEF IInv

(* The device gives one back: the slot it writes was collected.            *)
LEMMA GiveBackStep ==
  ASSUME IInv, NEW i \in Slots, DeviceGiveBack(i)
  PROVE  IInv'
<1> DEFINE d == Gap(last_used, used_idx)
<1>1. /\ i \in working /\ working' = working \ {i}
      /\ used' = [used EXCEPT ![used_idx % Num] = i] /\ used_idx' = (used_idx + 1) % Modulus
      /\ UNCHANGED <<next, more, first_unused, num_unused, opaque, last_used>>
      /\ UNCHANGED <<avail, avail_idx, seen, detaching>>
  BY DEF DeviceGiveBack, driverVars, availVars
<1>2. Attached' = Attached
  BY <1>1 DEF Attached
<1>3. /\ used \in Tables /\ used_idx \in Index /\ last_used \in Index /\ detaching \in BOOLEAN
      /\ working \in SUBSET Slots
  BY DEF IInv, Types
<1>4. detaching = FALSE
  BY <1>1, <1>3 DEF IInv, Detached
<1>5. Cardinality(working \ {i}) = Cardinality(working) - 1 /\ Cardinality(working) > 0
  <2>1. Cardinality(working \ {i}) = Cardinality(working) - 1
    BY <1>1, CountsAre, FS_RemoveElement
  <2>2. IsFiniteSet(working \ {i}) /\ Cardinality(working \ {i}) \in Nat
    BY CountsAre, FS_Subset, FS_CardinalityType
  <2>3. QED
    BY <2>1, <2>2, CountsAre
<1>6. d < Num /\ d \in Nat
  BY <1>5, CountsAre, Sizes
<1>7. /\ used' \in Tables /\ Gap(last_used, (used_idx + 1) % Modulus) = d + 1
      /\ Window(used', last_used, d + 1) = Window(used, last_used, d) \cup {i}
      /\ Distinct(used, last_used, d) /\ i \notin Window(used, last_used, d)
           => Distinct(used', last_used, d + 1)
  <2>1. Pushes(used, last_used, used_idx, d, i, used')
    BY <1>1, <1>3, <1>6 DEF Pushes
  <2>2. Pushed(used, last_used, used_idx, d, i, used')
    BY <2>1, WindowPush, Zenon
  <2>3. QED
    BY <2>2, Zenon DEF Pushed
<1>8. (used_idx + 1) % Modulus \in Index
  BY <1>3, GapMoves
<1> HIDE DEF d
<1>9. Types'
  BY <1>1, <1>3, <1>7, <1>8 DEF IInv, Types
<1>10. Descriptors'
  BY <1>1, <1>2 DEF IInv, Descriptors, Opaques
<1>11. Counts'
  <2>1. /\ Gap(last_used, seen)' = Gap(last_used, seen)
        /\ Gap(last_used, used_idx)' = Gap(last_used, (used_idx + 1) % Modulus)
        /\ Cardinality(working)' = Cardinality(working \ {i})
        /\ Gap(last_used, avail_idx)' = Gap(last_used, avail_idx)
        /\ Gap(seen, avail_idx)' = Gap(seen, avail_idx)
    BY <1>1
  <2>2. QED
    BY <1>2, <1>5, <1>6, <1>7, <2>1, CountsAre DEF IInv, Counts, d
<1>12. Lists'
  <2>1. /\ Waits \cap working = {} /\ Waits \cap Backs = {} /\ Backs \cap working = {}
        /\ Attached = Waits \cup working \cup Backs /\ Distinct(used, last_used, d)
        /\ Distinct(avail, seen, Gap(seen, avail_idx))
    BY <1>4 DEF IInv, Lists, d
  <2>2. Backs = Window(used, last_used, d) /\ i \notin Backs
    BY <1>1, <2>1 DEF Backs, d
  <2>3. Backs' = Backs \cup {i} /\ Waits' = Waits
    BY <1>1, <1>7, <2>2 DEF Backs, Waits
  <2>4. Distinct(used, last_used, Gap(last_used, used_idx))'
    BY <1>1, <1>7, <2>1, <2>2
  <2>5. Distinct(avail, seen, Gap(seen, avail_idx))'
    BY <1>1, <2>1
  <2>6. /\ (Waits \cap working = {})' /\ (Waits \cap Backs = {})' /\ (Backs \cap working = {})'
        /\ (Attached = Waits \cup working \cup Backs)'
    BY <1>1, <1>2, <2>1, <2>2, <2>3
  <2>7. QED
    BY <2>4, <2>5, <2>6 DEF Lists
<1>13. Detached'
  BY <1>1, <1>4 DEF Detached
<1>14. QED
  BY <1>9, <1>10, <1>11, <1>12, <1>13 DEF IInv

(* The entry that is collected, and the count of what remains.             *)
LEMMA Collected ==
  ASSUME IInv, GetBuf
  PROVE  LET h == used[last_used % Num]
         IN  /\ h \in Attached /\ h \in Backs /\ h \notin working /\ h \notin Waits
             /\ PutUnusedDescChain(h)
             /\ Gap(last_used, used_idx) > 0 /\ last_used # used_idx
<1> DEFINE d == Gap(last_used, used_idx)
           h == used[last_used % Num]
<1>1. detaching = FALSE /\ last_used # used_idx /\ PutUnusedDescChain(h)
  BY DEF GetBuf, HasBuf, IInv, Types
<1>2. used \in Tables /\ last_used \in Index /\ used_idx \in Index
  BY DEF IInv, Types
<1>3. d > 0 /\ h \in Window(used, last_used, d)
  BY <1>1, <1>2, WindowPop
<1>4. h \in Backs
  BY <1>3 DEF Backs
<1>5. h \in Attached /\ h \notin working /\ h \notin Waits
  BY <1>1, <1>4 DEF IInv, Lists
<1>6. QED
  BY <1>1, <1>3, <1>4, <1>5

(* virtqueue_get_buf_split.                                                *)
LEMMA GetStep ==
  ASSUME IInv, GetBuf
  PROVE  IInv'
<1>1. PICK h \in Attached : h = used[last_used % Num]
  BY Collected
<1> DEFINE d == Gap(last_used, used_idx)
           l2 == (last_used + 1) % Modulus
<1>2. /\ h \in Backs /\ h \notin working /\ h \notin Waits /\ PutUnusedDescChain(h)
      /\ last_used # used_idx /\ d > 0
  BY <1>1, Collected
<1>3. /\ last_used' = l2 /\ UNCHANGED <<avail, avail_idx, used, used_idx, seen, working, detaching>>
      /\ detaching = FALSE
  BY DEF GetBuf, availVars, deviceVars, IInv, Types
<1>4. /\ Descriptors'
      /\ next' \in Tables /\ more' \in Flags /\ first_unused' \in Slots
      /\ num_unused' \in 0 .. Num /\ opaque' \in [Slots -> Msgs \cup {NoMsg}]
      /\ Attached' = Attached \ {h}
  BY <1>2, PutDescriptors DEF IInv
<1>5. /\ used \in Tables /\ last_used \in Index /\ used_idx \in Index /\ seen \in Index
      /\ avail_idx \in Index
  BY DEF IInv, Types
<1>6. /\ Gap(l2, used_idx) = d - 1 /\ l2 \in Index
      /\ Window(used, last_used, d) = {h} \cup Window(used, l2, d - 1)
      /\ Distinct(used, last_used, d) => /\ h \notin Window(used, l2, d - 1)
                                         /\ Distinct(used, l2, d - 1)
  BY <1>1, <1>2, <1>5, WindowPop
<1>7. /\ last_used # seen /\ last_used # avail_idx
      /\ Gap(last_used, seen) > 0 /\ Gap(last_used, avail_idx) > 0
  <2>1. Gap(last_used, seen) > 0 /\ Gap(last_used, avail_idx) > 0
    BY <1>2, CountsAre, Sizes DEF IInv, Counts
  <2>2. QED
    BY <1>5, <2>1, GapMoves
<1>8. /\ Gap(l2, seen) = Gap(last_used, seen) - 1
      /\ Gap(l2, avail_idx) = Gap(last_used, avail_idx) - 1
  BY <1>5, <1>7, GapMoves
<1>9. Cardinality(Attached \ {h}) = Cardinality(Attached) - 1
  BY AttachedIn, FS_RemoveElement
<1> HIDE DEF d, l2
<1>10. Types'
  BY <1>3, <1>4, <1>6 DEF IInv, Types
<1>11. Counts'
  <2>1. /\ Gap(last_used, seen)' = Gap(l2, seen)
        /\ Gap(last_used, used_idx)' = Gap(l2, used_idx)
        /\ Cardinality(working)' = Cardinality(working)
        /\ Gap(last_used, avail_idx)' = Gap(l2, avail_idx)
        /\ Gap(seen, avail_idx)' = Gap(seen, avail_idx)
        /\ Cardinality(Attached)' = Cardinality(Attached \ {h})
    BY <1>3, <1>4
  <2>2. QED
    BY <1>6, <1>8, <1>9, <2>1, CountsAre DEF IInv, Counts, d
<1>12. Lists'
  <2>1. /\ Waits \cap working = {} /\ Waits \cap Backs = {} /\ Backs \cap working = {}
        /\ Attached = Waits \cup working \cup Backs /\ Distinct(used, last_used, d)
        /\ Distinct(avail, seen, Gap(seen, avail_idx))
    BY <1>3 DEF IInv, Lists, d
  <2>2. Backs = {h} \cup Backs' /\ h \notin Backs' /\ Waits' = Waits
    BY <1>3, <1>6, <2>1 DEF Backs, Waits, d
  <2>3. Distinct(used, last_used, Gap(last_used, used_idx))'
    BY <1>3, <1>6, <2>1
  <2>4. Distinct(avail, seen, Gap(seen, avail_idx))'
    BY <1>3, <2>1
  <2>5. /\ (Waits \cap working = {})' /\ (Waits \cap Backs = {})' /\ (Backs \cap working = {})'
        /\ (Attached = Waits \cup working \cup Backs)'
    BY <1>2, <1>3, <1>4, <2>1, <2>2
  <2>6. QED
    BY <2>3, <2>4, <2>5 DEF Lists
<1>13. Detached'
  BY <1>3 DEF Detached
<1>14. QED
  BY <1>4, <1>10, <1>11, <1>12, <1>13 DEF IInv

(* With nothing taken and nothing to collect, what is attached waits.      *)
LEMMA Placed ==
  ASSUME IInv, working = {}, last_used = used_idx
  PROVE  /\ seen = last_used /\ Gap(last_used, used_idx) = 0
         /\ Gap(seen, avail_idx) = Cardinality(Attached)
         /\ \E n \in 0 .. Num : /\ Distinct(avail, seen, n)
                            /\ Attached \subseteq Window(avail, seen, n)
<1>1. /\ last_used \in Index /\ used_idx \in Index /\ seen \in Index /\ avail_idx \in Index
      /\ detaching \in BOOLEAN
  BY DEF IInv, Types
<1>2. Gap(last_used, used_idx) = 0
  BY <1>1, GapMoves
<1>3. Cardinality(working) = 0
  BY FS_EmptySet
<1>4. Gap(last_used, seen) = 0 /\ Gap(seen, avail_idx) = Cardinality(Attached)
  BY <1>2, <1>3, CountsAre DEF IInv, Counts
<1>5. seen = last_used
  BY <1>1, <1>4, Sizes DEF Gap, Index
<1>6. CASE detaching = FALSE
  <2>1. Backs = {}
    BY <1>2 DEF Backs, Window
  <2>2. Attached = Waits /\ Distinct(avail, seen, Gap(seen, avail_idx))
    BY <1>6, <2>1 DEF IInv, Lists
  <2>3. Gap(seen, avail_idx) \in 0 .. Num
    BY CountsAre
  <2>4. QED
    BY <1>2, <1>4, <1>5, <2>2, <2>3 DEF Waits
<1>7. CASE detaching = TRUE
  BY <1>2, <1>4, <1>5, <1>7 DEF IInv, Detached
<1>8. QED
  BY <1>1, <1>6, <1>7

(* The scan of virtqueue_detach_unused_buf_split finds a buffer if there   *)
(* is one.                                                                 *)
LEMMA LowestIs ==
  ASSUME IInv, Attached # {}
  PROVE  Lowest \in Attached
<1>1. Attached \subseteq Nat
  BY AttachedIn, Sizes DEF Slots
<1>2. \E i \in Attached : \A j \in Attached : i <= j
  BY <1>1, HasLeast
<1>3. QED
  BY <1>2, Zenon DEF Lowest

(* virtqueue_detach_unused_buf_split: the indexes stay a window apart.     *)
LEMMA DetachStep ==
  ASSUME IInv, DetachUnusedBuf
  PROVE  IInv'
<1>1. PICK i \in Attached : i = Lowest
  BY LowestIs DEF DetachUnusedBuf
<1>2. /\ working = {} /\ last_used = used_idx /\ PutUnusedDescChain(i)
      /\ detaching' = (Attached # {i}) /\ avail_idx' = (avail_idx + Modulus - 1) % Modulus
      /\ UNCHANGED <<avail, last_used, used, used_idx, seen, working>>
  BY <1>1 DEF DetachUnusedBuf, HasBuf, deviceVars
<1>3. /\ Descriptors'
      /\ next' \in Tables /\ more' \in Flags /\ first_unused' \in Slots
      /\ num_unused' \in 0 .. Num /\ opaque' \in [Slots -> Msgs \cup {NoMsg}]
      /\ Attached' = Attached \ {i}
  BY <1>2, PutDescriptors DEF IInv
<1>4. /\ seen = last_used /\ Gap(last_used, used_idx) = 0
      /\ Gap(seen, avail_idx) = Cardinality(Attached)
  BY <1>2, Placed
<1>5. PICK n \in 0 .. Num :
        Distinct(avail, seen, n) /\ Attached \subseteq Window(avail, seen, n)
  BY <1>2, Placed
<1>6. /\ seen \in Index /\ avail_idx \in Index /\ last_used \in Index
  BY DEF IInv, Types
<1>7. /\ Cardinality(Attached \ {i}) = Cardinality(Attached) - 1
      /\ Cardinality(Attached \ {i}) \in Nat
  <2>1. Cardinality(Attached \ {i}) = Cardinality(Attached) - 1
    BY AttachedIn, FS_RemoveElement
  <2>2. IsFiniteSet(Attached \ {i}) /\ Cardinality(Attached \ {i}) \in Nat
    BY AttachedIn, FS_Subset, FS_CardinalityType
  <2>3. QED
    BY <2>1, <2>2
<1>8. seen # avail_idx
  BY <1>4, <1>6, <1>7, AttachedIn, GapMoves
<1>9. /\ Gap(seen, (avail_idx + Modulus - 1) % Modulus) = Gap(seen, avail_idx) - 1
      /\ (avail_idx + Modulus - 1) % Modulus \in Index
  BY <1>6, <1>8, GapMoves
<1>10. Types'
  BY <1>2, <1>3, <1>9 DEF IInv, Types
<1>11. /\ Gap(last_used, seen)' = 0 /\ Gap(last_used, used_idx)' = 0
       /\ Gap(seen, avail_idx)' = Cardinality(Attached \ {i})
       /\ Gap(last_used, avail_idx)' = Cardinality(Attached \ {i})
       /\ Cardinality(working)' = 0 /\ Cardinality(Attached)' = Cardinality(Attached \ {i})
  <2>1. Gap(last_used, seen) = 0
    BY <1>4, <1>6, GapMoves
  <2>2. Gap(seen, (avail_idx + Modulus - 1) % Modulus) = Cardinality(Attached \ {i})
    BY <1>4, <1>7, <1>9
  <2>3. Cardinality({}) = 0
    BY FS_EmptySet
  <2>4. QED
    BY <1>2, <1>3, <1>4, <2>1, <2>2, <2>3
<1>12. Counts'
  BY <1>7, <1>11 DEF Counts
<1>13. Lists'
  <2>1. ASSUME detaching' = FALSE PROVE Lists'
    <3>1. Attached \ {i} = {} /\ Cardinality(Attached \ {i}) = 0
      BY <1>2, <2>1, FS_EmptySet
    <3>2. Gap(seen, avail_idx)' = 0 /\ Gap(last_used, used_idx)' = 0 /\ Attached' = {}
      BY <1>3, <1>11, <3>1
    <3>3. Waits' = {} /\ Backs' = {} /\ working' = {}
      BY <1>2, <3>2 DEF Waits, Backs, Window
    <3>4. /\ Distinct(avail, seen, Gap(seen, avail_idx))'
          /\ Distinct(used, last_used, Gap(last_used, used_idx))'
      BY <3>2 DEF Distinct
    <3>5. QED
      BY <3>2, <3>3, <3>4 DEF Lists
  <2>2. QED
    BY <2>1 DEF Lists
<1>14. Detached'
  <2>1. Distinct(avail, seen, n)' /\ Attached' \subseteq Window(avail, seen, n)'
    BY <1>2, <1>3, <1>5
  <2>2. \E k \in 0 .. Num : Distinct(avail, seen, k)' /\ Attached' \subseteq Window(avail, seen, k)'
    BY <2>1
  <2>3. QED
    BY <1>2, <1>4, <2>2 DEF Detached
<1>15. QED
  BY <1>3, <1>10, <1>12, <1>13, <1>14 DEF IInv

(* The state of Init, and of Shutdown.                                     *)
LEMMA InitInv == Init => IInv
<1> SUFFICES ASSUME Init PROVE IInv
  OBVIOUS
<1>1. /\ Num \in Nat /\ 0 \in Slots /\ 0 \in Index /\ NoMsg \notin Msgs /\ Num \in 0 .. Num
  BY Sizes, SplitRingAssumption DEF Slots, Index
<1>2. next \in Tables /\ Layout(next, more, first_unused, num_unused, {})
  BY LayoutInit DEF Init
<1>3. Types
  BY <1>1, <1>2 DEF Init, Types, Tables, Flags
<1>4. Attached = {}
  BY DEF Init, Attached
<1>5. Descriptors
  BY <1>2, <1>4 DEF Descriptors, Opaques
<1>6. /\ Gap(last_used, seen) = 0 /\ Gap(last_used, used_idx) = 0
      /\ Gap(last_used, avail_idx) = 0 /\ Gap(seen, avail_idx) = 0
      /\ Cardinality(working) = 0 /\ Cardinality(Attached) = 0
  BY <1>1, <1>4, GapMoves, FS_EmptySet DEF Init
<1>7. Counts
  BY <1>6 DEF Counts
<1>8. Lists
  BY <1>4, <1>6 DEF Lists, Waits, Backs, Window, Distinct, Init
<1>9. Detached
  BY DEF Init, Detached
<1>10. QED
  BY <1>3, <1>5, <1>7, <1>8, <1>9 DEF IInv

(* virtqueue_shutdown_split.                                               *)
LEMMA ResetStep ==
  ASSUME Shutdown
  PROVE  IInv'
<1>1. /\ Num \in Nat /\ 0 \in Slots /\ 0 \in Index /\ NoMsg \notin Msgs /\ Num \in 0 .. Num
  BY Sizes, SplitRingAssumption DEF Slots, Index
<1>2. next' \in Tables /\ Layout(next', more', first_unused', num_unused', {})
  BY LayoutInit DEF Shutdown
<1>3. Types'
  BY <1>1, <1>2 DEF Shutdown, Types, Tables, Flags
<1>4. Attached' = {}
  BY DEF Shutdown, Attached
<1>5. Descriptors'
  BY <1>2, <1>4 DEF Descriptors, Opaques
<1>6. /\ Gap(last_used, seen)' = 0 /\ Gap(last_used, used_idx)' = 0
      /\ Gap(last_used, avail_idx)' = 0 /\ Gap(seen, avail_idx)' = 0
      /\ Cardinality(working)' = 0 /\ Cardinality(Attached)' = 0
  <2>1. Gap(0, 0) = 0 /\ Cardinality({}) = 0
    BY <1>1, GapMoves, FS_EmptySet
  <2>2. QED
    BY <1>4, <2>1 DEF Shutdown
<1>7. Counts'
  BY <1>6 DEF Counts
<1>8. Lists'
  BY <1>4, <1>6 DEF Lists, Waits, Backs, Window, Distinct, Shutdown
<1>9. Detached'
  BY DEF Shutdown, Detached
<1>10. QED
  BY <1>3, <1>5, <1>7, <1>8, <1>9 DEF IInv

(* No step.                                                                *)
LEMMA StutterStep ==
  ASSUME IInv, UNCHANGED vars
  PROVE  IInv'
<1>1. /\ UNCHANGED <<next, more, first_unused, num_unused, opaque, last_used>>
      /\ UNCHANGED <<avail, avail_idx, used, used_idx, seen, working, detaching>>
  BY DEF vars, driverVars, availVars, deviceVars
<1>2. Attached' = Attached
  BY <1>1 DEF Attached
<1>3. QED
  BY <1>1, <1>2 DEF IInv, Types, Descriptors, Opaques, Counts, Lists, Detached, Waits, Backs

(* Every step keeps the invariant.                                         *)
LEMMA StepInv == IInv /\ [Next]_vars => IInv'
<1> SUFFICES ASSUME IInv, [Next]_vars PROVE IInv'
  OBVIOUS
<1>1. ASSUME NEW m \in Msgs, AddBuf(m) PROVE IInv'
  BY <1>1, AddIs, AddStep DEF IInv
<1>2. ASSUME NEW i \in Slots, DeviceGiveBack(i) PROVE IInv'
  BY <1>2, GiveBackStep
<1>3. CASE UNCHANGED vars
  BY <1>3, StutterStep
<1>4. QED
  BY <1>1, <1>2, <1>3, GetStep, DetachStep, ResetStep, TakeStep DEF Next

(* It implies what RingInv states.                                         *)
LEMMA InvImplies == IInv => RingInv
<1> SUFFICES ASSUME IInv PROVE RingInv
  OBVIOUS
<1>1. TypeOK
  BY DEF IInv, Types, TypeOK, Tables, Flags, Index
<1>2. DescriptorsPartitioned
  BY AttachedIn, LayoutPartitions DEF IInv, Types, Descriptors
<1>3. NoOverrun
  <2>1. avail_idx \in Index /\ used_idx \in Index /\ last_used \in Index /\ seen \in Index
    BY DEF IInv, Types
  <2>2. /\ Distance(last_used, avail_idx) = Gap(last_used, avail_idx)
        /\ Distance(last_used, used_idx) = Gap(last_used, used_idx)
        /\ Distance(last_used, seen) = Gap(last_used, seen)
    BY <2>1, DistanceIsGap
  <2>3. QED
    BY <2>2 DEF NoOverrun, IInv, Counts
<1>4. QED
  BY <1>1, <1>2, <1>3 DEF RingInv

(* After any history of adding (virtqueue_add_buf_split), returning in any *)
(* order, collecting (virtqueue_get_buf_split), detaching and resetting,   *)
(* every descriptor is on the free list or in the chain of exactly one     *)
(* outstanding buffer, and neither ring has overrun, across the wrap of    *)
(* the 16-bit indexes.                                                     *)
THEOREM RingHolds == Spec => []RingInv
<1>1. Spec => []IInv
  BY InitInv, StepInv, PTL DEF Spec
<1>2. QED
  BY <1>1, InvImplies, PTL

-----------------------------------------------------------------------------
(* The ring as a queue: the order of its entries.                          *)

(* A longer function is an appended sequence.                              *)
LEMMA IsAppended ==
  ASSUME NEW X, NEW n \in Nat, NEW s \in [1 .. n -> X], NEW x \in X, NEW r,
         r = [k \in 1 .. n + 1 |-> IF k <= n THEN s[k] ELSE x]
  PROVE  r = Append(s, x)
<1>1. s \in Seq(X) /\ Len(s) = n
  BY SMT
<1>2. /\ Append(s, x) \in Seq(X) /\ Len(Append(s, x)) = n + 1
      /\ \A k \in 1 .. n : Append(s, x)[k] = s[k]
      /\ Append(s, x)[n + 1] = x
  BY <1>1, AppendProperties
<1>3. r \in [1 .. n + 1 -> X]
  OBVIOUS
<1>4. r \in Seq(X) /\ Len(r) = n + 1
  BY <1>3, SMT
<1>5. \A k \in 1 .. n + 1 : r[k] = Append(s, x)[k]
  BY <1>2
<1>6. QED
  BY <1>2, <1>4, <1>5, SeqEqual

(* A shorter one is the tail.                                              *)
LEMMA IsTail ==
  ASSUME NEW X, NEW n \in Nat, NEW s \in [1 .. n -> X], n > 0, NEW r,
         r = [k \in 1 .. n - 1 |-> s[k + 1]]
  PROVE  r = Tail(s) /\ Head(s) = s[1] /\ s # <<>>
<1>1. s \in Seq(X) /\ Len(s) = n
  BY SMT
<1>2. s # <<>> /\ Head(s) = s[1]
  BY <1>1, SMT
<1>3. /\ Tail(s) \in Seq(X) /\ Len(Tail(s)) = n - 1
      /\ \A k \in 1 .. n - 1 : Tail(s)[k] = s[k + 1]
  BY <1>1, <1>2, HeadTailProperties
<1>4. n - 1 \in Nat /\ \A k \in 1 .. n - 1 : k + 1 \in 1 .. n
  OBVIOUS
<1>5. r \in [1 .. n - 1 -> X]
  BY <1>4
<1>6. r \in Seq(X) /\ Len(r) = n - 1
  BY <1>4, <1>5, SMT
<1>7. \A k \in 1 .. n - 1 : r[k] = Tail(s)[k]
  BY <1>3
<1>8. QED
  BY <1>2, <1>3, <1>6, <1>7, SeqEqual

(* The pointers of the entries of a window, in order.                      *)
InOrder(o, t, p, n) == [k \in 1 .. n |-> o[t[Ring(p, k - 1)]]]

Pointers == [Slots -> Msgs \cup {NoMsg}]

(* They are pointers.                                                      *)
LEMMA InOrderType ==
  ASSUME NEW o \in Pointers, NEW t \in Tables, NEW p \in Index, NEW n \in Nat
  PROVE  InOrder(o, t, p, n) \in [1 .. n -> Msgs \cup {NoMsg}]
<1>1. p \in Nat /\ \A k \in 1 .. n : k - 1 \in Nat
  BY Sizes DEF Index
<1>2. \A k \in 1 .. n : o[t[Ring(p, k - 1)]] \in Msgs \cup {NoMsg}
  BY <1>1, RingIn DEF Pointers, Tables
<1>3. QED
  BY <1>2 DEF InOrder

(* What a push and a pop of the window do to the list.                     *)
OrderPushes(t, p, q, n, e, t2, o, o2) ==
  /\ Pushes(t, p, q, n, e, t2) /\ o \in Pointers /\ o2 \in Pointers /\ n \in Nat
  /\ \A i \in Window(t, p, n) : o2[i] = o[i]

OrderPushed(t, p, n, e, t2, o, o2) ==
  InOrder(o2, t2, p, n + 1) = Append(InOrder(o, t, p, n), o2[e])

(* Writing an entry behind the window appends its pointer.                 *)
LEMMA OrderPush ==
  ASSUME NEW t, NEW p, NEW q, NEW n, NEW e, NEW t2, NEW o, NEW o2,
         OrderPushes(t, p, q, n, e, t2, o, o2)
  PROVE  OrderPushed(t, p, n, e, t2, o, o2)
<1> DEFINE s == InOrder(o, t, p, n)
           r == InOrder(o2, t2, p, n + 1)
<1>1. /\ t \in Tables /\ p \in Index /\ e \in Slots /\ n \in Nat
      /\ o \in Pointers /\ o2 \in Pointers /\ \A i \in Window(t, p, n) : o2[i] = o[i]
  BY Zenon DEF OrderPushes, Pushes
<1>2. /\ \A k \in 0 .. n - 1 : t2[Ring(p, k)] = t[Ring(p, k)]
      /\ t2[Ring(p, n)] = e
  <2>1. Pushed(t, p, q, n, e, t2)
    BY WindowPush, Zenon DEF OrderPushes
  <2>2. QED
    BY <2>1, Zenon DEF Pushed
<1>3. s \in [1 .. n -> Msgs \cup {NoMsg}]
  BY <1>1, InOrderType
<1>4. o2[e] \in Msgs \cup {NoMsg}
  BY <1>1 DEF Pointers
<1>5. ASSUME NEW k \in 1 .. n PROVE r[k] = s[k]
  <2>1. k - 1 \in 0 .. n - 1 /\ k \in 1 .. n + 1
    BY <1>1
  <2>2. t2[Ring(p, k - 1)] = t[Ring(p, k - 1)] /\ t[Ring(p, k - 1)] \in Window(t, p, n)
    BY <1>2, <2>1 DEF Window
  <2>3. r[k] = o2[t2[Ring(p, k - 1)]] /\ s[k] = o[t[Ring(p, k - 1)]]
    BY <2>1 DEF InOrder
  <2>4. QED
    BY <1>1, <2>2, <2>3
<1>6. r[n + 1] = o2[e]
  <2>1. n + 1 \in 1 .. n + 1 /\ (n + 1) - 1 = n
    BY <1>1
  <2>2. r[n + 1] = o2[t2[Ring(p, (n + 1) - 1)]]
    BY <2>1 DEF InOrder
  <2>3. QED
    BY <1>2, <2>1, <2>2
<1>7. r = [k \in 1 .. n + 1 |-> r[k]]
  BY DEF InOrder
<1> HIDE DEF r, s
<1>8. r = [k \in 1 .. n + 1 |-> IF k <= n THEN s[k] ELSE o2[e]]
  <2>1. \A k \in 1 .. n + 1 : r[k] = IF k <= n THEN s[k] ELSE o2[e]
    BY <1>1, <1>5, <1>6
  <2>2. QED
    BY <1>7, <2>1
<1>9. r = Append(s, o2[e])
  BY <1>1, <1>3, <1>4, <1>8, IsAppended
<1>10. QED
  BY <1>9, Zenon DEF OrderPushed, r, s

OrderPops(t, p, q, n, o, o2) ==
  /\ t \in Tables /\ p \in Index /\ q \in Index /\ n = Gap(p, q) /\ p # q
  /\ o \in Pointers /\ o2 \in Pointers
  /\ \A i \in Window(t, (p + 1) % Modulus, n - 1) : o2[i] = o[i]

OrderPopped(t, p, n, o, o2) ==
  /\ InOrder(o, t, p, n) # <<>>
  /\ Head(InOrder(o, t, p, n)) = o[t[p % Num]]
  /\ InOrder(o2, t, (p + 1) % Modulus, n - 1) = Tail(InOrder(o, t, p, n))

(* Moving the beginning of the window on drops the first pointer.          *)
LEMMA OrderPop ==
  ASSUME NEW t, NEW p, NEW q, NEW n, NEW o, NEW o2, OrderPops(t, p, q, n, o, o2)
  PROVE  OrderPopped(t, p, n, o, o2)
<1> DEFINE p2 == (p + 1) % Modulus
           s == InOrder(o, t, p, n)
           r == InOrder(o2, t, p2, n - 1)
<1>1. /\ t \in Tables /\ p \in Index /\ q \in Index /\ n = Gap(p, q) /\ p # q
      /\ o \in Pointers /\ o2 \in Pointers
      /\ \A i \in Window(t, p2, n - 1) : o2[i] = o[i]
  BY Zenon DEF OrderPops
<1>2. n > 0 /\ n \in Nat /\ p2 \in Index /\ p \in Nat
  BY <1>1, GapMoves, Sizes DEF Index
<1>3. \A k \in Nat : Ring(p2, k) = Ring(p, k + 1)
  BY <1>1, RingNext
<1>4. p % Num = Ring(p, 0)
  BY <1>2, RingIn
<1> HIDE DEF p2
<1>5. s \in [1 .. n -> Msgs \cup {NoMsg}]
  BY <1>1, <1>2, InOrderType
<1>6. s[1] = o[t[p % Num]]
  BY <1>2, <1>4 DEF InOrder
<1>7. ASSUME NEW k \in 1 .. n - 1 PROVE r[k] = s[k + 1]
  <2>1. /\ k - 1 \in 0 .. (n - 1) - 1 /\ k - 1 \in Nat /\ (k - 1) + 1 = k
        /\ k + 1 \in 1 .. n /\ (k + 1) - 1 = k
    BY <1>2
  <2>2. Ring(p2, k - 1) = Ring(p, k)
    BY <1>3, <2>1
  <2>3. t[Ring(p, k)] \in Window(t, p2, n - 1)
    BY <2>1, <2>2 DEF Window
  <2>4. r[k] = o2[t[Ring(p2, k - 1)]] /\ s[k + 1] = o[t[Ring(p, (k + 1) - 1)]]
    BY <2>1 DEF InOrder
  <2>5. QED
    BY <1>1, <2>1, <2>2, <2>3, <2>4
<1>8. r = [k \in 1 .. n - 1 |-> r[k]]
  BY DEF InOrder
<1> HIDE DEF r, s
<1>9. r = [k \in 1 .. n - 1 |-> s[k + 1]]
  BY <1>7, <1>8
<1>10. r = Tail(s) /\ Head(s) = s[1] /\ s # <<>>
  BY <1>2, <1>5, <1>9, IsTail
<1>11. QED
  BY <1>6, <1>10, Zenon DEF OrderPopped, r, s, p2

(* The places, ranks and order of what waits, of any ring.                 *)
PlaceIn(t, p, i) == CHOOSE k \in Slots : /\ t[Ring(p, k)] = i
                                         /\ \A j \in 0 .. k - 1 : t[Ring(p, j)] # i

Before(t, p, P, i) == {j \in P : PlaceIn(t, p, j) < PlaceIn(t, p, i)}

WaitingIn(t, p, P, k) == CHOOSE i \in P : Cardinality(Before(t, p, P, i)) = k - 1

(* Waiting of SplitRing is the order of its available ring, before a step  *)
(* and after it.                                                           *)
LEMMA WaitingSeen ==
  /\ \A k : Waiting(k) = WaitingIn(avail, seen, Pending, k)
  /\ \A k : Waiting(k)' = WaitingIn(avail', seen', Pending', k)
  BY Zenon DEF Waiting, Place, WaitingIn, Before, PlaceIn

(* The place of an entry of a window is where it is.                       *)
LEMMA PlaceIs ==
  ASSUME NEW t, NEW p, NEW n \in 0 .. Num, Distinct(t, p, n), NEW k \in 0 .. n - 1
  PROVE  PlaceIn(t, p, t[Ring(p, k)]) = k
<1> DEFINE i == t[Ring(p, k)]
           C(m) == t[Ring(p, m)] = i /\ \A j \in 0 .. m - 1 : t[Ring(p, j)] # i
<1>1. k \in Slots /\ k \in Nat /\ n \in Nat
  BY Sizes DEF Slots
<1>2. \A j \in 0 .. n - 1 : t[Ring(p, j)] = i => j = k
  BY DEF Distinct
<1>3. C(k)
  <2>1. \A j \in 0 .. k - 1 : j \in 0 .. n - 1 /\ j # k
    BY <1>1
  <2>2. QED
    BY <1>2, <2>1
<1>4. ASSUME NEW m \in Slots, C(m) PROVE m = k
  <2>1. m \in Nat
    BY Sizes DEF Slots
  <2>2. CASE m < k
    BY <1>1, <1>2, <1>4, <2>1, <2>2
  <2>3. CASE k < m
    <3>1. k \in 0 .. m - 1
      BY <1>1, <2>1, <2>3
    <3>2. QED
      BY <1>4, <3>1
  <2>4. QED
    BY <1>1, <2>1, <2>2, <2>3
<1> HIDE DEF i
<1>5. QED
  BY <1>1, <1>3, <1>4, Zenon DEF PlaceIn, i

(* In a window that is all waiting, the order is that of the window.       *)
LEMMA WaitsInOrder ==
  ASSUME NEW t \in Tables, NEW p \in Index, NEW n \in 0 .. Num, Distinct(t, p, n),
         NEW k \in 1 .. n
  PROVE  WaitingIn(t, p, Window(t, p, n), k) = t[Ring(p, k - 1)]
<1> DEFINE P == Window(t, p, n)
<1>1. n \in Nat /\ k - 1 \in 0 .. n - 1
  BY Sizes
<1>2. \A j \in 0 .. n - 1 : PlaceIn(t, p, t[Ring(p, j)]) = j
  BY PlaceIs
<1>3. ASSUME NEW j \in 0 .. n - 1 PROVE Cardinality(Before(t, p, P, t[Ring(p, j)])) = j
  <2>1. Before(t, p, P, t[Ring(p, j)]) = Window(t, p, j)
    <3>1. ASSUME NEW l \in 0 .. n - 1
          PROVE  t[Ring(p, l)] \in Before(t, p, P, t[Ring(p, j)]) <=> l \in 0 .. j - 1
      BY <1>1, <1>2 DEF Before, Window
    <3>2. Before(t, p, P, t[Ring(p, j)]) \subseteq Window(t, p, n)
      BY DEF Before
    <3>3. 0 .. j - 1 \subseteq 0 .. n - 1
      BY <1>1
    <3>4. QED
      BY <3>1, <3>2, <3>3 DEF Window
  <2>2. Distinct(t, p, j) /\ j \in 0 .. Num
    BY <1>1, Sizes DEF Distinct
  <2>3. QED
    BY <2>1, <2>2, WindowCount
<1>4. t[Ring(p, k - 1)] \in P /\ Cardinality(Before(t, p, P, t[Ring(p, k - 1)])) = k - 1
  BY <1>1, <1>3 DEF Window
<1>5. ASSUME NEW i \in P, Cardinality(Before(t, p, P, i)) = k - 1
      PROVE  i = t[Ring(p, k - 1)]
  <2>1. PICK j \in 0 .. n - 1 : i = t[Ring(p, j)]
    BY DEF Window
  <2>2. j = k - 1
    BY <1>3, <1>5, <2>1
  <2>3. QED
    BY <2>1, <2>2
<1> HIDE DEF P
<1>6. QED
  BY <1>4, <1>5, Zenon DEF WaitingIn, P

(* How many of P are before i.                                             *)
Rank(t, p, P, i) == Cardinality(Before(t, p, P, i))

(* Some of the entries of a window.                                        *)
Some(t, p, n, P) ==
  /\ t \in Tables /\ p \in Index /\ n \in 0 .. Num /\ Distinct(t, p, n)
  /\ P \subseteq Window(t, p, n)

(* They have different places.                                             *)
LEMMA SomePlaces ==
  ASSUME NEW t, NEW p, NEW n, NEW P, Some(t, p, n, P)
  PROVE  /\ IsFiniteSet(P) /\ Cardinality(P) \in Nat
         /\ \A i \in P : PlaceIn(t, p, i) \in Nat
         /\ \A i, j \in P : PlaceIn(t, p, i) = PlaceIn(t, p, j) => i = j
         /\ \A i \in P : Before(t, p, P, i) \subseteq P \ {i}
<1>0. /\ t \in Tables /\ p \in Index /\ n \in 0 .. Num /\ Distinct(t, p, n)
      /\ P \subseteq Window(t, p, n)
  BY Zenon DEF Some
<1>1. IsFiniteSet(Window(t, p, n))
  BY <1>0, WindowCount
<1>2. IsFiniteSet(P) /\ Cardinality(P) \in Nat
  BY <1>0, <1>1, FS_Subset, FS_CardinalityType
<1>3. ASSUME NEW i \in P PROVE \E k \in 0 .. n - 1 : i = t[Ring(p, k)] /\ PlaceIn(t, p, i) = k
  <2>1. PICK k \in 0 .. n - 1 : i = t[Ring(p, k)]
    BY <1>0 DEF Window
  <2>2. PlaceIn(t, p, t[Ring(p, k)]) = k
    BY <1>0, PlaceIs
  <2>3. QED
    BY <2>1, <2>2
<1>4. \A i \in P : PlaceIn(t, p, i) \in Nat
  BY <1>0, <1>3, Sizes
<1>5. \A i, j \in P : PlaceIn(t, p, i) = PlaceIn(t, p, j) => i = j
  BY <1>3
<1>6. \A i \in P : Before(t, p, P, i) \subseteq P \ {i}
  BY <1>4 DEF Before
<1>7. QED
  BY <1>2, <1>4, <1>5, <1>6

(* The ranks are in the order of the places.                               *)
LEMMA RanksGrow ==
  ASSUME NEW t, NEW p, NEW n, NEW P, Some(t, p, n, P), NEW i \in P, NEW j \in P,
         PlaceIn(t, p, i) < PlaceIn(t, p, j)
  PROVE  Rank(t, p, P, i) < Rank(t, p, P, j)
<1> DEFINE A == Before(t, p, P, i)
           B == Before(t, p, P, j)
<1>1. \A l \in P : PlaceIn(t, p, l) \in Nat
  BY SomePlaces
<1>2. A \subseteq B /\ i \in B /\ i \notin A
  BY <1>1 DEF Before
<1>3. IsFiniteSet(P) /\ B \subseteq P
  BY SomePlaces DEF Before
<1> HIDE DEF A, B
<1>4. IsFiniteSet(B)
  BY <1>3, FS_Subset
<1>5. /\ IsFiniteSet(A) /\ Cardinality(A) <= Cardinality(B)
      /\ Cardinality(A) = Cardinality(B) => A = B
  BY <1>2, <1>4, FS_Subset
<1>6. A # B
  BY <1>2
<1>7. Cardinality(A) \in Nat /\ Cardinality(B) \in Nat
  BY <1>4, <1>5, FS_CardinalityType
<1>8. Cardinality(A) < Cardinality(B)
  BY <1>5, <1>6, <1>7
<1>9. QED
  BY <1>8, Zenon DEF Rank, A, B

(* The ranks are the numbers below the count, each taken once.             *)
LEMMA RanksAre ==
  ASSUME NEW t, NEW p, NEW n, NEW P, Some(t, p, n, P)
  PROVE  /\ \A i \in P : Rank(t, p, P, i) \in 0 .. Cardinality(P) - 1
         /\ \A i, j \in P : Rank(t, p, P, i) = Rank(t, p, P, j) => i = j
         /\ \A k \in 0 .. Cardinality(P) - 1 : \E i \in P : Rank(t, p, P, i) = k
<1> DEFINE c == Cardinality(P)
           r == [i \in P |-> Rank(t, p, P, i)]
           T == 0 .. c - 1
<1>1. /\ IsFiniteSet(P) /\ c \in Nat /\ \A i \in P : PlaceIn(t, p, i) \in Nat
      /\ \A i, j \in P : PlaceIn(t, p, i) = PlaceIn(t, p, j) => i = j
      /\ \A i \in P : Before(t, p, P, i) \subseteq P \ {i}
  BY SomePlaces
<1>2. ASSUME NEW i \in P PROVE Rank(t, p, P, i) \in T
  <2>1. Cardinality(P \ {i}) = c - 1 /\ IsFiniteSet(P \ {i})
    BY <1>1, FS_RemoveElement
  <2>2. Rank(t, p, P, i) <= c - 1 /\ Rank(t, p, P, i) \in Nat
    BY <1>1, <2>1, FS_Subset, FS_CardinalityType DEF Rank
  <2>3. QED
    BY <1>1, <2>2
<1>3. ASSUME NEW i \in P, NEW j \in P, Rank(t, p, P, i) = Rank(t, p, P, j) PROVE i = j
  <2>1. Rank(t, p, P, i) \in Nat
    BY <1>1, <1>2
  <2>2. ~(PlaceIn(t, p, i) < PlaceIn(t, p, j))
    BY <1>3, <2>1, RanksGrow
  <2>3. ~(PlaceIn(t, p, j) < PlaceIn(t, p, i))
    BY <1>3, <2>1, RanksGrow
  <2>4. QED
    BY <1>1, <2>2, <2>3
<1>4. r \in Injection(P, T)
  BY <1>2, <1>3, SMT DEF Injection, IsInjective
<1>5. IsFiniteSet(T) /\ Cardinality(T) = c
  BY <1>1, FS_Interval
<1> HIDE DEF T, c
<1>6. r \in Surjection(P, T)
  BY <1>1, <1>4, <1>5, FS_Injection DEF c
<1>7. \A k \in T : \E i \in P : r[i] = k
  BY <1>6 DEF Surjection
<1>8. QED
  BY <1>2, <1>3, <1>7 DEF T, c

(* The k-th is the one of rank k - 1.                                      *)
LEMMA WaitingIs ==
  ASSUME NEW t, NEW p, NEW n, NEW P, Some(t, p, n, P), NEW i \in P, NEW k,
         Rank(t, p, P, i) = k - 1
  PROVE  WaitingIn(t, p, P, k) = i
<1>1. \A j \in P : Rank(t, p, P, j) = k - 1 => j = i
  BY RanksAre
<1>2. QED
  BY <1>1, Zenon DEF WaitingIn, Rank

(* Taking one away moves those behind it up.                               *)
LEMMA RanksLess ==
  ASSUME NEW t, NEW p, NEW n, NEW P, Some(t, p, n, P), NEW i \in P, NEW j \in P \ {i}
  PROVE  Rank(t, p, P \ {i}, j) = IF Rank(t, p, P, j) < Rank(t, p, P, i)
                                  THEN Rank(t, p, P, j) ELSE Rank(t, p, P, j) - 1
<1> DEFINE A == Before(t, p, P, j)
<1>1. /\ IsFiniteSet(P) /\ \A l \in P : PlaceIn(t, p, l) \in Nat
      /\ \A l, m \in P : PlaceIn(t, p, l) = PlaceIn(t, p, m) => l = m
  BY SomePlaces
<1>2. Before(t, p, P \ {i}, j) = A \ {i} /\ A \subseteq P
  BY DEF Before
<1>3. i \in A <=> PlaceIn(t, p, i) < PlaceIn(t, p, j)
  BY DEF Before
<1>4. Rank(t, p, P, i) \in Nat /\ Rank(t, p, P, j) \in Nat
  BY RanksAre, SomePlaces
<1>5. PlaceIn(t, p, i) < PlaceIn(t, p, j) <=> Rank(t, p, P, i) < Rank(t, p, P, j)
  <2>1. CASE PlaceIn(t, p, i) < PlaceIn(t, p, j)
    BY <2>1, RanksGrow
  <2>2. CASE PlaceIn(t, p, j) < PlaceIn(t, p, i)
    <3>1. Rank(t, p, P, j) < Rank(t, p, P, i)
      BY <2>2, RanksGrow
    <3>2. QED
      BY <1>1, <1>4, <2>2, <3>1
  <2>3. QED
    BY <1>1, <2>1, <2>2
<1>6. Rank(t, p, P, i) # Rank(t, p, P, j)
  BY RanksAre
<1> HIDE DEF A
<1>7. IsFiniteSet(A)
  BY <1>1, <1>2, FS_Subset
<1>8. Cardinality(A \ {i}) = IF i \in A THEN Cardinality(A) - 1 ELSE Cardinality(A)
  BY <1>7, FS_RemoveElement
<1>9. Rank(t, p, P \ {i}, j) = Cardinality(A \ {i}) /\ Rank(t, p, P, j) = Cardinality(A)
  BY <1>2 DEF Rank, A
<1>10. QED
  BY <1>3, <1>4, <1>5, <1>6, <1>8, <1>9

(* So the list without one is what BufferQueue's Detach leaves of it.      *)
LEMMA WaitingLess ==
  ASSUME NEW t, NEW p, NEW n, NEW P, Some(t, p, n, P), NEW i \in P, NEW r,
         r = Rank(t, p, P, i) + 1
  PROVE  /\ r \in 1 .. Cardinality(P) /\ WaitingIn(t, p, P, r) = i
         /\ \A k \in 1 .. Cardinality(P) - 1 :
              /\ WaitingIn(t, p, P \ {i}, k) \in P \ {i}
              /\ WaitingIn(t, p, P \ {i}, k) = WaitingIn(t, p, P, IF k < r THEN k ELSE k + 1)
<1> DEFINE c == Cardinality(P)
<1>1. /\ \A j \in P : Rank(t, p, P, j) \in 0 .. c - 1
      /\ \A k \in 0 .. c - 1 : \E j \in P : Rank(t, p, P, j) = k
      /\ c \in Nat
  BY RanksAre, SomePlaces
<1>2. Some(t, p, n, P \ {i})
  BY DEF Some
<1> HIDE DEF c
<1>3. r \in 1 .. c /\ r - 1 = Rank(t, p, P, i)
  BY <1>1
<1>4. WaitingIn(t, p, P, r) = i
  BY <1>3, WaitingIs
<1>5. ASSUME NEW k \in 1 .. c
      PROVE  \E j \in P : Rank(t, p, P, j) = k - 1 /\ WaitingIn(t, p, P, k) = j
  <2>1. k - 1 \in 0 .. c - 1
    BY <1>1
  <2>2. PICK j \in P : Rank(t, p, P, j) = k - 1
    BY <1>1, <2>1
  <2>3. QED
    BY <2>2, WaitingIs
<1>6. ASSUME NEW k \in 1 .. c - 1
      PROVE  /\ WaitingIn(t, p, P \ {i}, k) \in P \ {i}
             /\ WaitingIn(t, p, P \ {i}, k) = WaitingIn(t, p, P, IF k < r THEN k ELSE k + 1)
  <2> DEFINE x == IF k < r THEN k ELSE k + 1
  <2>1. x \in 1 .. c
    BY <1>1
  <2> HIDE DEF x
  <2>2. PICK j \in P : Rank(t, p, P, j) = x - 1 /\ WaitingIn(t, p, P, x) = j
    BY <1>5, <2>1
  <2>3. j # i
    BY <1>1, <1>3, <2>2 DEF x
  <2>4. Rank(t, p, P \ {i}, j) = k - 1
    <3>1. Rank(t, p, P \ {i}, j) = IF Rank(t, p, P, j) < Rank(t, p, P, i)
                                   THEN Rank(t, p, P, j) ELSE Rank(t, p, P, j) - 1
      BY <2>3, RanksLess
    <3>2. QED
      BY <1>1, <1>3, <2>2, <3>1 DEF x
  <2>5. j \in P \ {i}
    BY <2>3
  <2>6. WaitingIn(t, p, P \ {i}, k) = j
    BY <1>2, <2>4, <2>5, WaitingIs
  <2>7. QED
    BY <2>2, <2>5, <2>6 DEF x
<1>7. QED
  BY <1>3, <1>4, <1>5, <1>6 DEF c

-----------------------------------------------------------------------------
(* The state of the queue that a ring shows.                               *)

(* The returned buffers are the window of the used ring.                   *)
LEMMA BackIs ==
  ASSUME IInv
  PROVE  /\ Back = [k \in 1 .. Gap(last_used, used_idx) |-> used[Ring(last_used, k - 1)]]
         /\ Gap(last_used, used_idx) \in Nat
         /\ {Back[k] : k \in DOMAIN Back} = Backs
<1> DEFINE d == Gap(last_used, used_idx)
<1>1. last_used \in Index /\ used_idx \in Index
  BY DEF IInv, Types
<1>2. Distance(last_used, used_idx) = d /\ d \in Nat
  BY <1>1, DistanceIsGap, Sizes DEF Index
<1>3. Back = [k \in 1 .. d |-> used[Ring(last_used, k - 1)]]
  BY <1>2, Zenon DEF Back
<1> HIDE DEF d
<1>4. DOMAIN Back = 1 .. d /\ \A k \in 1 .. d : Back[k] = used[Ring(last_used, k - 1)]
  BY <1>3
<1>5. /\ \A k \in 1 .. d : k - 1 \in 0 .. d - 1
      /\ \A k \in 0 .. d - 1 : k + 1 \in 1 .. d /\ (k + 1) - 1 = k
  BY <1>2
<1>6. {Back[k] : k \in DOMAIN Back} = Window(used, last_used, d)
  BY <1>4, <1>5 DEF Window
<1>7. QED
  BY <1>2, <1>3, <1>6 DEF Backs, d

(* What waits is the window of the available ring, or in the detach loop   *)
(* everything.                                                             *)
LEMMA PendingIs ==
  ASSUME IInv
  PROVE  /\ detaching = FALSE => Pending = Waits
         /\ working = {} /\ last_used = used_idx => Pending = Attached
<1>1. Pending = Attached \ (working \cup Backs)
  BY BackIs DEF Pending
<1>2. ASSUME detaching = FALSE PROVE Pending = Waits
  BY <1>1, <1>2 DEF IInv, Lists
<1>3. ASSUME working = {}, last_used = used_idx PROVE Pending = Attached
  <2>1. Backs = {}
    BY <1>3, Placed DEF Backs, Window
  <2>2. QED
    BY <1>1, <1>3, <2>1
<1>4. QED
  BY <1>2, <1>3

(* The view of the two rings as queues.                                    *)
OrderViews ==
  /\ detaching = FALSE => Submitted = InOrder(opaque, avail, seen, Gap(seen, avail_idx))
  /\ Returned = InOrder(opaque, used, last_used, Gap(last_used, used_idx))
  /\ working = {} /\ last_used = used_idx =>
       Submitted = [k \in 1 .. Cardinality(Attached) |->
                      opaque[WaitingIn(avail, seen, Attached, k)]]
  /\ Attached = {} => Submitted = <<>>

(* The rings show these queues.                                            *)
LEMMA Views == IInv => OrderViews
<1> SUFFICES ASSUME IInv PROVE OrderViews
  OBVIOUS
<1> DEFINE w == Gap(seen, avail_idx)
           d == Gap(last_used, used_idx)
<1>1. /\ seen \in Index /\ avail_idx \in Index /\ avail \in Tables /\ w \in 0 .. Num
  BY CountsAre DEF IInv, Types
<1>2. Distance(seen, avail_idx) = w
  BY <1>1, DistanceIsGap
<1>3. Submitted = [k \in 1 .. w |-> opaque[WaitingIn(avail, seen, Pending, k)]]
  BY <1>2, WaitingSeen DEF Submitted
<1> HIDE DEF w, d
<1>4. ASSUME detaching = FALSE PROVE Submitted = InOrder(opaque, avail, seen, w)
  <2>1. Pending = Window(avail, seen, w) /\ Distinct(avail, seen, w)
    BY <1>4, PendingIs DEF Waits, IInv, Lists, w
  <2>2. \A k \in 1 .. w : WaitingIn(avail, seen, Pending, k) = avail[Ring(seen, k - 1)]
    BY <1>1, <2>1, WaitsInOrder
  <2>3. QED
    BY <1>3, <2>2 DEF InOrder
<1>5. Returned = InOrder(opaque, used, last_used, d)
  <2>1. Back = [k \in 1 .. d |-> used[Ring(last_used, k - 1)]]
    BY BackIs DEF d
  <2>2. DOMAIN Back = 1 .. d /\ \A k \in 1 .. d : Back[k] = used[Ring(last_used, k - 1)]
    BY <2>1
  <2>3. QED
    BY <2>2 DEF Returned, InOrder
<1>6. ASSUME working = {}, last_used = used_idx
      PROVE  Submitted = [k \in 1 .. Cardinality(Attached) |->
                            opaque[WaitingIn(avail, seen, Attached, k)]]
  <2>1. Pending = Attached /\ w = Cardinality(Attached)
    BY <1>6, PendingIs, Placed DEF w
  <2>2. QED
    BY <1>3, <2>1, Zenon
<1>7. ASSUME Attached = {} PROVE Submitted = <<>>
  <2>1. w = 0
    BY <1>1, <1>7, CountsAre, FS_EmptySet DEF w
  <2>2. QED
    BY <1>3, <2>1
<1>8. QED
  BY <1>4, <1>5, <1>6, <1>7 DEF OrderViews, w, d

(* And after a step.                                                       *)
LEMMA ViewsNext == IInv' => OrderViews'
  BY Views, PTL

(* The cost of a buffer is the length of its chain.                        *)
CostView ==
  /\ DOMAIN Cost = Msgs /\ Cost = [m \in Msgs |-> Cost[m]]
  /\ \A i \in Attached : /\ opaque[i] \in Msgs /\ Links(i) \in Nat
                         /\ Cost[opaque[i]] = Links(i) + 1
  /\ \A m \in Msgs : (\A i \in Attached : opaque[i] # m) => Cost[m] = 0

(* Cost gives each outstanding pointer the length of its chain.            *)
LEMMA Costs == IInv => CostView
<1> SUFFICES ASSUME IInv PROVE CostView
  OBVIOUS
<1>1. DOMAIN Cost = Msgs /\ Cost = [m \in Msgs |-> Cost[m]]
  BY DEF Cost
<1>2. ASSUME NEW i \in Attached
      PROVE  /\ opaque[i] \in Msgs /\ Links(i) \in Nat /\ Cost[opaque[i]] = Links(i) + 1
  <2>1. opaque[i] \in Msgs
    BY <1>2 DEF IInv, Types, Attached
  <2>2. Links(i) \in Nat
    <3>1. Links(i) = LinksOf(next, more, i)
      BY LayoutSeen
    <3>2. LinksOf(next, more, i) \in Slots
      BY <1>2, Zenon DEF IInv, Descriptors, Layout, Ends
    <3>3. QED
      BY <3>1, <3>2, Sizes DEF Slots
  <2>3. (CHOOSE j \in Attached : opaque[j] = opaque[i]) = i
    <3>1. \A j \in Attached : opaque[j] = opaque[i] => j = i
      BY <1>2 DEF IInv, Descriptors, Opaques
    <3>2. QED
      BY <1>2, <3>1, Zenon
  <2>4. Cost[opaque[i]] = Links(CHOOSE j \in Attached : opaque[j] = opaque[i]) + 1
    BY <1>2, <2>1, Zenon DEF Cost
  <2>5. QED
    BY <2>1, <2>2, <2>3, <2>4, Zenon
<1>3. \A m \in Msgs : (\A i \in Attached : opaque[i] # m) => Cost[m] = 0
  BY DEF Cost
<1>4. QED
  BY <1>1, <1>2, <1>3 DEF CostView

(* And after a step.                                                       *)
LEMMA CostsNext == IInv' => CostView'
  BY Costs, PTL

(* What the steps do to the costs.                                         *)
LEMMA CostSame ==
  ASSUME IInv, IInv', UNCHANGED <<next, more, opaque>>
  PROVE  Cost' = Cost
<1>1. CostView /\ CostView'
  BY Costs, CostsNext
<1>2. Attached' = Attached /\ opaque' = opaque
  BY DEF Attached
<1>3. \A i : Links(i)' = Links(i)
  <2>1. /\ \A i : Links(i) = LinksOf(next, more, i)
        /\ \A i : Links(i)' = LinksOf(next', more', i)
    BY LayoutSeen
  <2>2. QED
    BY <2>1, Zenon
<1>4. ASSUME NEW m \in Msgs PROVE Cost'[m] = Cost[m]
  <2>1. CASE \E i \in Attached : opaque[i] = m
    <3>1. PICK i \in Attached : opaque[i] = m
      BY <2>1
    <3>2. Cost[opaque[i]] = Links(i) + 1
      BY <1>1 DEF CostView
    <3>3. Cost'[opaque'[i]] = Links(i)' + 1
      BY <1>1, <1>2 DEF CostView
    <3>4. QED
      BY <1>2, <1>3, <3>1, <3>2, <3>3
  <2>2. CASE \A i \in Attached : opaque[i] # m
    BY <1>1, <1>2, <2>2 DEF CostView
  <2>3. QED
    BY <2>1, <2>2
<1>5. QED
  BY <1>1, <1>4 DEF CostView

(* An add costs the descriptors of its chain.                              *)
LEMMA CostAdd ==
  ASSUME IInv, IInv', NEW m \in Msgs, NEW n \in Nat, Added(m, n)
  PROVE  Cost' = [Cost EXCEPT ![m] = n] /\ Cost[m] = 0
<1>0. CostView /\ CostView'
  BY Costs, CostsNext
<1>1. PICK f \in Slots : f = first_unused
  BY DEF IInv, Types
<1>2. /\ Attached' = Attached \cup {f} /\ f \notin Attached /\ Links(f)' = n - 1
      /\ \A i \in Attached : Links(i)' = Links(i)
  BY <1>1, AddDescriptors DEF IInv
<1>3. opaque' = [opaque EXCEPT ![f] = m] /\ opaque \in [Slots -> Msgs \cup {NoMsg}]
  BY <1>1 DEF Added, IInv, Types
<1>4. Attached \in SUBSET Slots /\ \A i \in Slots : opaque[i] # m
  BY AttachedIn DEF Added
<1>5. Cost[m] = 0
  BY <1>0, <1>4 DEF CostView
<1>6. Cost'[m] = n
  <2>1. Cost'[opaque'[f]] = Links(f)' + 1
    BY <1>0, <1>2 DEF CostView
  <2>2. QED
    BY <1>2, <1>3, <2>1
<1>7. ASSUME NEW x \in Msgs \ {m} PROVE Cost'[x] = Cost[x]
  <2>1. CASE \E i \in Attached : opaque[i] = x
    <3>1. PICK i \in Attached : opaque[i] = x
      BY <2>1
    <3>2. opaque'[i] = x
      BY <1>2, <1>3, <1>4, <3>1
    <3>3. Cost[opaque[i]] = Links(i) + 1
      BY <1>0 DEF CostView
    <3>4. Cost'[opaque'[i]] = Links(i)' + 1
      BY <1>0, <1>2 DEF CostView
    <3>5. QED
      BY <1>2, <3>1, <3>2, <3>3, <3>4
  <2>2. CASE \A i \in Attached : opaque[i] # x
    <3>1. \A i \in Attached' : opaque'[i] # x
      BY <1>2, <1>3, <1>4, <2>2
    <3>2. QED
      BY <1>0, <2>2, <3>1 DEF CostView
  <2>3. QED
    BY <2>1, <2>2
<1>8. DOMAIN Cost = Msgs /\ Cost' = [x \in Msgs |-> Cost'[x]]
  BY <1>0 DEF CostView
<1>9. Cost' = [Cost EXCEPT ![m] = n]
  BY <1>6, <1>7, <1>8
<1>10. QED
  BY <1>5, <1>9

(* A return gives the cost back as room.                                   *)
LEMMA CostRemove ==
  ASSUME IInv, IInv', NEW i \in Attached, PutUnusedDescChain(i)
  PROVE  /\ Cost' = [Cost EXCEPT ![opaque[i]] = 0]
         /\ num_unused' = num_unused + Cost[opaque[i]]
<1>0. CostView /\ CostView'
  BY Costs, CostsNext
<1>1. /\ Attached' = Attached \ {i} /\ opaque' = [opaque EXCEPT ![i] = NoMsg]
      /\ num_unused' = num_unused + Links(i) + 1
      /\ \A j \in Attached \ {i} : Links(j)' = Links(j)
  BY PutDescriptors DEF IInv
<1>2. /\ opaque \in [Slots -> Msgs \cup {NoMsg}] /\ num_unused \in Nat
      /\ \A j \in Attached : opaque[j] = opaque[i] => j = i
  BY Sizes DEF IInv, Types, Descriptors, Opaques
<1>3. Attached \in SUBSET Slots
  BY AttachedIn
<1>4. num_unused' = num_unused + Cost[opaque[i]] /\ opaque[i] \in Msgs
  BY <1>0, <1>1, <1>2 DEF CostView
<1>5. \A j \in Attached \ {i} : opaque'[j] = opaque[j]
  BY <1>1, <1>2, <1>3
<1>6. Cost'[opaque[i]] = 0
  BY <1>0, <1>1, <1>2, <1>4, <1>5 DEF CostView
<1>7. ASSUME NEW x \in Msgs \ {opaque[i]} PROVE Cost'[x] = Cost[x]
  <2>1. CASE \E j \in Attached : opaque[j] = x
    <3>1. PICK j \in Attached : opaque[j] = x
      BY <2>1
    <3>2. j \in Attached \ {i} /\ opaque'[j] = x
      BY <1>5, <3>1
    <3>3. Cost[opaque[j]] = Links(j) + 1
      BY <1>0 DEF CostView
    <3>4. Cost'[opaque'[j]] = Links(j)' + 1
      BY <1>0, <1>1, <3>2 DEF CostView
    <3>5. QED
      BY <1>1, <3>1, <3>2, <3>3, <3>4
  <2>2. CASE \A j \in Attached : opaque[j] # x
    <3>1. \A j \in Attached' : opaque'[j] # x
      BY <1>1, <1>5, <2>2
    <3>2. QED
      BY <1>0, <2>2, <3>1 DEF CostView
  <2>3. QED
    BY <2>1, <2>2
<1>8. DOMAIN Cost = Msgs /\ Cost' = [x \in Msgs |-> Cost'[x]]
  BY <1>0 DEF CostView
<1>9. Cost' = [Cost EXCEPT ![opaque[i]] = 0]
  BY <1>6, <1>7, <1>8
<1>10. QED
  BY <1>4, <1>9

(* Pointers elsewhere do not matter to a window.                           *)
LEMMA OrderSame ==
  ASSUME NEW o, NEW o2, NEW t, NEW p, NEW n \in Nat, \A i \in Window(t, p, n) : o2[i] = o[i]
  PROVE  InOrder(o2, t, p, n) = InOrder(o, t, p, n)
<1>1. ASSUME NEW k \in 1 .. n PROVE o2[t[Ring(p, k - 1)]] = o[t[Ring(p, k - 1)]]
  <2>1. k - 1 \in 0 .. n - 1
    OBVIOUS
  <2>2. t[Ring(p, k - 1)] \in Window(t, p, n)
    BY <2>1 DEF Window
  <2>3. QED
    BY <2>2
<1>2. QED
  BY <1>1 DEF InOrder

(* Each step of the ring is one of the queue.                              *)
LEMMA AddMaps ==
  ASSUME IInv, IInv', NEW m \in Msgs, NEW n \in Nat, Added(m, n)
  PROVE  Queue!Add(m, n)
<1>0. OrderViews /\ OrderViews'
  BY Views, ViewsNext
<1> DEFINE w == Gap(seen, avail_idx)
           d == Gap(last_used, used_idx)
<1>1. PICK f \in Slots : f = first_unused
  BY DEF IInv, Types
<1>2. Attached' = Attached \cup {f} /\ f \notin Attached
  BY <1>1, AddDescriptors DEF IInv
<1>3. /\ opaque' = [opaque EXCEPT ![f] = m] /\ detaching = FALSE
      /\ avail' = [avail EXCEPT ![avail_idx % Num] = f]
      /\ avail_idx' = (avail_idx + 1) % Modulus
      /\ num_unused' = num_unused - n /\ n \in 1 .. num_unused
      /\ UNCHANGED <<next, last_used, used, used_idx, seen, working, detaching>>
  BY <1>1 DEF Added
<1>4. /\ opaque \in Pointers /\ opaque' \in Pointers /\ avail \in Tables /\ seen \in Index
      /\ avail_idx \in Index /\ num_unused \in Nat
  BY Sizes DEF IInv, Types, Pointers
<1>5. /\ Waits \subseteq Attached /\ Backs \subseteq Attached /\ working \subseteq Attached
      /\ Attached \in SUBSET Slots
  BY <1>3, AttachedIn DEF IInv, Lists
<1>6. \A i \in Attached : opaque'[i] = opaque[i]
  BY <1>2, <1>3, <1>4, <1>5 DEF Pointers
<1>7. opaque'[f] = m
  BY <1>3, <1>4 DEF Pointers
<1>8. w \in Nat /\ d \in Nat /\ w < Num
  <2>1. IsFiniteSet(Attached') /\ Cardinality(Attached') = Cardinality(Attached) + 1
    BY <1>2, AttachedIn, FS_AddElement
  <2>2. Cardinality(Attached') <= Num
    <3>1. Attached' \subseteq Slots
      BY <1>2, <1>5
    <3>2. QED
      BY <3>1, SlotsFinite, FS_Subset
  <2>3. QED
    BY <2>1, <2>2, CountsAre, Sizes
<1>9. Submitted' = Append(Submitted, m)
  <2>1. Pushes(avail, seen, avail_idx, w, f, avail')
    BY <1>3, <1>4, <1>8 DEF Pushes
  <2>2. OrderPushes(avail, seen, avail_idx, w, f, avail', opaque, opaque')
    BY <1>4, <1>5, <1>6, <1>8, <2>1 DEF OrderPushes, Waits
  <2>3. OrderPushed(avail, seen, w, f, avail', opaque, opaque')
    BY <2>2, OrderPush, Zenon
  <2>4. Pushed(avail, seen, avail_idx, w, f, avail')
    BY <2>1, WindowPush, Zenon
  <2>5. Gap(seen, avail_idx)' = w + 1
    BY <1>3, <2>4 DEF Pushed
  <2>6. Submitted' = InOrder(opaque', avail', seen', Gap(seen, avail_idx)')
    BY <1>0, <1>3 DEF OrderViews
  <2>7. Submitted = InOrder(opaque, avail, seen, w)
    BY <1>0, <1>3 DEF OrderViews
  <2>8. QED
    BY <1>3, <1>7, <2>3, <2>5, <2>6, <2>7 DEF OrderPushed
<1>10. Returned' = Returned
  <2>1. InOrder(opaque', used, last_used, d) = InOrder(opaque, used, last_used, d)
    BY <1>5, <1>6, <1>8, OrderSame DEF Backs
  <2>2. Returned' = InOrder(opaque', used, last_used, d)
    BY <1>0, <1>3 DEF OrderViews
  <2>3. QED
    BY <1>0, <2>1, <2>2 DEF OrderViews
<1>11. Held' = Held
  BY <1>3, <1>5, <1>6 DEF Held
<1>12. Cost' = [Cost EXCEPT ![m] = n] /\ Cost[m] = 0
  BY CostAdd
<1>13. n <= num_unused
  BY <1>3, <1>4
<1>14. QED
  BY <1>3, <1>9, <1>10, <1>11, <1>12, <1>13 DEF Queue!Add, Queue!Outstanding

(* A taken entry is the head of what was submitted.                        *)
LEMMA TakeMaps ==
  ASSUME IInv, IInv', DeviceTake
  PROVE  Queue!Take
<1>0. OrderViews /\ OrderViews'
  BY Views, ViewsNext
<1> DEFINE w == Gap(seen, avail_idx)
<1>1. /\ detaching = FALSE /\ seen # avail_idx /\ working' = working \cup {avail[seen % Num]}
      /\ seen' = (seen + 1) % Modulus
      /\ UNCHANGED <<next, more, first_unused, num_unused, opaque, last_used>>
      /\ UNCHANGED <<avail, avail_idx, used, used_idx, detaching>>
  BY DEF DeviceTake, driverVars, availVars, IInv, Types
<1>2. opaque \in Pointers /\ avail \in Tables /\ seen \in Index /\ avail_idx \in Index
  BY DEF IInv, Types, Pointers
<1>3. OrderPops(avail, seen, avail_idx, w, opaque, opaque)
  BY <1>1, <1>2 DEF OrderPops
<1>4. OrderPopped(avail, seen, w, opaque, opaque)
  BY <1>3, OrderPop, Zenon
<1>5. Gap(seen, avail_idx)' = w - 1
  BY <1>1, <1>2, GapMoves
<1>6. Submitted = InOrder(opaque, avail, seen, w)
  BY <1>0, <1>1 DEF OrderViews
<1>7. Submitted' = InOrder(opaque, avail, (seen + 1) % Modulus, w - 1)
  BY <1>0, <1>1, <1>5 DEF OrderViews
<1>8. /\ Submitted # <<>> /\ Head(Submitted) = opaque[avail[seen % Num]]
      /\ Submitted' = Tail(Submitted)
  BY <1>4, <1>6, <1>7 DEF OrderPopped
<1>9. Held' = Held \cup {opaque[avail[seen % Num]]}
  BY <1>1 DEF Held
<1>10. Returned' = Returned
  BY <1>0, <1>1 DEF OrderViews
<1>11. Cost' = Cost
  BY <1>1, CostSame
<1>12. QED
  BY <1>1, <1>8, <1>9, <1>10, <1>11 DEF Queue!Take

(* What is given back is appended to what is returned.                     *)
LEMMA GiveBackMaps ==
  ASSUME IInv, IInv', NEW i \in Slots, DeviceGiveBack(i)
  PROVE  opaque[i] \in Msgs /\ Queue!GiveBack(opaque[i])
<1>0. OrderViews /\ OrderViews'
  BY Views, ViewsNext
<1> DEFINE d == Gap(last_used, used_idx)
<1>1. /\ i \in working /\ working' = working \ {i}
      /\ used' = [used EXCEPT ![used_idx % Num] = i] /\ used_idx' = (used_idx + 1) % Modulus
      /\ UNCHANGED <<next, more, first_unused, num_unused, opaque, last_used>>
      /\ UNCHANGED <<avail, avail_idx, seen, detaching>>
  BY DEF DeviceGiveBack, driverVars, availVars
<1>2. /\ opaque \in Pointers /\ used \in Tables /\ used_idx \in Index /\ last_used \in Index
      /\ detaching \in BOOLEAN
  BY DEF IInv, Types, Pointers
<1>3. detaching = FALSE
  BY <1>1, <1>2 DEF IInv, Detached
<1>4. working \subseteq Attached
  BY <1>3 DEF IInv, Lists
<1>5. opaque[i] \in Msgs
  BY <1>1, <1>2, <1>4 DEF Attached, Pointers
<1>6. \A j \in working : opaque[j] = opaque[i] => j = i
  BY <1>1, <1>4 DEF IInv, Descriptors, Opaques
<1>7. Held' = Held \ {opaque[i]} /\ opaque[i] \in Held
  BY <1>1, <1>6 DEF Held
<1>8. d < Num /\ d \in Nat
  <2>1. Cardinality(working) # 0
    BY <1>1, CountsAre, FS_EmptySet
  <2>2. QED
    BY <2>1, CountsAre, Sizes
<1>9. Returned' = Append(Returned, opaque[i])
  <2>1. Pushes(used, last_used, used_idx, d, i, used')
    BY <1>1, <1>2, <1>8 DEF Pushes
  <2>2. OrderPushes(used, last_used, used_idx, d, i, used', opaque, opaque)
    BY <1>2, <1>8, <2>1 DEF OrderPushes
  <2>3. OrderPushed(used, last_used, d, i, used', opaque, opaque)
    BY <2>2, OrderPush, Zenon
  <2>4. Pushed(used, last_used, used_idx, d, i, used')
    BY <2>1, WindowPush, Zenon
  <2>5. Gap(last_used, used_idx)' = d + 1
    BY <1>1, <2>4 DEF Pushed
  <2>6. Returned' = InOrder(opaque, used', last_used, d + 1)
    BY <1>0, <1>1, <2>5 DEF OrderViews
  <2>7. Returned = InOrder(opaque, used, last_used, d)
    BY <1>0 DEF OrderViews
  <2>8. QED
    BY <2>3, <2>6, <2>7 DEF OrderPushed
<1>10. Submitted' = Submitted
  BY <1>0, <1>1, <1>3 DEF OrderViews
<1>11. Cost' = Cost
  BY <1>1, CostSame
<1>12. QED
  BY <1>1, <1>5, <1>7, <1>9, <1>10, <1>11 DEF Queue!GiveBack

(* get_buf returns the oldest, and makes room.                             *)
LEMMA CollectMaps ==
  ASSUME IInv, IInv', GetBuf
  PROVE  Queue!Collect
<1>0. OrderViews /\ OrderViews'
  BY Views, ViewsNext
<1> DEFINE w == Gap(seen, avail_idx)
           d == Gap(last_used, used_idx)
<1>1. PICK h \in Attached : h = used[last_used % Num]
  BY Collected
<1>2. /\ h \in Backs /\ h \notin working /\ h \notin Waits /\ PutUnusedDescChain(h)
      /\ last_used # used_idx
  BY <1>1, Collected
<1>3. /\ last_used' = (last_used + 1) % Modulus /\ detaching = FALSE
      /\ UNCHANGED <<avail, avail_idx, used, used_idx, seen, working, detaching>>
  BY DEF GetBuf, availVars, deviceVars, IInv, Types
<1>4. /\ opaque' = [opaque EXCEPT ![h] = NoMsg] /\ opaque' \in Pointers
  BY <1>2, PutDescriptors DEF IInv, Pointers
<1>5. /\ opaque \in Pointers /\ used \in Tables /\ last_used \in Index /\ used_idx \in Index
  BY DEF IInv, Types, Pointers
<1>6. /\ Waits \subseteq Attached /\ Backs \subseteq Attached /\ working \subseteq Attached
      /\ Attached \in SUBSET Slots
  BY <1>3, AttachedIn DEF IInv, Lists
<1>7. \A i \in Attached \ {h} : opaque'[i] = opaque[i]
  BY <1>4, <1>5, <1>6 DEF Pointers
<1>8. w \in Nat /\ d \in Nat /\ Gap(last_used, used_idx)' = d - 1
  BY <1>2, <1>3, <1>5, CountsAre, GapMoves
<1>9. /\ Window(used, last_used, d) = {h} \cup Window(used, (last_used + 1) % Modulus, d - 1)
      /\ h \notin Window(used, (last_used + 1) % Modulus, d - 1)
  <2>1. Distinct(used, last_used, d)
    BY <1>3 DEF IInv, Lists
  <2>2. QED
    BY <1>1, <1>2, <1>5, <2>1, WindowPop
<1>10. \A i \in Window(used, (last_used + 1) % Modulus, d - 1) : opaque'[i] = opaque[i]
  BY <1>6, <1>7, <1>9 DEF Backs
<1>11. OrderPopped(used, last_used, d, opaque, opaque')
  <2>1. OrderPops(used, last_used, used_idx, d, opaque, opaque')
    BY <1>2, <1>4, <1>5, <1>10 DEF OrderPops
  <2>2. QED
    BY <2>1, OrderPop, Zenon
<1>12. /\ Returned # <<>> /\ Head(Returned) = opaque[h] /\ Returned' = Tail(Returned)
  <2>1. Returned = InOrder(opaque, used, last_used, d)
    BY <1>0 DEF OrderViews
  <2>2. Returned' = InOrder(opaque', used, (last_used + 1) % Modulus, d - 1)
    BY <1>0, <1>3, <1>8 DEF OrderViews
  <2>3. QED
    BY <1>1, <1>11, <2>1, <2>2 DEF OrderPopped
<1>13. Submitted' = Submitted
  <2>1. \A i \in Window(avail, seen, w) : opaque'[i] = opaque[i]
    BY <1>2, <1>6, <1>7 DEF Waits
  <2>2. InOrder(opaque', avail, seen, w) = InOrder(opaque, avail, seen, w)
    BY <1>8, <2>1, OrderSame
  <2>3. Submitted' = InOrder(opaque', avail, seen, w)
    BY <1>0, <1>3 DEF OrderViews
  <2>4. QED
    BY <1>0, <1>3, <2>2, <2>3 DEF OrderViews
<1>14. Held' = Held
  BY <1>2, <1>3, <1>6, <1>7 DEF Held
<1>15. /\ Cost' = [Cost EXCEPT ![opaque[h]] = 0]
       /\ num_unused' = num_unused + Cost[opaque[h]]
  BY <1>2, CostRemove
<1>16. QED
  BY <1>12, <1>13, <1>14, <1>15 DEF Queue!Collect

(* The detach loop takes the buffer of some rank out of the list.          *)
LEMMA DetachMaps ==
  ASSUME IInv, IInv', DetachUnusedBuf
  PROVE  \E r \in DOMAIN Submitted : Queue!Detach(r)
<1>0. OrderViews /\ OrderViews'
  BY Views, ViewsNext
<1>1. PICK i \in Attached : i = Lowest
  BY LowestIs DEF DetachUnusedBuf
<1>2. /\ working = {} /\ last_used = used_idx /\ PutUnusedDescChain(i)
      /\ UNCHANGED <<avail, last_used, used, used_idx, seen, working>>
  BY <1>1 DEF DetachUnusedBuf, HasBuf, deviceVars
<1>3. /\ opaque' = [opaque EXCEPT ![i] = NoMsg] /\ opaque' \in Pointers
      /\ Attached' = Attached \ {i}
  BY <1>2, PutDescriptors DEF IInv, Pointers
<1>4. opaque \in Pointers /\ Attached \in SUBSET Slots /\ avail \in Tables /\ seen \in Index
  BY AttachedIn DEF IInv, Types, Pointers
<1>5. \A j \in Attached \ {i} : opaque'[j] = opaque[j]
  BY <1>3, <1>4 DEF Pointers
<1>6. PICK n \in 0 .. Num :
        Distinct(avail, seen, n) /\ Attached \subseteq Window(avail, seen, n)
  BY <1>2, Placed
<1> DEFINE c == Cardinality(Attached)
           r == Rank(avail, seen, Attached, i) + 1
<1>7. Some(avail, seen, n, Attached)
  BY <1>4, <1>6 DEF Some
<1>8. /\ r \in 1 .. c /\ WaitingIn(avail, seen, Attached, r) = i
      /\ \A k \in 1 .. c - 1 :
           /\ WaitingIn(avail, seen, Attached \ {i}, k) \in Attached \ {i}
           /\ WaitingIn(avail, seen, Attached \ {i}, k)
                = WaitingIn(avail, seen, Attached, IF k < r THEN k ELSE k + 1)
  BY <1>7, WaitingLess
<1>9. c \in Nat /\ Cardinality(Attached \ {i}) = c - 1
  BY AttachedIn, FS_RemoveElement
<1> HIDE DEF c, r
<1>10. Submitted = [k \in 1 .. c |-> opaque[WaitingIn(avail, seen, Attached, k)]]
  BY <1>0, <1>2, Zenon DEF OrderViews, c
<1>11. Submitted' = [k \in 1 .. c - 1 |-> opaque'[WaitingIn(avail, seen, Attached \ {i}, k)]]
  BY <1>0, <1>2, <1>3, <1>9 DEF OrderViews
<1>12. DOMAIN Submitted = 1 .. c /\ Len(Submitted) = c
  <2>1. DOMAIN Submitted = 1 .. c
    BY <1>10
  <2>2. QED
    BY <1>9, <2>1
<1>13. Submitted' = [k \in 1 .. Len(Submitted) - 1 |->
                       Submitted[IF k < r THEN k ELSE k + 1]]
  <2>1. ASSUME NEW k \in 1 .. c - 1
        PROVE  opaque'[WaitingIn(avail, seen, Attached \ {i}, k)]
                 = Submitted[IF k < r THEN k ELSE k + 1]
    <3>1. (IF k < r THEN k ELSE k + 1) \in 1 .. c
      BY <1>9
    <3>2. Submitted[IF k < r THEN k ELSE k + 1]
            = opaque[WaitingIn(avail, seen, Attached, IF k < r THEN k ELSE k + 1)]
      BY <1>10, <3>1, Zenon
    <3>3. opaque'[WaitingIn(avail, seen, Attached \ {i}, k)]
            = opaque[WaitingIn(avail, seen, Attached \ {i}, k)]
      BY <1>5, <1>8
    <3>4. QED
      BY <1>8, <3>2, <3>3, Zenon
  <2>2. QED
    BY <1>11, <1>12, <2>1
<1>14. Submitted[r] = opaque[i]
  BY <1>8, <1>10
<1>15. Held = {} /\ Held' = {}
  BY <1>2 DEF Held
<1>16. Returned = <<>> /\ Returned' = <<>>
  <2>1. Gap(last_used, used_idx) = 0 /\ Gap(last_used, used_idx)' = 0
    BY <1>2, Placed
  <2>2. QED
    BY <1>0, <2>1 DEF OrderViews, InOrder
<1>17. /\ Cost' = [Cost EXCEPT ![opaque[i]] = 0]
       /\ num_unused' = num_unused + Cost[opaque[i]]
  BY <1>2, CostRemove
<1>18. Queue!Detach(r)
  BY <1>13, <1>14, <1>15, <1>16, <1>17 DEF Queue!Detach
<1>19. QED
  BY <1>8, <1>12, <1>18

(* What is left of the queue when nothing is outstanding.                  *)
Empty == Attached = {} /\ working = {} /\ last_used = used_idx

QueueEmpty == /\ Submitted = <<>> /\ Held = {} /\ Returned = <<>>
              /\ Cost = [m \in Msgs |-> 0]

(* The queue is empty then.                                                *)
LEMMA EmptyIs == IInv /\ Empty => QueueEmpty
<1> SUFFICES ASSUME IInv, Empty PROVE QueueEmpty
  OBVIOUS
<1>1. OrderViews /\ CostView
  BY Views, Costs
<1>2. Submitted = <<>> /\ Held = {}
  BY <1>1 DEF OrderViews, Empty, Held
<1>3. Gap(last_used, used_idx) = 0
  BY Placed DEF Empty
<1>4. Returned = <<>>
  BY <1>1, <1>3 DEF OrderViews, InOrder
<1>5. Cost = [m \in Msgs |-> 0]
  BY <1>1 DEF CostView, Empty
<1>6. QED
  BY <1>2, <1>4, <1>5 DEF QueueEmpty

(* And after a step.                                                       *)
LEMMA EmptyNext == IInv' /\ Empty' => QueueEmpty'
  BY EmptyIs, PTL

(* A shutdown empties the queue.                                           *)
LEMMA ResetMaps ==
  ASSUME IInv', Shutdown
  PROVE  Queue!Reset
<1>1. Empty'
  BY DEF Shutdown, Empty, Attached
<1>2. QueueEmpty' /\ num_unused' = Num
  BY <1>1, EmptyNext DEF Shutdown
<1>3. QED
  BY <1>2 DEF QueueEmpty, Queue!Reset

(* The initial ring is an empty queue.                                     *)
LEMMA InitMaps == Init => Queue!Init
<1> SUFFICES ASSUME Init PROVE Queue!Init
  OBVIOUS
<1>1. IInv
  BY InitInv
<1>2. Empty
  BY DEF Init, Empty, Attached
<1>3. QueueEmpty /\ num_unused = Num
  BY <1>1, <1>2, EmptyIs DEF Init
<1>4. QED
  BY <1>3 DEF QueueEmpty, Queue!Init

(* What the ring leaves alone the queue does.                              *)
LEMMA StutterMaps ==
  ASSUME IInv, IInv', UNCHANGED vars
  PROVE  UNCHANGED Queue!vars
<1>0. OrderViews /\ OrderViews'
  BY Views, ViewsNext
<1>1. /\ UNCHANGED <<next, more, num_unused, opaque, last_used, avail_idx>>
      /\ UNCHANGED <<avail, used, used_idx, seen, working, detaching>>
  BY DEF vars, driverVars, availVars, deviceVars
<1>2. Cost' = Cost
  BY <1>1, CostSame
<1>3. Returned' = Returned
  BY <1>0, <1>1 DEF OrderViews
<1>4. Submitted' = Submitted
  <2>1. CASE detaching = FALSE
    BY <1>0, <1>1, <2>1 DEF OrderViews
  <2>2. CASE detaching = TRUE
    <3>1. working = {} /\ last_used = used_idx
      BY <2>2 DEF IInv, Detached
    <3>2. Attached' = Attached
      BY <1>1 DEF Attached
    <3>3. QED
      BY <1>0, <1>1, <3>1, <3>2 DEF OrderViews
  <2>3. QED
    BY <2>1, <2>2 DEF IInv, Types
<1>5. Held' = Held
  BY <1>1 DEF Held
<1>6. QED
  BY <1>1, <1>2, <1>3, <1>4, <1>5 DEF Queue!vars

(* Every step of the ring is a step of the queue, or none.                 *)
LEMMA StepMaps == IInv /\ IInv' /\ [Next]_vars => [Queue!Next]_(Queue!vars)
<1> SUFFICES ASSUME IInv, IInv', [Next]_vars PROVE [Queue!Next]_(Queue!vars)
  OBVIOUS
<1>1. ASSUME NEW m \in Msgs, AddBuf(m) PROVE Queue!Next
  <2>1. PICK n \in Nat : Added(m, n)
    BY <1>1, AddIs DEF IInv
  <2>2. Queue!Add(m, n) /\ n \in 1 .. MaxChain
    BY <2>1, AddMaps DEF Added
  <2>3. QED
    BY <2>2 DEF Queue!Next
<1>2. CASE GetBuf
  BY <1>2, CollectMaps DEF Queue!Next
<1>3. CASE DetachUnusedBuf
  BY <1>3, DetachMaps DEF Queue!Next
<1>4. CASE Shutdown
  BY <1>4, ResetMaps DEF Queue!Next
<1>5. CASE DeviceTake
  BY <1>5, TakeMaps DEF Queue!Next
<1>6. ASSUME NEW i \in Slots, DeviceGiveBack(i) PROVE Queue!Next
  BY <1>6, GiveBackMaps DEF Queue!Next
<1>7. CASE UNCHANGED vars
  BY <1>7, StutterMaps
<1>8. QED
  BY <1>1, <1>2, <1>3, <1>4, <1>5, <1>6, <1>7 DEF Next

(* The split ring implements the queue of BufferQueue: buffers are offered *)
(* to the device in the order of virtqueue_add_buf_split, come back once,  *)
(* in the order in which the device returned them and under the pointer    *)
(* they were added with (virtqueue_get_buf_split), and an add is refused   *)
(* only when its descriptors do not fit; detaching and shutting down take  *)
(* back what is outstanding.                                               *)
THEOREM RingImplementsQueue == Spec => ImplementsQueue
<1>1. Spec => []IInv
  BY InitInv, StepInv, PTL DEF Spec
<1>2. QED
  BY <1>1, InitMaps, StepMaps, PTL DEF Spec, ImplementsQueue, Queue!Spec
=============================================================================

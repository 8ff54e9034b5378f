----------------------------- MODULE RingEvents -----------------------------
(***************************************************************************)
(* Who wakes whom on a split virtqueue (VirtIO/VirtIORing.c): the driver   *)
(* kicks the device when it added buffers, the device interrupts the       *)
(* driver when it returned some, and each side tells the other when that   *)
(* is worth doing, through a flag or, with VIRTIO_RING_F_EVENT_IDX, an     *)
(* index.  Only the free-running indexes matter here; the rings and the    *)
(* descriptors are in SplitRing.                                           *)
(*                                                                         *)
(* The device is external, and follows the protocol: it asks for a kick,   *)
(* then looks once more, before it sleeps.  The driver asks for an         *)
(* interrupt with enable_cb or enable_cb_delayed and sleeps when told so;  *)
(* meanwhile other threads may add buffers, one operation at a time.       *)
(***************************************************************************)
EXTENDS RingIndexes

CONSTANT
  MaxAdded    (* bound: the buffers added without a kick, past a full turn  *)

ASSUME RingEventsAssumption == MaxAdded \in Nat /\ MaxAdded > Modulus

VARIABLES
  event_idx,    (* vdev->event_suppression_enabled: chosen at negotiation   *)
  added,        (* num_added_since_kick                                     *)
  master_quiet, (* master_vring_avail.flags & VIRTQ_AVAIL_F_NO_INTERRUPT    *)
  quiet,        (* vring.avail->flags, what the device reads                *)
  used_event,   (* vring_used_event: where the driver wants an interrupt    *)
  driver,       (* running, enabling or asleep, with the threshold asked    *)
  no_notify,    (* vring.used->flags & VIRTQ_USED_F_NO_NOTIFY               *)
  avail_event,  (* vring_avail_event: where the device wants a kick         *)
  device,       (* running, arming or asleep                                *)
  announcing,   (* the device returned a buffer and has yet to decide       *)
                (* whether to interrupt                                     *)
  bell, irq     (* a kick, an interrupt on its way                          *)

driverEnd == <<avail_idx, added, last_used, master_quiet, quiet, used_event>>
deviceEnd == <<seen, used_idx, no_notify, avail_event, announcing>>
eventsVars == <<event_idx, driverEnd, driver, deviceEnd, device, bell, irq>>

(* vring_need_event: did the step from old to new pass the event index?    *)
NeedEvent(event, new, old) ==
  Distance(Plus(event, 1), new) < Distance(old, new)

(* How a driver waits: "now" as soon as a buffer is back, "delayed" after  *)
(* most of the outstanding ones are.                                       *)
Modes == {"now", "delayed"}
Running == [at |-> "running"]
At(where, mode, bufs) == [at |-> where, mode |-> mode, bufs |-> bufs]

EventsInit ==
  /\ event_idx \in BOOLEAN
  /\ avail_idx = 0 /\ added = 0 /\ last_used = 0
  /\ master_quiet = FALSE /\ quiet = FALSE /\ used_event = 0
  /\ driver = Running
  /\ seen = 0 /\ used_idx = 0
  /\ no_notify = FALSE /\ avail_event = 0
  /\ device = "asleep" /\ announcing = FALSE
  /\ bell = FALSE /\ irq = FALSE

-----------------------------------------------------------------------------
(* The end of virtqueue_add_buf_split: the index is published and counted. *)
AddIndex ==
  /\ driver.at # "enabling"
  /\ Distance(last_used, avail_idx) < Num
  /\ added < MaxAdded
  /\ avail_idx' = Plus(avail_idx, 1)
  /\ added'     = added + 1
  /\ UNCHANGED <<event_idx, last_used, master_quiet, quiet, used_event, driver,
                 deviceEnd, device, bell, irq>>

(* Mistaken: a whole turn of the index is not noticed.                     *)
Mut_KickNeeded ==
  IF event_idx
  THEN NeedEvent(avail_event, avail_idx, Distance(added % Modulus, avail_idx))
  ELSE ~no_notify

(* virtqueue_kick_prepare_split: old is the index at the last kick, and a  *)
(* whole turn since then always needs a kick.                              *)
KickNeeded ==
  IF event_idx
  THEN \/ added >= Modulus
       \/ NeedEvent(avail_event, avail_idx, Distance(added % Modulus, avail_idx))
  ELSE ~no_notify

(* virtqueue_kick: prepare, and notify if needed.                          *)
Kick ==
  /\ driver.at # "enabling"
  /\ added'  = 0
  /\ bell'   = (bell \/ KickNeeded)
  /\ UNCHANGED <<event_idx, avail_idx, last_used, master_quiet, quiet, used_event,
                 driver, deviceEnd, device, irq>>

KickAlways ==
  /\ driver.at # "enabling"
  /\ added' = 0
  /\ bell'  = TRUE
  /\ UNCHANGED <<event_idx, avail_idx, last_used, master_quiet, quiet, used_event,
                 driver, deviceEnd, device, irq>>

(* The index side of virtqueue_get_buf_split.                              *)
GetIndex ==
  /\ driver = Running
  /\ last_used # used_idx
  /\ last_used'  = Plus(last_used, 1)
  /\ used_event' = IF event_idx /\ ~master_quiet THEN last_used' ELSE used_event
  /\ UNCHANGED <<event_idx, avail_idx, added, master_quiet, quiet, driver,
                 deviceEnd, device, bell, irq>>

(* The flag half of the enable and disable functions: with event indexes   *)
(* the flag the device reads is left alone.                                *)
SetQuiet(q) ==
  /\ master_quiet' = q
  /\ quiet' = IF master_quiet # q /\ ~event_idx THEN q ELSE quiet

DisableCb ==
  /\ driver = Running
  /\ SetQuiet(TRUE)
  /\ UNCHANGED <<event_idx, avail_idx, added, last_used, used_event, driver,
                 deviceEnd, device, bell, irq>>

(* 3/4 of the buffers the device has not returned to the driver.           *)
Threshold == (Distance(last_used, avail_idx) * 3) \div 4

(* virtqueue_enable_cb_split and virtqueue_enable_cb_delayed_split, up to  *)
(* the barrier: the flag and the event index are written.                  *)
EnableCb(mode) ==
  LET bufs == IF mode = "now" THEN 0 ELSE Threshold
  IN  /\ driver = Running
      /\ SetQuiet(FALSE)
      /\ used_event' = Plus(last_used, bufs)
      /\ driver'     = At("enabling", mode, bufs)
      /\ UNCHANGED <<event_idx, avail_idx, added, last_used, deviceEnd, device,
                     bell, irq>>

(* The comparison after the barrier.  enable_cb compares two 16-bit values *)
(* for equality; enable_cb_delayed subtracts them as int, where the used   *)
(* index, once it wrapped, gives a negative number.                        *)
Satisfied(mode, bufs) == IF mode = "now" THEN last_used # used_idx
                         ELSE used_idx > last_used + bufs

(* Mistaken: the driver sleeps without looking at the used ring again.     *)
Mut_Enabled ==
  /\ driver.at = "enabling"
  /\ driver' = At("asleep", driver.mode, driver.bufs)
  /\ UNCHANGED <<event_idx, driverEnd, deviceEnd, device, bell, irq>>

(* TRUE sends the driver to sleep, FALSE makes it collect what is there.   *)
Enabled ==
  /\ driver.at = "enabling"
  /\ driver' = IF Satisfied(driver.mode, driver.bufs) THEN Running
               ELSE At("asleep", driver.mode, driver.bufs)
  /\ UNCHANGED <<event_idx, driverEnd, deviceEnd, device, bell, irq>>

(* The interrupt is served: it wakes the driver if it sleeps.              *)
Interrupt ==
  /\ irq
  /\ driver.at # "enabling"
  /\ irq'    = FALSE
  /\ driver' = Running
  /\ UNCHANGED <<event_idx, driverEnd, deviceEnd, device, bell>>

-----------------------------------------------------------------------------
(* The device.  A kick wakes it; awake it asks for no more kicks.          *)
DeviceWakes ==
  /\ bell
  /\ device = "asleep"
  /\ bell'      = FALSE
  /\ device'    = "running"
  /\ no_notify' = ~event_idx
  /\ UNCHANGED <<event_idx, driverEnd, driver, seen, used_idx, avail_event,
                 announcing, irq>>

DeviceSees ==
  /\ device = "running"
  /\ seen # avail_idx
  /\ seen' = Plus(seen, 1)
  /\ UNCHANGED <<event_idx, driverEnd, driver, used_idx, no_notify, avail_event,
                 announcing, device, bell, irq>>

(* Nothing to take: it asks for a kick, looks again, and sleeps.           *)
DeviceArm ==
  /\ device = "running"
  /\ seen = avail_idx
  /\ device'      = "arming"
  /\ no_notify'   = FALSE
  /\ avail_event' = seen
  /\ UNCHANGED <<event_idx, driverEnd, driver, seen, used_idx, announcing, bell,
                 irq>>

DeviceSleep ==
  /\ device = "arming"
  /\ device' = IF seen = avail_idx THEN "asleep" ELSE "running"
  /\ UNCHANGED <<event_idx, driverEnd, driver, deviceEnd, bell, irq>>

(* A buffer is returned, and the driver interrupted if it asked for that.  *)
(* It does so on behalf of the backend, awake or asleep.                   *)
DeviceReturn ==
  /\ ~announcing
  /\ used_idx # seen
  /\ used_idx'   = Plus(used_idx, 1)
  /\ announcing' = TRUE
  /\ UNCHANGED <<event_idx, driverEnd, driver, seen, no_notify, avail_event,
                 device, bell, irq>>

DeviceAnnounce ==
  /\ announcing
  /\ announcing' = FALSE
  /\ irq' = (irq \/ IF event_idx
                    THEN NeedEvent(used_event, used_idx, Distance(1, used_idx))
                    ELSE ~quiet)
  /\ UNCHANGED <<event_idx, driverEnd, driver, seen, used_idx, no_notify,
                 avail_event, device, bell>>

EventsNext == \/ AddIndex \/ Kick \/ KickAlways \/ GetIndex
              \/ DisableCb \/ \E mode \in Modes : EnableCb(mode)
              \/ Enabled \/ Interrupt
              \/ DeviceWakes \/ DeviceSees \/ DeviceArm \/ DeviceSleep
              \/ DeviceReturn \/ DeviceAnnounce

EventsSpec == EventsInit /\ [][EventsNext]_eventsVars

-----------------------------------------------------------------------------
(* The type invariant; the four places follow each other round the ring    *)
(* and span no more than the queue.                                        *)
EventsTypeOK ==
  /\ {avail_idx, last_used, used_event, seen, used_idx, avail_event} \subseteq Index
  /\ added \in 0 .. MaxAdded
  /\ {event_idx, master_quiet, quiet, no_notify, announcing, bell, irq}
       \subseteq BOOLEAN
  /\ driver.at \in {"running", "enabling", "asleep"}
  /\ device \in {"running", "arming", "asleep"}
  /\ Distance(last_used, used_idx) + Distance(used_idx, seen)
       + Distance(seen, avail_idx) = Distance(last_used, avail_idx)
  /\ Distance(last_used, avail_idx) <= Num

(* No kick is lost: the device does not sleep over buffers the driver has  *)
(* kicked for, whatever virtqueue_kick_prepare suppressed, even if a whole *)
(* turn of the index went by between two kicks.                            *)
NoLostKick ==
  (device = "asleep" /\ ~bell /\ added = 0) => seen = avail_idx

(* No interrupt is lost: a driver that virtqueue_enable_cb sent to sleep   *)
(* does not sleep over a returned buffer, whichever side came first.       *)
NoLostInterrupt ==
  (driver.at = "asleep" /\ driver.mode = "now" /\ ~irq /\ ~announcing)
    => last_used = used_idx

(* Neither side sleeps over work that the other has announced.             *)
NoLostWakeup == EventsTypeOK /\ NoLostKick /\ NoLostInterrupt

(* What the comment on virtqueue_enable_cb_delayed says: it does not tell  *)
(* the driver to wait when 3/4 of the buffers have already been returned.  *)
DelayedWaitIsDue ==
  [][(driver.at = "enabling" /\ driver.mode = "delayed" /\ driver'.at = "asleep")
       => Distance(last_used, used_idx) <= driver.bufs]_eventsVars
=============================================================================

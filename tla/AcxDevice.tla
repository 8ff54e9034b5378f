----------------------------- MODULE AcxDevice ------------------------------
(***************************************************************************)
(* The device of the ACX variant: the PnP and power callbacks of           *)
(* ViosndAcxDriver.cpp, the bring-up, the control commands and the event   *)
(* queue of ViosndAcxVirtio.cpp, over the WDF glue of the VirtIO library   *)
(* (VirtIOWdf.c, PCI.c, Dma.c).                                            *)
(*                                                                         *)
(* WDF runs one PnP or power callback at a time; it connects the interrupt *)
(* after EvtDeviceD0Entry and disconnects it, DPCs included, before        *)
(* EvtDeviceD0Exit; the requests of the streams are held back outside D0.  *)
(* In D0 the two streams' callbacks send control commands, and a DPC       *)
(* drains the event queue.  A control message is freed at an address that  *)
(* a later one may get, and the ring keeps what it was given until the     *)
(* device returns it; so messages have an address and an identity.         *)
(*                                                                         *)
(* The device works on the rings from DRIVER_OK on, or from the first      *)
(* notification, which this driver sends before (kicked).                  *)
(***************************************************************************)
EXTENDS Naturals, Sequences, FiniteSets, SequencesExt

CONSTANTS
  Streams,      (* the threads that call for the streams                    *)
  Addresses,    (* where the allocator places a control message             *)
  ControlRoom,  (* the messages the control ring has room for               *)
  EventCount    (* VIOSND_EVENT_BUFFER_COUNT                                *)

ASSUME AcxDeviceAssumption ==
  /\ IsFiniteSet(Streams) /\ "pnp" \notin Streams /\ "nobody" \notin Streams
  /\ ControlRoom \in Nat \ {0} /\ EventCount \in Nat \ {0}

VARIABLES
  pc,           (* how far the PnP or power callback is, or where WDF is    *)
  callback,     (* the PnP or power callback that runs, or ran last         *)
  bars,         (* PCIBars is not empty                                     *)
  queues_ready, (* QueuesReady                                              *)
  virtio_ready, (* VirtioReady                                              *)
  rings,        (* the rings' memory is allocated                           *)
  room,         (* the event ring's descriptors                             *)
  pool,         (* EventPoolVa # NULL                                       *)
  posted,       (* the event buffers the device has                         *)
  returned,     (* those it gave back                                       *)
  streams,      (* Streams: HasRender, HasCapture                           *)
  circuits,     (* RenderCircuitAdded, CaptureCircuitAdded                  *)
  status,       (* hardware: device_status                                  *)
  kicked,       (* hardware: it was notified since its reset                *)
  at,           (* where each caller of a control command is                *)
  message,      (* its message                                              *)
  lock,         (* who holds ControlLock                                    *)
  ring,         (* the control ring: the messages the device has            *)
  used,         (* those it gave back                                       *)
  late,         (* history: the messages whose command timed out            *)
  query,        (* the bring-up's query: "unasked", "sent" or "answered"       *)
  marks         (* history: see Marks                                       *)

(* "reused": a message was placed where one still on the ring had been.    *)
(* "misread": a command completed on the return of another's message.      *)
(* "kept": a circuit could not be removed.                                 *)
Marks == {"reused", "misread", "kept"}

ownVars      == <<bars, queues_ready, virtio_ready, rings, room>>
eventVars    == <<pool, posted, returned>>
circuitVars  == <<streams, circuits>>
hardwareVars == <<status, kicked>>
ringVars     == <<ring, used, late>>
callVars     == <<at, message, lock, query>>
vars == <<pc, callback, ownVars, eventVars, circuitVars, hardwareVars, ringVars, callVars,
          marks>>

Callers    == Streams \cup {"pnp"}
Events     == 1 .. EventCount
Directions == {"render", "capture"}
Ids        == 1 .. Cardinality(Callers) + ControlRoom
Nothing    == [address |-> "none", id |-> 0]
Nobody     == "nobody"

Init ==
  /\ pc = "off" /\ callback = "release" /\ bars = FALSE
  /\ queues_ready = FALSE /\ virtio_ready = FALSE /\ rings = FALSE /\ room = 0
  /\ pool = FALSE /\ posted = {} /\ returned = {} /\ streams = {} /\ circuits = {}
  /\ status = {} /\ kicked = FALSE
  /\ at = [t \in Callers |-> "idle"] /\ message = [t \in Callers |-> Nothing]
  /\ lock = Nobody /\ ring = {} /\ used = <<>> /\ late = {}
  /\ query = "unasked" /\ marks = {}

-----------------------------------------------------------------------------
(* ViosndControlCommand.  The message is allocated before the lock is      *)
(* taken, and freed after it was released, whatever became of it.          *)
OnTheRing == ring \cup ToSet(used)
Placed    == {message[t] : t \in Callers} \ {Nothing}
FreeIds   == Ids \ {m.id : m \in Placed \cup OnTheRing}

Moves(t, from, to) == at[t] = from /\ at' = [at EXCEPT ![t] = to]

CallOnly == UNCHANGED <<pc, callback, ownVars, eventVars, circuitVars>>

MayCall(t) ==
  IF t \in Streams THEN pc = "working"
  ELSE pc = "stopping" \/ (pc = "asking" /\ query = "unasked")

AllocateMessage(t) ==
  /\ MayCall(t) /\ Moves(t, "idle", "allocated") /\ CallOnly
  /\ FreeIds # {}
  /\ \E a \in Addresses \ {m.address : m \in Placed} :
       /\ message' = [message EXCEPT ![t] = [address |-> a, id |-> CHOOSE i \in FreeIds : TRUE]]
       /\ marks' = IF a \in {m.address : m \in OnTheRing} THEN marks \cup {"reused"} ELSE marks
  /\ query' = IF pc = "asking" THEN "sent" ELSE query
  /\ UNCHANGED <<hardwareVars, ringVars, lock>>

RoomOnRing == Cardinality(ring) + Len(used) < ControlRoom

Submit(t) ==
  /\ lock = Nobody /\ RoomOnRing /\ Moves(t, "allocated", "polling") /\ CallOnly
  /\ lock' = t
  /\ ring' = ring \cup {message[t]}
  /\ kicked' = TRUE
  /\ UNCHANGED <<status, used, late, message, query, marks>>

SubmitBusy(t) ==
  /\ lock = Nobody /\ ~RoomOnRing /\ Moves(t, "allocated", "done") /\ CallOnly
  /\ UNCHANGED <<hardwareVars, ringVars, message, lock, query, marks>>

(* A mutant: whatever comes back is taken for the answer.                  *)
Mut_Answers(m, t) == TRUE

(* What comes back is compared with the message by its address.            *)
Answers(m, t) == m.address = message[t].address

TakeUsed ==
  /\ used # <<>>
  /\ used' = Tail(used) /\ late' = late \ {Head(used).id}
  /\ UNCHANGED ring

Complete(t) ==
  /\ TakeUsed /\ Answers(Head(used), t) /\ Moves(t, "polling", "done") /\ CallOnly
  /\ lock' = Nobody
  /\ query' = IF query = "sent" THEN "answered" ELSE query
  /\ marks' = IF Head(used) = message[t] THEN marks ELSE marks \cup {"misread"}
  /\ UNCHANGED <<hardwareVars, message>>

(* Whatever else comes back is forgotten, and the wait goes on.            *)
DropStale(t) ==
  /\ at[t] = "polling" /\ TakeUsed /\ ~Answers(Head(used), t) /\ CallOnly
  /\ UNCHANGED <<hardwareVars, callVars, marks>>

(* A second has passed, and the last look at the ring did not find it.     *)
PollTimeout(t) ==
  /\ Moves(t, "polling", "done") /\ CallOnly
  /\ lock' = Nobody
  /\ late' = late \cup {message[t].id}
  /\ UNCHANGED <<hardwareVars, ring, used, message, query, marks>>

FreeControlMessage(t) ==
  /\ Moves(t, "done", "idle") /\ CallOnly
  /\ message' = [message EXCEPT ![t] = Nothing]
  /\ UNCHANGED <<hardwareVars, ringVars, lock, query, marks>>

ControlCommand ==
  \E t \in Callers :
    \/ AllocateMessage(t) \/ Submit(t) \/ SubmitBusy(t) \/ Complete(t) \/ DropStale(t)
    \/ PollTimeout(t) \/ FreeControlMessage(t)

-----------------------------------------------------------------------------
(* The event queue.  Every buffer is one descriptor.                       *)
Active == "ok" \in status \/ kicked

DeviceAnswers ==
  /\ Active
  /\ \E m \in ring : ring' = ring \ {m} /\ used' = Append(used, m)
  /\ UNCHANGED <<pc, callback, ownVars, eventVars, circuitVars, hardwareVars, late, callVars,
                 marks>>

DeviceReports ==
  /\ Active
  /\ \E e \in posted : posted' = posted \ {e} /\ returned' = returned \cup {e}
  /\ UNCHANGED <<pc, callback, ownVars, pool, circuitVars, hardwareVars, ringVars, callVars,
                 marks>>

(* One turn of ViosndDrainEventQueue: by a DPC, which looks at VirtioReady *)
(* first, or at the end of ViosndAcxStopStreams.                           *)
Drains == (pc = "working" /\ virtio_ready) \/ (pc = "stopping" /\ queues_ready)

DrainEventQueue ==
  /\ Drains
  /\ \E e \in returned :
       /\ returned' = returned \ {e}
       /\ posted' = IF Cardinality((posted \cup returned) \ {e}) < room
                      THEN posted \cup {e} ELSE posted
  /\ kicked' = TRUE
  /\ UNCHANGED <<pc, callback, ownVars, pool, circuitVars, status, ringVars, callVars, marks>>

-----------------------------------------------------------------------------
(* The bring-up, of EvtDevicePrepareHardware and of EvtDeviceD0Entry.      *)
Goes(from, to) == pc = from /\ at["pnp"] = "idle" /\ pc' = to

CallbackOnly == UNCHANGED <<callVars, ringVars>>

DeviceReset == status' = {} /\ kicked' = FALSE

(* VirtIOWdfInitialize forgets all it knew.  virtio_device_initialize      *)
(* resets the device.                                                      *)
WdfInitialize ==
  /\ Goes("off", "features") /\ CallbackOnly
  /\ callback' = "prepare" /\ bars' = TRUE
  /\ status' = {"acknowledge", "driver"} /\ kicked' = FALSE
  /\ UNCHANGED <<queues_ready, virtio_ready, rings, room, eventVars, circuitVars, marks>>

(* No interface, or no BARs: nothing is left.  No DMA: the BARs are.  Not  *)
(* such a device, or an IOMMU it does not know of: the BARs are freed.     *)
WdfInitializeFails ==
  /\ Goes("off", "failed") /\ CallbackOnly
  /\ callback' = "prepare"
  /\ \/ bars' \in BOOLEAN /\ UNCHANGED hardwareVars
     \/ bars' = FALSE /\ status' \in {{}, {"acknowledge", "driver"}} /\ kicked' = FALSE
  /\ UNCHANGED <<queues_ready, virtio_ready, rings, room, eventVars, circuitVars, marks>>

(* FEATURES_OK is left to DeviceLifecycle.                                 *)
SetDriverFeatures ==
  /\ pc = "features" /\ pc' \in {"queues", "failing"} /\ CallbackOnly
  /\ status' = status \cup {"acknowledge", "driver"}
  /\ UNCHANGED <<callback, ownVars, eventVars, circuitVars, kicked, marks>>

(* virtio_find_queues sets up all the queues or deletes those it has.      *)
InitQueues ==
  /\ Goes("queues", "pool") /\ CallbackOnly
  /\ rings' = TRUE /\ queues_ready' = TRUE
  /\ room' \in {EventCount - 1, EventCount}
  /\ UNCHANGED <<callback, bars, virtio_ready, eventVars, circuitVars, hardwareVars, marks>>

InitQueuesFails ==
  /\ Goes("queues", "failing") /\ CallbackOnly
  /\ UNCHANGED <<callback, ownVars, eventVars, circuitVars, hardwareVars, marks>>

AllocateEventPool ==
  /\ Goes("pool", "posting") /\ CallbackOnly
  /\ pool' = TRUE
  /\ UNCHANGED <<callback, ownVars, posted, returned, circuitVars, hardwareVars, marks>>

AllocateEventPoolFails ==
  /\ Goes("pool", "failing") /\ CallbackOnly
  /\ UNCHANGED <<callback, ownVars, eventVars, circuitVars, hardwareVars, marks>>

(* The loop that posts the buffers, under the lock, ends at the first one  *)
(* there is no room for; the device is told of all of them or of none.     *)
PostEventBuffers ==
  /\ Goes("posting", "asking") /\ CallbackOnly
  /\ room >= EventCount
  /\ posted' = Events /\ kicked' = TRUE
  /\ UNCHANGED <<callback, ownVars, pool, returned, circuitVars, status, marks>>

PostEventBuffersFails ==
  /\ Goes("posting", "failing") /\ CallbackOnly
  /\ room < EventCount
  /\ posted' = {e \in Events : e <= room}
  /\ UNCHANGED <<callback, ownVars, pool, returned, circuitVars, hardwareVars, marks>>

(* ViosndAcxQueryPcmStreams: one command, without a retry, before          *)
(* DRIVER_OK.  It sends none when there are no streams or no memory.       *)
QueryPcmStreams ==
  /\ query = "answered" /\ Goes("asking", IF callback = "prepare" THEN "circuits" ELSE "ready")
  /\ query' = "unasked"
  /\ streams' \in SUBSET Directions \ {{}}
  /\ UNCHANGED <<callback, ownVars, eventVars, circuits, hardwareVars, ringVars, at, message,
                 lock, marks>>

QueryFails ==
  /\ Goes("asking", "failing")
  /\ query' = "unasked"
  /\ streams' \in {streams, {}}
  /\ UNCHANGED <<callback, ownVars, eventVars, circuits, hardwareVars, ringVars, at, message,
                 lock, marks>>

(* ViosndAcxAddStaticCircuits, one AcxDeviceAddCircuit at a time.          *)
AddCircuit(d) ==
  /\ Goes("circuits", "circuits") /\ CallbackOnly
  /\ d \in streams \ circuits
  /\ d = "capture" => "render" \notin streams \ circuits
  /\ circuits' = circuits \cup {d}
  /\ UNCHANGED <<callback, ownVars, eventVars, streams, hardwareVars, marks>>

(* ViosndAcxRemoveStaticCircuits: a circuit that cannot be removed stays.  *)
RemoveCircuits ==
  /\ circuits' \in SUBSET circuits
  /\ marks' = IF circuits' = {} THEN marks \ {"kept"} ELSE marks \cup {"kept"}

AddCircuitFails ==
  /\ Goes("circuits", "failing") /\ CallbackOnly
  /\ ~(streams \subseteq circuits)
  /\ RemoveCircuits
  /\ UNCHANGED <<callback, ownVars, eventVars, streams, hardwareVars>>

CircuitsAdded ==
  /\ Goes("circuits", "ready") /\ CallbackOnly
  /\ streams \subseteq circuits
  /\ UNCHANGED <<callback, ownVars, eventVars, circuitVars, hardwareVars, marks>>

SetDriverOK ==
  /\ Goes("ready", IF callback = "prepare" THEN "prepared" ELSE "working") /\ CallbackOnly
  /\ status' = status \cup {"ok"} /\ virtio_ready' = TRUE
  /\ UNCHANGED <<callback, bars, queues_ready, rings, room, eventVars, circuitVars, kicked,
                 marks>>

BringUp ==
  \/ WdfInitialize \/ WdfInitializeFails \/ SetDriverFeatures
  \/ InitQueues \/ InitQueuesFails \/ AllocateEventPool \/ AllocateEventPoolFails
  \/ PostEventBuffers \/ PostEventBuffersFails \/ QueryPcmStreams \/ QueryFails
  \/ (\E d \in Directions : AddCircuit(d)) \/ AddCircuitFails \/ CircuitsAdded \/ SetDriverOK

-----------------------------------------------------------------------------
(* D0, and the way back.  Behind "stopping" is ViosndAcxStopStreams, with  *)
(* any commands of streams that are prepared; "destroying" goes on as      *)
(* ViosndAcxDestroyDevice or, in EvtDeviceD0Exit, ends before the BARs.    *)
StopsFirst == IF virtio_ready THEN "stopping" ELSE "destroying"

(* The first time, EvtDevicePrepareHardware has done it all.               *)
D0Entry ==
  /\ pc \in {"prepared", "sleeping"} /\ CallbackOnly
  /\ pc' = IF queues_ready THEN "working" ELSE "features"
  /\ callback' = "entry"
  /\ UNCHANGED <<ownVars, eventVars, circuitVars, hardwareVars, marks>>

D0Exit ==
  /\ pc = "working" /\ (\A t \in Callers : at[t] = "idle") /\ CallbackOnly
  /\ pc' = StopsFirst /\ callback' = "exit"
  /\ UNCHANGED <<ownVars, eventVars, circuitVars, hardwareVars, marks>>

ReleaseHardware ==
  /\ pc \in {"prepared", "sleeping", "failed"} /\ CallbackOnly
  /\ pc' = StopsFirst /\ callback' = "release"
  /\ RemoveCircuits
  /\ UNCHANGED <<ownVars, eventVars, streams, hardwareVars>>

SetDriverFailed ==
  /\ Goes("failing", StopsFirst) /\ CallbackOnly
  /\ status' = status \cup {"failed"}
  /\ UNCHANGED <<callback, ownVars, eventVars, circuitVars, kicked, marks>>

StopStreams ==
  /\ Goes("stopping", "destroying") /\ returned = {} /\ CallbackOnly
  /\ virtio_ready' = FALSE
  /\ UNCHANGED <<callback, bars, queues_ready, rings, room, eventVars, circuitVars,
                 hardwareVars, marks>>

(* A mutant: the reset is left out.                                         *)
Mut_DestroyQueues ==
  /\ Goes("destroying", "destroying") /\ queues_ready
  /\ rings' = FALSE /\ queues_ready' = FALSE /\ room' = 0
  /\ ring' = {} /\ used' = <<>> /\ late' = {} /\ posted' = {} /\ returned' = {}
  /\ marks' = marks \ {"reused", "misread"}
  /\ UNCHANGED <<callback, bars, virtio_ready, pool, circuitVars, hardwareVars, callVars>>

(* The reset comes before the rings are freed.                             *)
DestroyQueues ==
  /\ Goes("destroying", "destroying") /\ queues_ready
  /\ DeviceReset
  /\ rings' = FALSE /\ queues_ready' = FALSE /\ room' = 0
  /\ ring' = {} /\ used' = <<>> /\ late' = {} /\ posted' = {} /\ returned' = {}
  /\ marks' = marks \ {"reused", "misread"}
  /\ UNCHANGED <<callback, bars, virtio_ready, pool, circuitVars, callVars>>

FreeEventBuffers ==
  /\ Goes("destroying", IF callback = "exit" THEN "sleeping" ELSE "shutdown") /\ CallbackOnly
  /\ ~queues_ready
  /\ pool' = FALSE
  /\ UNCHANGED <<callback, ownVars, posted, returned, circuitVars, hardwareVars, marks>>

Shutdown ==
  /\ Goes("shutdown", IF callback = "release" THEN "off" ELSE "failed") /\ CallbackOnly
  /\ bars' = FALSE
  /\ UNCHANGED <<callback, queues_ready, virtio_ready, rings, room, eventVars, circuitVars,
                 hardwareVars, marks>>

TakeDown ==
  \/ D0Entry \/ D0Exit \/ ReleaseHardware \/ SetDriverFailed \/ StopStreams \/ DestroyQueues
  \/ FreeEventBuffers \/ Shutdown

Next == ControlCommand \/ DeviceAnswers \/ DeviceReports \/ DrainEventQueue \/ BringUp \/ TakeDown

Spec == Init /\ [][Next]_vars

-----------------------------------------------------------------------------
TypeOK ==
  /\ pc \in {"off", "features", "queues", "pool", "posting", "asking", "circuits", "ready",
            "prepared", "working", "stopping", "destroying", "sleeping", "shutdown",
            "failing", "failed"}
  /\ callback \in {"prepare", "entry", "exit", "release"}
  /\ {bars, queues_ready, virtio_ready, rings, pool, kicked} \subseteq BOOLEAN
  /\ room \in 0 .. EventCount
  /\ posted \subseteq Events /\ returned \subseteq Events
  /\ streams \subseteq Directions /\ circuits \subseteq Directions
  /\ status \subseteq {"acknowledge", "driver", "ok", "failed"}
  /\ at \in [Callers -> {"idle", "allocated", "polling", "done"}]
  /\ \A t \in Callers : message[t] = Nothing <=> at[t] = "idle"
  /\ query \in {"unasked", "sent", "answered"}
  /\ lock \in Callers \cup {Nobody}
  /\ OnTheRing \cup Placed \subseteq [address : Addresses, id : Ids]
  /\ late \subseteq Ids /\ marks \subseteq Marks

(* Only its own answer completes a command, unless a message was placed    *)
(* where a freed one had been that the device still held.                  *)
Misread == "misread" \in marks => "reused" \in marks

(* A message on the ring is that of the one command under way, or its      *)
(* command timed out, or was taken for answered by another's return: no    *)
(* other command frees what the device may still read and write.           *)
FreedOnTheRing ==
  \A m \in OnTheRing : \/ \E t \in Callers : message[t] = m /\ at[t] = "polling"
                       \/ m.id \in late \/ "misread" \in marks

(* The query of a bring-up finds a ring of its own, so that its answer is  *)
(* never another's, whatever timed out before.                             *)
QueryAlone ==
  /\ pc = "asking" /\ query = "unasked" => OnTheRing = {}
  /\ query = "answered" => "misread" \notin marks

(* ControlLock is held by the one command that polls.                      *)
OneAtATime == \A t \in Callers : lock = t <=> at[t] = "polling"

(* ViosndControlCommand: what a command may free and what may answer it,   *)
(* when commands time out, their messages are freed on the ring, and the   *)
(* device returns them late, after the address was given to another.       *)
CommandInv == TypeOK /\ Misread /\ FreedOnTheRing /\ QueryAlone /\ OneAtATime

(* The device, once it was set going, has the rings and the event buffers. *)
SafeHardware == Active => rings /\ pool

(* VirtioReady is TRUE only over a device with DRIVER_OK and without       *)
(* FAILED, and rings are there only while the registers are that free them.*)
ReadyOverAll ==
  /\ virtio_ready => queues_ready /\ pool /\ "ok" \in status /\ "failed" \notin status
  /\ queues_ready = rings /\ (rings => bars)

(* In D0 no event buffer is lost, though the result of posting one again   *)
(* is ignored.                                                             *)
EventsKept == virtio_ready => posted \cup returned = Events /\ posted \cap returned = {}

(* What EvtDeviceReleaseHardware leaves, whatever failed before.           *)
GivenBack ==
  pc = "off" => /\ ~bars /\ ~rings /\ ~pool /\ ~virtio_ready /\ ~Active
                /\ circuits = {} \/ "kept" \in marks

(* The PnP and power callbacks, each step of which may fail: the hardware  *)
(* never works on freed memory, VirtioReady promises a working device, no  *)
(* event buffer is lost, and all is given back at the end.                 *)
DeviceInv == SafeHardware /\ ReadyOverAll /\ EventsKept /\ GivenBack
=============================================================================

----------------------- MODULE DeviceLifecycle_proofs -----------------------
(***************************************************************************)
(* That the hardware never works on freed memory, and that the handshake   *)
(* of virtio is kept, for any number of queues, streams, retries and       *)
(* starts of one device, starts that fail at any step and devices that     *)
(* were left running included; that PortCls is left with no filter of a    *)
(* device object that is gone, but for the failure that the model marks;   *)
(* and that a start gives back what it took.  For the first two, what the  *)
(* list of DMA blocks holds is not used: a ring is allocated from its      *)
(* set-up until the device was reset, whether it is found or not.  For the *)
(* last it is: the walk over the list is followed by an order of the       *)
(* blocks on it, and what the walk collects is found by induction.         *)
(***************************************************************************)
EXTENDS DeviceLifecycle, FiniteSetTheorems, WellFoundedInduction, TLAPS

(* The places of a start: before the reset, between reset and DRIVER_OK,   *)
(* and with DRIVER_OK.                                                     *)
Early  == {"none", "created", "interface", "header", "device", "transport"}
Middle == {"acknowledged", "driver", "queues"}
Up     == {"ready", "asked", "register", "started"}
Down   == {"delete", "reset", "destroy", "destroy queues", "destroy memory"}

Types ==
  /\ pc \in Early \cup Middle \cup Up \cup Down
  /\ starts \in Nat /\ legacy \in BOOLEAN /\ initialized \in BOOLEAN
  /\ vqs \subseteq Rings /\ ring_of \in [Rings -> Nat] /\ buffer \in Nat

(* What the hardware has belongs to starts that were left behind, or to    *)
(* this one, which still has the memory.                                   *)
Old == (\A q \in Rings : ring_of[q] \in left) /\ buffer \in left \cup {0}
Own == \A q \in Rings : ring_of[q] = starts /\ q \in allocated

(* DRIVER_OK goes with the place: what has it before the reset was left    *)
(* behind; afterwards it is this start's; and ViosndDestroyDevice resets   *)
(* the device exactly when it may have it.                                 *)
StatusByPlace ==
  /\ pc \in Early => ~initialized /\ ("ok" \in status => Old)
  /\ pc \in Middle \cup {"delete", "reset"} => ~initialized /\ "ok" \notin status
  /\ pc \in Middle => buffer = 0
  /\ pc \in Up => initialized /\ "ok" \in status /\ Own
  /\ pc = "destroy" /\ ~initialized => ("ok" \in status => Old)
  /\ pc = "destroy" /\ initialized => "ok" \in status /\ Own
  /\ pc = "destroy queues" => "ok" \notin status
  /\ pc = "destroy memory" => ("ok" \in status => Old)

(* The message is with the device only while it is allocated.              *)
MessageByPlace ==
  /\ pc \in {"ready", "register", "started"} => buffer = 0
  /\ pc = "asked" => buffer \in {0, starts} /\ Workers \subseteq allocated
  /\ pc = "destroy" /\ initialized =>
       buffer \in {0, starts} /\ (buffer # 0 => Workers \subseteq allocated)

(* virtio_find_queues sets the queues up in their order, after the         *)
(* features were accepted, and none is left from an earlier start.         *)
QueuesByPlace ==
  /\ pc \in Early \cup {"acknowledged", "driver", "reset", "destroy memory"} => vqs = {}
  /\ pc = "destroy" /\ ~initialized => vqs = {}
  /\ pc = "queues" => /\ \E n \in 0 .. QueueCount : vqs = 1 .. n
                      /\ \A q \in vqs : ring_of[q] = starts /\ q \in allocated
                      /\ legacy \/ "features" \in status

(* The workers are at the list only while the device serves.               *)
WorkersByPlace ==
  /\ at \in [Workers -> {"idle", "link", "has", "walk", "unlink", "lost"}]
  /\ pc # "started" => \A w \in Workers : at[w] = "idle"

IInv == Types /\ StatusByPlace /\ MessageByPlace /\ QueuesByPlace /\ WorkersByPlace

LEMMA WorkersAreNoRings == Rings \cap Workers = {}
  BY DeviceLifecycleAssumption DEF Rings, Workers, Request, Response

(* The next queue to set up is the first one that is not.                  *)
LEMMA NextQueueIs ==
  ASSUME NEW n \in 0 .. QueueCount, vqs = 1 .. n
  PROVE  NextQueue = n + 1
<1>1. n \in Int /\ Cardinality(1 .. n) = IF 1 > n THEN 0 ELSE n - 1 + 1
  BY FS_Interval, DeviceLifecycleAssumption
<1>2. QED
  BY <1>1, DeviceLifecycleAssumption DEF NextQueue

LEMMA InitInv == Init => IInv
<1> SUFFICES ASSUME Init PROVE IInv
  OBVIOUS
<1>1. /\ pc = "none" /\ starts = 0 /\ legacy = FALSE /\ initialized = FALSE
      /\ vqs = {} /\ status = {} /\ buffer = 0 /\ ring_of = [q \in Rings |-> 0]
      /\ at = [w \in Workers |-> "idle"]
  BY DEF Init
<1>2. Types
  BY <1>1 DEF Types, Early
<1>3. StatusByPlace /\ MessageByPlace /\ QueuesByPlace /\ WorkersByPlace
  BY <1>1 DEF StatusByPlace, MessageByPlace, QueuesByPlace, WorkersByPlace, Early, Middle,
              Up
<1>4. QED
  BY <1>2, <1>3 DEF IInv

LEMMA DeviceResetType ==
  ASSUME ring_of \in [Rings -> Nat], DeviceReset
  PROVE  status' = {} /\ buffer' = 0 /\ ring_of' \in [Rings -> Nat]
<1>1. [q \in Rings |-> 0] \in [Rings -> Nat]
  OBVIOUS
<1>2. QED
  BY <1>1 DEF DeviceReset

-----------------------------------------------------------------------------
(* The steps, by the part of the start they belong to.                     *)
LEMMA CreateStep ==
  ASSUME IInv, CreateDevice PROVE IInv'
<1> USE DeviceLifecycleAssumption
    DEF IInv, Types, StatusByPlace, MessageByPlace, QueuesByPlace, WorkersByPlace,
        Early, Middle, Up, Down, Old, Own, Goes, startVars, ownVars, queueVars, listVars,
        pcmVars, deviceVars, workVars
<1>1. CASE BeginStart
  BY <1>1 DEF BeginStart
<1>2. CASE QueryPciBusInterface \/ ReadPciHeader \/ InitializeDmaAdapter \/ CreateFails
  <2>1. /\ pc \in Early \ {"none"} /\ pc' \in (Early \ {"none"}) \cup {"destroy"}
        /\ UNCHANGED <<starts, legacy, initialized, vqs, allocated, ring_of, buffer,
                       status, left, at>>
    BY <1>2 DEF QueryPciBusInterface, ReadPciHeader, InitializeDmaAdapter, CreateFails
  <2>2. QED
    BY <2>1
<1>3. QED
  BY <1>1, <1>2 DEF CreateDevice

LEMMA QueueStep ==
  ASSUME IInv, SetupQueue \/ DeviceReady PROVE IInv'
<1> USE DeviceLifecycleAssumption
    DEF Types, StatusByPlace, MessageByPlace, QueuesByPlace, WorkersByPlace, Early,
        Middle, Up, Down, Old, Own, Goes, startVars, ownVars, queueVars, listVars,
        pcmVars, deviceVars, workVars
<1>1. pc = "queues"
  BY DEF SetupQueue, DeviceReady
<1>2. PICK n \in 0 .. QueueCount : vqs = 1 .. n
  BY <1>1 DEF IInv
<1>3. NextQueue = n + 1
  BY <1>2, NextQueueIs
<1>4. CASE SetupQueue
  <2>1. vqs' = 1 .. n + 1 /\ n + 1 \in 0 .. QueueCount /\ n + 1 \in Rings
    BY <1>2, <1>3, <1>4 DEF SetupQueue, Rings
  <2>2. QED
    BY <1>1, <1>2, <1>3, <1>4, <2>1 DEF SetupQueue, IInv, AllocateDmaBuffer
<1>5. CASE DeviceReady
  <2>1. vqs = Rings
    BY <1>2, <1>3, <1>5 DEF DeviceReady, Rings
  <2>2. QED
    BY <1>1, <1>5, <2>1 DEF DeviceReady, IInv
<1>6. QED
  BY <1>4, <1>5

LEMMA InitVirtioStep ==
  ASSUME IInv, InitVirtio PROVE IInv'
<1> USE DeviceLifecycleAssumption
    DEF Types, StatusByPlace, MessageByPlace, QueuesByPlace, WorkersByPlace, Early,
        Middle, Up, Down, Old, Own, Goes, startVars, ownVars, queueVars, listVars,
        pcmVars, deviceVars, workVars, MapAddressRange, DeviceReset, AllocateDmaBuffer,
        FreeDmaBuffer
<1>1. CASE ModernInitialize \/ LegacyInitialize \/ DeviceInitializeFails
  <2>1. /\ pc = "device" /\ pc' \in {"transport", "destroy"} /\ legacy' \in BOOLEAN
        /\ UNCHANGED <<starts, initialized, vqs, allocated, ring_of, buffer, status, left, at>>
    BY <1>1 DEF IInv, ModernInitialize, LegacyInitialize, DeviceInitializeFails
  <2>2. QED
    BY <2>1 DEF IInv
<1>2. CASE Acknowledge
  BY <1>2 DEF IInv, Acknowledge
<1>3. CASE AddStatus
  BY <1>3 DEF IInv, AddStatus
<1>4. CASE SetFeatures
  <2>1. \E n \in 0 .. QueueCount : vqs' = 1 .. n
    <3>1. vqs' = {} /\ 1 .. 0 = {} /\ 0 \in 0 .. QueueCount
      BY <1>4 DEF IInv, SetFeatures
    <3>2. QED
      BY <3>1
  <2>2. QED
    BY <1>4, <2>1 DEF IInv, SetFeatures
<1>5. CASE FeaturesRefused
  BY <1>5 DEF IInv, FeaturesRefused
<1>6. CASE QueryQueueFails
  BY <1>6 DEF IInv, QueryQueueFails
<1>7. CASE QueueHeapFails
  BY <1>7 DEF IInv, QueueHeapFails
<1>8. CASE QueueNotifyFails
  BY <1>8 DEF IInv, QueueNotifyFails
<1>9. CASE DeleteQueues
  BY <1>9 DEF IInv, DeleteQueues, DeleteQueue
<1>10. CASE InitVirtioFails
  <2>1. /\ pc \in {"delete", "reset"} /\ vqs = {} /\ pc' = "destroy"
        /\ status' = {} /\ buffer' = 0 /\ ring_of' \in [Rings -> Nat]
        /\ UNCHANGED <<starts, legacy, initialized, vqs, at>>
    BY <1>10, DeviceResetType DEF IInv, InitVirtioFails
  <2>2. QED
    BY <2>1 DEF IInv
<1>11. QED
  BY <1>1, <1>2, <1>3, <1>4, <1>5, <1>6, <1>7, <1>8, <1>9, <1>10, QueueStep
  DEF InitVirtio

LEMMA QueryStep ==
  ASSUME IInv, QueryPcmStreams PROVE IInv'
<1> USE DeviceLifecycleAssumption, WorkersAreNoRings
    DEF IInv, Types, StatusByPlace, MessageByPlace, QueuesByPlace, WorkersByPlace,
        Early, Middle, Up, Down, Old, Own, Goes, startVars, ownVars, queueVars, listVars,
        pcmVars, deviceVars, workVars
<1>1. CASE QueryFails
  BY <1>1 DEF QueryFails
<1>2. CASE SubmitQuery
  BY <1>2 DEF SubmitQuery, Workers
<1>3. CASE QueryTimesOut
  BY <1>3 DEF QueryTimesOut
<1>4. CASE DeviceAnswers
  BY <1>4 DEF DeviceAnswers
<1>5. ASSUME NEW code, NEW infos, QueryAnswered(code, infos) PROVE IInv'
  <2>1. /\ pc = "asked" /\ pc' \in {"ready", "register", "destroy"} /\ buffer = 0
        /\ allocated' = allocated \ Workers
        /\ UNCHANGED <<starts, legacy, initialized, vqs, ring_of, buffer, status, left, at>>
    BY <1>5 DEF QueryAnswered, FreeControlMessage
  <2>2. QED
    BY <2>1
<1>6. QED
  BY <1>1, <1>2, <1>3, <1>4, <1>5 DEF QueryPcmStreams

LEMMA RegisterStep ==
  ASSUME IInv, RegisterEndpoints PROVE IInv'
<1>1. /\ pc = "register" /\ pc' \in {"register", "started", "destroy"}
      /\ UNCHANGED <<starts, legacy, initialized, vqs, allocated, ring_of, buffer,
                     status, left, at>>
  BY DEF RegisterEndpoints, Started, RegisterTopologySubdevice, RegisterWaveRTSubdevice,
         RegisterPhysicalConnection, RegisterFilter, RegisterFails, Goes, startVars,
         ownVars, queueVars, listVars, pcmVars, deviceVars, workVars
<1>2. QED
  BY <1>1 DEF IInv, Types, StatusByPlace, MessageByPlace, QueuesByPlace, WorkersByPlace,
              Early, Middle, Up, Down, Old, Own

LEMMA DestroyStep ==
  ASSUME IInv, Destroy PROVE IInv'
<1> USE DeviceLifecycleAssumption
    DEF IInv, Types, StatusByPlace, MessageByPlace, QueuesByPlace, WorkersByPlace,
        Early, Middle, Up, Down, Old, Own, Goes, startVars, ownVars, queueVars, listVars,
        pcmVars, deviceVars, workVars, DeviceReset, FreeDmaBuffer
<1>1. CASE DestroyReset
  <2>1. /\ pc = "destroy" /\ pc' = "destroy queues" /\ status' = {} /\ buffer' = 0
        /\ ring_of' \in [Rings -> Nat] /\ UNCHANGED <<starts, legacy, initialized, vqs, at>>
    BY <1>1, DeviceResetType DEF DestroyReset
  <2>2. QED
    BY <2>1
<1>2. CASE DestroyQueue
  BY <1>2 DEF DestroyQueue, DeleteQueue
<1>3. CASE UnmapBars
  BY <1>3 DEF UnmapBars
<1>4. CASE PopDmaBlock
  BY <1>4 DEF PopDmaBlock
<1>5. CASE DestroyDevice
  BY <1>5 DEF DestroyDevice
<1>6. QED
  BY <1>1, <1>2, <1>3, <1>4, <1>5 DEF Destroy

(* While the device serves, no ring is freed, and no message is out.       *)
LEMMA ServingStep ==
  ASSUME IInv, Serving \/ Stop PROVE IInv'
<1> USE DeviceLifecycleAssumption, WorkersAreNoRings
    DEF IInv, Types, StatusByPlace, MessageByPlace, QueuesByPlace, WorkersByPlace,
        Early, Middle, Up, Down, Old, Own, startVars, ownVars, queueVars, listVars, pcmVars,
        deviceVars, workVars
<1>1. ASSUME NEW w \in Workers,
             \/ Allocate(w) \/ Link(w) \/ Search(w) \/ Advance(w)
             \/ Found(w) \/ Unlink(w) \/ NotFound(w)
      PROVE  IInv'
  <2>1. /\ \/ allocated' = allocated \/ allocated' = allocated \cup {w}
           \/ allocated' = allocated \ {w}
        /\ UNCHANGED <<pc, starts, legacy, initialized, vqs, ring_of, buffer, status, left>>
    BY <1>1 DEF Allocate, Link, Search, Advance, Found, Unlink, NotFound, Enters, Inside,
                Moves
  <2>2. at' \in [Workers -> {"idle", "link", "has", "walk", "unlink", "lost"}]
    BY <1>1 DEF Allocate, Link, Search, Advance, Found, Unlink, NotFound, Moves
  <2>3. pc = "started"
    <3>1. CASE Allocate(w) \/ Search(w)
      BY <3>1 DEF Allocate, Search, Enters
    <3>2. CASE Link(w) \/ Advance(w) \/ Found(w) \/ Unlink(w) \/ NotFound(w)
      BY <3>2 DEF Link, Advance, Found, Unlink, NotFound, Moves
    <3>3. QED
      BY <1>1, <3>1, <3>2
  <2>4. QED
    BY <2>1, <2>2, <2>3
<1>2. CASE Stop
  BY <1>2 DEF Stop, Goes
<1>3. QED
  BY <1>1, <1>2 DEF Serving

LEMMA NextInv == IInv /\ [Next]_vars => IInv'
<1> SUFFICES ASSUME IInv, [Next]_vars PROVE IInv'
  OBVIOUS
<1>1. CASE UNCHANGED vars
  BY <1>1 DEF IInv, Types, StatusByPlace, MessageByPlace, QueuesByPlace, WorkersByPlace,
              Old, Own, vars, startVars, ownVars, queueVars, listVars, pcmVars, deviceVars,
              workVars
<1>2. QED
  BY <1>1, CreateStep, InitVirtioStep, QueryStep, RegisterStep, DestroyStep, ServingStep
  DEF Next

LEMMA Invariance == Spec => []IInv
  BY InitInv, NextInv, PTL DEF Spec

-----------------------------------------------------------------------------
(* While the hardware has DRIVER_OK its rings and its message are memory   *)
(* of this start that is still allocated, or of one that was left behind   *)
(* with all its memory: whichever step of the start failed, and although   *)
(* nothing resets a device that PnP stops (ViosndInitVirtio,               *)
(* virtio_find_queues, ViosndDestroyDevice).                               *)
THEOREM DmaIsSafe == Spec => []DmaSafe
<1>1. IInv => DmaSafe
  BY DEF IInv, Types, StatusByPlace, MessageByPlace, Early, Middle, Up, Down, Old, Own,
         DmaSafe
<1>2. QED
  BY Invariance, <1>1, PTL

(* A step of the handshake: DRIVER_OK after the features and with a ring   *)
(* of this start in every queue, a ring changed only without it, a message *)
(* only with it, and status bits that go only by a reset.                  *)
HandshakeStep ==
  /\ "ok" \in status' \ status =>
       /\ legacy \/ "features" \in status
       /\ \A q \in Rings : ring_of[q] = starts
  /\ ring_of' # ring_of => "ok" \notin status \/ status' = {}
  /\ buffer' # buffer /\ buffer' # 0 => "ok" \in status
  /\ status \subseteq status' \/ status' = {}

LEMMA HandshakeKept == IInv /\ [Next]_vars => HandshakeStep
<1> SUFFICES ASSUME IInv, [Next]_vars PROVE HandshakeStep
  OBVIOUS
<1> USE DEF IInv, StatusByPlace, Early, Middle, Up, Down, Goes, startVars, ownVars,
        queueVars, listVars, pcmVars, deviceVars, workVars, HandshakeStep
<1>1. CASE UNCHANGED <<status, ring_of>> /\ (buffer' = buffer \/ buffer' = 0)
  BY <1>1
<1>2. CASE DeviceReset
  BY <1>2 DEF DeviceReset
<1>3. CASE DeviceReady
  <2>1. pc = "queues" /\ NextQueue \notin Rings /\ status' = status \cup {"ok"}
        /\ UNCHANGED <<ring_of, buffer>>
    BY <1>3 DEF DeviceReady
  <2>2. PICK n \in 0 .. QueueCount : vqs = 1 .. n
    BY <2>1 DEF QueuesByPlace
  <2>3. vqs = Rings
    BY <2>1, <2>2, NextQueueIs, DeviceLifecycleAssumption DEF Rings
  <2>4. QED
    BY <2>1, <2>3 DEF QueuesByPlace
<1>4. CASE SubmitQuery
  BY <1>4 DEF SubmitQuery
<1>5. CASE AddStatus \/ SetFeatures
  BY <1>5 DEF AddStatus, SetFeatures
<1>6. CASE SetupQueue \/ QueueNotifyFails \/ DeleteQueues \/ DestroyQueue
  BY <1>6 DEF SetupQueue, QueueNotifyFails, DeleteQueues, DestroyQueue
<1>7. CASE CreateDevice
  BY <1>1, <1>7 DEF CreateDevice, BeginStart, QueryPciBusInterface, ReadPciHeader,
                    InitializeDmaAdapter, CreateFails
<1>8. CASE InitVirtio
  BY <1>1, <1>2, <1>3, <1>5, <1>6, <1>8
  DEF InitVirtio, ModernInitialize, LegacyInitialize, DeviceInitializeFails, Acknowledge,
      FeaturesRefused, QueryQueueFails, QueueHeapFails, InitVirtioFails
<1>9. CASE QueryPcmStreams
  <2>1. ASSUME NEW code, NEW infos, QueryAnswered(code, infos) PROVE HandshakeStep
    BY <1>1, <2>1 DEF QueryAnswered
  <2>2. CASE QueryFails \/ QueryTimesOut \/ DeviceAnswers
    BY <1>1, <2>2 DEF QueryFails, QueryTimesOut, DeviceAnswers
  <2>3. QED
    BY <1>4, <1>9, <2>1, <2>2 DEF QueryPcmStreams
<1>10. CASE RegisterEndpoints
  BY <1>1, <1>10
  DEF RegisterEndpoints, Started, RegisterTopologySubdevice, RegisterWaveRTSubdevice,
      RegisterPhysicalConnection, RegisterFilter, RegisterFails
<1>11. CASE Destroy
  BY <1>1, <1>2, <1>6, <1>11
  DEF Destroy, DestroyReset, UnmapBars, PopDmaBlock, DestroyDevice
<1>12. CASE Serving \/ Stop
  BY <1>1, <1>12 DEF Serving, Stop, Allocate, Link, Search, Advance, Found, Unlink,
                     NotFound, Enters, Inside
<1>13. CASE UNCHANGED vars
  BY <1>1, <1>13 DEF vars
<1>14. QED
  BY <1>7, <1>8, <1>9, <1>10, <1>11, <1>12, <1>13 DEF Next

(* DRIVER_OK comes after FEATURES_OK and with rings of this start only,    *)
(* the queues change only without it, messages come only with it, and the  *)
(* status goes only by a reset: for any number of queues and of starts,    *)
(* and also when a reset leaves the rings of an earlier start in place.    *)
THEOREM HandshakeHolds == Spec => Handshake
<1>1. IInv /\ [Next]_vars => [HandshakeStep]_vars
  BY HandshakeKept
<1>2. Handshake <=> [][HandshakeStep]_vars
  BY DEF Handshake, HandshakeStep
<1>3. QED
  BY <1>1, <1>2, Invariance, PTL DEF Spec

-----------------------------------------------------------------------------
(* FiltersLive, with the places at which a filter may be registered.       *)
FiltersByPlace ==
  \A f \in registered : f.kind = "wave" =>
    f.start = starts /\ (pc \in {"register", "started"} \/ "stranded" \in marks)

LEMMA FiltersStep == FiltersByPlace /\ [Next]_vars => FiltersByPlace'
<1> SUFFICES ASSUME FiltersByPlace, [Next]_vars PROVE FiltersByPlace'
  OBVIOUS
<1> USE DEF FiltersByPlace, Goes, startVars, ownVars, queueVars, listVars, pcmVars,
        deviceVars, workVars
<1>1. CASE /\ UNCHANGED <<starts, registered>>
           /\ "stranded" \in marks => "stranded" \in marks'
           /\ pc \in {"register", "started"} => pc' \in {"register", "started"}
  BY <1>1
<1>2. CASE CreateDevice
  BY <1>1, <1>2 DEF CreateDevice, BeginStart, QueryPciBusInterface, ReadPciHeader,
                    InitializeDmaAdapter, CreateFails
<1>3. CASE InitVirtio
  BY <1>1, <1>3
  DEF InitVirtio, ModernInitialize, LegacyInitialize, DeviceInitializeFails, Acknowledge,
      AddStatus, SetFeatures, FeaturesRefused, SetupQueue, QueryQueueFails, QueueHeapFails,
      QueueNotifyFails, DeleteQueues, InitVirtioFails, DeviceReady
<1>4. CASE QueryPcmStreams
  <2>1. ASSUME NEW code, NEW infos, QueryAnswered(code, infos) PROVE FiltersByPlace'
    BY <1>1, <2>1 DEF QueryAnswered
  <2>2. CASE QueryFails \/ SubmitQuery \/ QueryTimesOut \/ DeviceAnswers
    BY <1>1, <2>2 DEF QueryFails, SubmitQuery, QueryTimesOut, DeviceAnswers
  <2>3. QED
    BY <1>4, <2>1, <2>2 DEF QueryPcmStreams
<1>5. ASSUME NEW d \in Directions, NEW kind, RegisterFilter(d, kind) PROVE FiltersByPlace'
  BY <1>5 DEF RegisterFilter, Filter
<1>6. ASSUME NEW d \in Directions, RegisterFails(d) PROVE FiltersByPlace'
  BY <1>6 DEF RegisterFails
<1>7. CASE RegisterEndpoints
  BY <1>1, <1>5, <1>6, <1>7
  DEF RegisterEndpoints, Started, RegisterTopologySubdevice, RegisterWaveRTSubdevice,
      RegisterPhysicalConnection
<1>8. CASE Destroy
  BY <1>1, <1>8
  DEF Destroy, DestroyReset, DestroyQueue, UnmapBars, PopDmaBlock, DestroyDevice
<1>9. CASE Serving \/ Stop
  BY <1>1, <1>9 DEF Serving, Stop, Allocate, Link, Search, Advance, Found, Unlink,
                    NotFound, Enters, Inside
<1>10. CASE UNCHANGED vars
  BY <1>1, <1>10 DEF vars
<1>11. QED
  BY <1>2, <1>3, <1>4, <1>7, <1>8, <1>9, <1>10 DEF Next

(* A wave filter that PortCls has refers to the device object that is      *)
(* there, unless the start failed after it had registered one: then the    *)
(* filter stays with an object that is destroyed (the error path of        *)
(* XcbVirtioAudioStartDevice).  It is a part of LifeInv.                   *)
THEOREM FiltersAreLive == Spec => []FiltersLive
<1>1. Init => FiltersByPlace
  BY DEF Init, FiltersByPlace
<1>2. FiltersByPlace => FiltersLive
  BY DEF FiltersByPlace, FiltersLive
<1>3. QED
  BY <1>1, <1>2, FiltersStep, PTL DEF Spec

-----------------------------------------------------------------------------
(* Induction, for which a set stands in for the predicate: the least       *)
(* number outside of it is found by way of the initial segments, as finite *)
(* sets are well-founded.                                                  *)
LEMMA HasLeast ==
  ASSUME NEW S, S \subseteq Nat, S # {}
  PROVE  \E p \in S : \A q \in S : p <= q
<1> DEFINE T == {1 .. p : p \in S}
<1>1. T \subseteq FiniteSubsetsOf(Nat) /\ T # {}
  <2>1. \A p \in S : IsFiniteSet(1 .. p) /\ 1 .. p \subseteq Nat
    BY FS_Interval
  <2>2. QED
    BY <2>1, Zenon DEF FiniteSubsetsOf
<1>2. IsWellFoundedOn(StrictSubsetOrdering(Nat), FiniteSubsetsOf(Nat))
  BY FS_StrictSubsetOrderingWellFounded
<1>3. PICK x \in T : \A y \in T : ~(<<y, x>> \in StrictSubsetOrdering(Nat))
  <2> HIDE DEF T
  <2> QED
    BY <1>1, <1>2, WFMin, Zenon
<1>4. PICK p \in S : x = 1 .. p
  OBVIOUS
<1>5. ASSUME NEW q \in S, q < p PROVE FALSE
  <2>1. 1 .. q \subseteq 1 .. p /\ p \in 1 .. p /\ p \notin 1 .. q
    BY <1>5
  <2>2. 1 .. q \in SUBSET Nat /\ 1 .. p \in SUBSET Nat /\ 1 .. q # 1 .. p
    BY <2>1
  <2>3. <<1 .. q, 1 .. p>> \in StrictSubsetOrdering(Nat)
    BY <2>1, <2>2 DEF StrictSubsetOrdering
  <2>4. QED
    BY <1>3, <1>4, <1>5, <2>3, Zenon
<1>6. QED
  BY <1>5

LEMMA Induction ==
  ASSUME NEW S, 0 \in S, \A n \in S \cap Nat : n + 1 \in S
  PROVE  Nat \subseteq S
<1> SUFFICES ASSUME Nat \ S # {} PROVE FALSE
  OBVIOUS
<1>1. PICK p \in Nat \ S : \A q \in Nat \ S : p <= q
  BY HasLeast
<1>2. p - 1 \in S \cap Nat
  BY <1>1
<1>3. QED
  BY <1>1, <1>2

-----------------------------------------------------------------------------
(* The walk over the list of DMA blocks, which Listed defines by recursion.*)
WalkOf(f, l, n) ==
  f = [k \in 0 .. n |-> IF k = 0 THEN l[List]
                        ELSE IF f[k - 1] = Nil THEN Nil ELSE l[f[k - 1]]]

LEMMA WalkExists ==
  ASSUME NEW l, NEW n \in Nat
  PROVE  \E f : WalkOf(f, l, n)
<1> DEFINE S == {m \in Nat : \E f : WalkOf(f, l, m)}
<1>1. 0 \in S
  <2> DEFINE f == [k \in 0 .. 0 |-> l[List]]
  <2>1. WalkOf(f, l, 0)
    BY DEF WalkOf
  <2>2. QED
    BY <2>1
<1>2. ASSUME NEW m \in S \cap Nat PROVE m + 1 \in S
  <2>1. PICK f : WalkOf(f, l, m)
    OBVIOUS
  <2> DEFINE x == IF f[m] = Nil THEN Nil ELSE l[f[m]]
             g == [k \in 0 .. m + 1 |-> IF k = m + 1 THEN x ELSE f[k]]
  <2>2. ASSUME NEW k \in 0 .. m + 1
        PROVE  g[k] = IF k = 0 THEN l[List]
                      ELSE IF g[k - 1] = Nil THEN Nil ELSE l[g[k - 1]]
    <3>1. CASE k = 0
      BY <2>1, <3>1 DEF WalkOf
    <3>2. CASE k \in 1 .. m
      <4>1. \A j \in 0 .. m : f[j] = IF j = 0 THEN l[List]
                                     ELSE IF f[j - 1] = Nil THEN Nil ELSE l[f[j - 1]]
        BY <2>1, Zenon DEF WalkOf
      <4>2. k \in 0 .. m /\ k # 0 /\ g[k] = f[k] /\ g[k - 1] = f[k - 1]
        BY <3>2
      <4> HIDE DEF g
      <4>3. QED
        BY <4>1, <4>2
    <3>3. CASE k = m + 1
      <4>1. g[k] = x /\ g[k - 1] = f[m] /\ k # 0
        BY <3>3
      <4> HIDE DEF g
      <4>2. QED
        BY <4>1
    <3>4. QED
      BY <3>1, <3>2, <3>3
  <2>3. g = [k \in 0 .. m + 1 |-> g[k]]
    OBVIOUS
  <2> HIDE DEF g
  <2>4. WalkOf(g, l, m + 1)
    BY <2>2, <2>3 DEF WalkOf
  <2>5. QED
    BY <2>4
<1>3. Nat \subseteq S
  <2> HIDE DEF S
  <2>1. QED
    BY <1>1, <1>2, Induction
<1>4. QED
  BY <1>3

Nth == CHOOSE f : WalkOf(f, next, Nil)

LEMMA NilIsLast == Nil \in Nat /\ Nil \notin Blocks /\ List \notin Blocks /\ Blocks = 1 .. Nil - 1
  BY DeviceLifecycleAssumption DEF Nil, List, Blocks, Workers, Rings, Request, Response

LEMMA NthIs ==
  /\ Listed = {Nth[k] : k \in 0 .. Nil} \ {Nil}
  /\ Nth[0] = next[List]
  /\ \A k \in 1 .. Nil : Nth[k] = IF Nth[k - 1] = Nil THEN Nil ELSE next[Nth[k - 1]]
<1>1. WalkOf(Nth, next, Nil)
  BY WalkExists, NilIsLast, Zenon DEF Nth
<1>2. Listed = {Nth[k] : k \in 0 .. Nil} \ {Nil}
  BY Zenon DEF Listed, Nth, WalkOf
<1> HIDE DEF Nth
<1>3. QED
  BY <1>1, <1>2, NilIsLast DEF WalkOf

(* The blocks in S are on the list that begins with l[List], and each has  *)
(* its place r in it.                                                      *)
Chained(l, S, r) ==
  /\ l[List] \in S \cup {Nil}
  /\ \A b \in S : l[b] \in S \cup {Nil}
  /\ l[List] # Nil => r[l[List]] = 0
  /\ \A b \in S : l[b] # Nil => r[l[b]] = r[b] + 1
  /\ \A b \in S : r[b] = 0 => l[List] = b
  /\ \A b \in S : r[b] > 0 => \E a \in S : l[a] = b
  /\ \A a, b \in S : r[a] = r[b] => a = b
  /\ \A b \in S : r[b] < Cardinality(S)

LEMMA BlocksFinite ==
  ASSUME NEW S, S \subseteq Blocks
  PROVE  /\ Cardinality(S) \in Nat /\ Cardinality(S) < Nil
         /\ \A b \in Blocks \ S : Cardinality(S \cup {b}) = Cardinality(S) + 1
         /\ \A b \in S : Cardinality(S \ {b}) = Cardinality(S) - 1
<1>1. Nil \in Nat /\ Nil > 0 /\ Blocks = 1 .. Nil - 1
  BY NilIsLast, DeviceLifecycleAssumption DEF Nil
<1>2. IsFiniteSet(Blocks) /\ Cardinality(Blocks) = Nil - 1
  BY <1>1, FS_Interval
<1>3. IsFiniteSet(S) /\ Cardinality(S) <= Nil - 1
  BY <1>2, FS_Subset
<1>4. Cardinality(S) \in Nat
  BY <1>3, FS_CardinalityType
<1>5. QED
  BY <1>1, <1>3, <1>4, FS_AddElement, FS_RemoveElement

(* The walk finds exactly the blocks that are chained.                     *)
LEMMA ListedIs ==
  ASSUME NEW S, S \subseteq Blocks, NEW r \in [Blocks -> Nat], Chained(next, S, r)
  PROVE  Listed = S
<1> DEFINE In  == {k \in Nat : k \in 0 .. Nil => Nth[k] \in S \cup {Nil}}
           All == {k \in Nat : \A b \in S : r[b] = k => Nth[k] = b}
<1>1. Nat \subseteq In
  <2>1. 0 \in In
    BY NthIs DEF Chained
  <2>2. ASSUME NEW k \in In \cap Nat PROVE k + 1 \in In
    <3>1. k + 1 \in 0 .. Nil => k + 1 \in 1 .. Nil /\ k \in 0 .. Nil
      BY NilIsLast
    <3>2. k + 1 \in 0 .. Nil => Nth[k + 1] = IF Nth[k] = Nil THEN Nil ELSE next[Nth[k]]
      BY <3>1, NthIs
    <3>3. QED
      BY <3>1, <3>2 DEF Chained
  <2> HIDE DEF In
  <2>3. QED
    BY <2>1, <2>2, Induction
<1>2. \A b \in S : r[b] \in Nat /\ r[b] < Nil
  <2>1. Cardinality(S) \in Nat /\ Cardinality(S) < Nil /\ Nil \in Nat
    BY BlocksFinite, NilIsLast
  <2>2. \A b \in S : r[b] \in Nat /\ r[b] < Cardinality(S)
    BY DEF Chained
  <2>3. QED
    BY <2>1, <2>2
<1>3. Nat \subseteq All
  <2>1. 0 \in All
    BY NthIs DEF Chained
  <2>2. ASSUME NEW k \in All \cap Nat PROVE k + 1 \in All
    <3>1. ASSUME NEW b \in S, r[b] = k + 1 PROVE Nth[k + 1] = b
      <4>1. PICK a \in S : next[a] = b
        BY <3>1 DEF Chained
      <4>2. r[b] = r[a] + 1 /\ r[a] \in Nat
        BY <4>1, NilIsLast DEF Chained
      <4>3. Nth[k] = a /\ a # Nil
        BY <3>1, <4>2, NilIsLast
      <4>4. k + 1 \in 1 .. Nil
        BY <1>2, <3>1, NilIsLast
      <4>5. QED
        BY <4>1, <4>3, <4>4, NthIs
    <3>2. QED
      BY <3>1
  <2> HIDE DEF All
  <2>3. QED
    BY <2>1, <2>2, Induction
<1>4. Listed \subseteq S
  BY <1>1, NthIs, NilIsLast
<1>5. S \subseteq Listed
  <2>1. ASSUME NEW b \in S PROVE b \in Listed
    <3>1. Nth[r[b]] = b /\ r[b] \in 0 .. Nil /\ b # Nil
      BY <1>2, <1>3, NilIsLast
    <3>2. QED
      BY <3>1, NthIs
  <2>2. QED
    BY <2>1
<1>6. QED
  BY <1>4, <1>5

(* PushEntryList, and what unlinking a block leaves.                       *)
Pushes(l, b) == [l EXCEPT ![b] = l[List], ![List] = b]

LEMMA Pushed ==
  ASSUME NEW S, S \subseteq Blocks, NEW r \in [Blocks -> Nat], NEW b \in Blocks \ S,
         NEW l \in [Links -> Blocks \cup {Nil}], Chained(l, S, r)
  PROVE  /\ Pushes(l, b) \in [Links -> Blocks \cup {Nil}]
         /\ \E t \in [Blocks -> Nat] : Chained(Pushes(l, b), S \cup {b}, t)
<1> DEFINE t == [x \in Blocks |-> IF x = b THEN 0 ELSE r[x] + 1]
           k == Pushes(l, b)
<1>1. t \in [Blocks -> Nat] /\ t[b] = 0 /\ \A x \in S : t[x] = r[x] + 1 /\ r[x] \in Nat
  OBVIOUS
<1>2. /\ Cardinality(S \cup {b}) = Cardinality(S) + 1 /\ Cardinality(S) \in Nat
      /\ Nil \notin Blocks /\ List \notin Blocks
  BY BlocksFinite, NilIsLast
<1>3. /\ k \in [Links -> Blocks \cup {Nil}]
      /\ k[b] = l[List] /\ k[List] = b /\ \A x \in S : k[x] = l[x]
  BY <1>2 DEF Pushes, Links
<1> HIDE DEF t, k
<1>4. Chained(k, S \cup {b}, t)
  BY <1>1, <1>2, <1>3 DEF Chained
<1>5. QED
  BY <1>1, <1>3, <1>4 DEF k

LEMMA Unlinked ==
  ASSUME NEW S, S \subseteq Blocks, NEW r \in [Blocks -> Nat], NEW b \in S,
         NEW l \in [Links -> Blocks \cup {Nil}], Chained(l, S, r),
         NEW k, \A x \in (S \cup {List}) \ {b} : k[x] = IF l[x] = b THEN l[b] ELSE l[x]
  PROVE  \E t \in [Blocks -> Nat] : Chained(k, S \ {b}, t)
<1> DEFINE t == [x \in Blocks |-> IF r[x] > r[b] THEN r[x] - 1 ELSE r[x]]
<1>1. t \in [Blocks -> Nat] /\ \A x \in S : t[x] = (IF r[x] > r[b] THEN r[x] - 1 ELSE r[x])
                                            /\ r[x] \in Nat
  OBVIOUS
<1>2. /\ Cardinality(S \ {b}) = Cardinality(S) - 1 /\ Cardinality(S) \in Nat
      /\ Nil \notin Blocks /\ List \notin Blocks
  BY BlocksFinite, NilIsLast
<1> HIDE DEF t
<1>3. /\ k[List] \in (S \ {b}) \cup {Nil}
      /\ \A x \in S \ {b} : k[x] \in (S \ {b}) \cup {Nil}
  BY <1>1, <1>2 DEF Chained
<1>4. /\ k[List] # Nil => t[k[List]] = 0
      /\ \A x \in S \ {b} : k[x] # Nil => t[k[x]] = t[x] + 1
  BY <1>1, <1>2 DEF Chained
<1>5. /\ \A x \in S \ {b} : t[x] = 0 => k[List] = x
      /\ \A x \in S \ {b} : t[x] > 0 => \E a \in S \ {b} : k[a] = x
  BY <1>1, <1>2 DEF Chained
<1>6. /\ \A x, y \in S \ {b} : t[x] = t[y] => x = y
      /\ \A x \in S \ {b} : t[x] < Cardinality(S \ {b})
  BY <1>1, <1>2 DEF Chained
<1>7. QED
  BY <1>1, <1>3, <1>4, <1>5, <1>6 DEF Chained

(* A list whose head is empty has no block on it; and a block before       *)
(* another one is not the last.                                            *)
LEMMA HeadOfList ==
  ASSUME NEW S, S \subseteq Blocks, NEW r \in [Blocks -> Nat], NEW l,
         Chained(l, S, r), l[List] = Nil
  PROVE  S = {}
<1> SUFFICES ASSUME S # {} PROVE FALSE
  OBVIOUS
<1> DEFINE R == {r[x] : x \in S}
<1>1. R \subseteq Nat /\ R # {}
  OBVIOUS
<1>2. PICK m \in R : \A n \in R : m <= n
  <2> HIDE DEF R
  <2>1. QED
    BY <1>1, HasLeast
<1>3. PICK b \in S : r[b] = m
  OBVIOUS
<1>4. r[b] \in Nat /\ b # Nil
  BY NilIsLast
<1>5. r[b] > 0
  BY <1>4 DEF Chained
<1>6. PICK a \in S : l[a] = b
  BY <1>5 DEF Chained
<1>7. r[b] = r[a] + 1 /\ r[a] \in Nat /\ r[a] \in R
  BY <1>4, <1>6 DEF Chained
<1>8. r[a] \in R => r[b] <= r[a]
  BY <1>2, <1>3
<1>9. QED
  BY <1>7, <1>8

LEMMA NextOfList ==
  ASSUME NEW S, S \subseteq Blocks, NEW r \in [Blocks -> Nat], NEW l, Chained(l, S, r),
         NEW a \in S, NEW b \in S, r[a] < r[b]
  PROVE  l[a] \in S /\ r[l[a]] <= r[b]
<1> DEFINE R == {r[x] : x \in {y \in S : r[a] < r[y]}}
<1>1. R \subseteq Nat /\ R # {}
  OBVIOUS
<1>2. PICK m \in R : \A n \in R : m <= n
  <2> HIDE DEF R
  <2>1. QED
    BY <1>1, HasLeast
<1>3. PICK c \in S : r[c] = m /\ r[a] < r[c]
  OBVIOUS
<1>4. r[c] \in Nat /\ r[a] \in Nat /\ r[b] \in Nat /\ c # Nil /\ Nil \notin S
  BY NilIsLast
<1>5. PICK d \in S : l[d] = c
  BY <1>3, <1>4 DEF Chained
<1>6. r[c] = r[d] + 1 /\ r[d] \in Nat
  BY <1>4, <1>5 DEF Chained
<1>7. r[d] \in R => r[c] <= r[d]
  BY <1>2, <1>3
<1>8. r[d] = r[a]
  BY <1>3, <1>4, <1>6, <1>7
<1>9. d = a
  BY <1>8 DEF Chained
<1>10. QED
  BY <1>3, <1>4, <1>5, <1>6, <1>9

(* ViosndFreeDmaBuffer leaves a list, whether it finds the block or not.   *)
LEMMA Freed ==
  ASSUME NEW S, S \subseteq Blocks, NEW r \in [Blocks -> Nat], NEW b \in Blocks,
         NEW l \in [Links -> Blocks \cup {Nil}], Chained(l, S, r)
  PROVE  /\ Without(l, b) \in [Links -> Blocks \cup {Nil}]
         /\ \E t \in [Blocks -> Nat] : Chained(Without(l, b), S \ {b}, t)
<1>1. Without(l, b) \in [Links -> Blocks \cup {Nil}]
  BY DEF Without, Links
<1>2. \A x \in (S \cup {List}) \ {b} : Without(l, b)[x] = IF l[x] = b THEN l[b] ELSE l[x]
  BY DEF Without, Links
<1>3. CASE b \in S
  BY <1>1, <1>2, <1>3, Unlinked
<1>4. CASE b \notin S
  <2>1. S \ {b} = S /\ b # Nil /\ b # List
    BY <1>4, NilIsLast
  <2>2. Without(l, b)[List] = l[List] /\ \A x \in S : Without(l, b)[x] = l[x]
    BY <1>2, <1>4, <2>1 DEF Chained
  <2>3. Chained(Without(l, b), S, r)
    BY <2>2 DEF Chained
  <2>4. QED
    BY <1>1, <2>1, <2>3
<1>5. QED
  BY <1>3, <1>4

-----------------------------------------------------------------------------
(* The memory of the start, by its place.                                  *)
Named ==
  /\ starts \in 0 .. MaxStarts /\ (pc # "none" => starts # 0)
  /\ role \in {"both"} \cup Directions
  /\ ring_of \in [Rings -> 0 .. starts] /\ buffer \in 0 .. starts /\ left \subseteq 1 .. starts
  /\ registered \subseteq [direction : Directions, kind : {"topology", "wave", "connection"},
                           start : 1 .. MaxStarts]
  /\ status \subseteq {"acknowledge", "driver", "features", "ok"}

Taken ==
  /\ refs \subseteq {"pdo", "bus", "adapter"} /\ (pc = "none" => refs = {})
  /\ mapped \in BOOLEAN /\ (pc \in {"none", "destroy memory"} => mapped = FALSE)
  /\ heaps \subseteq vqs

Query ==
  /\ message \in {"none", "held", "abandoned"} /\ (message = "held" => pc = "asked")
  /\ attempt \in 0 .. RetryCount
  /\ pc \in (Early \cup Middle \cup {"ready", "asked"}) \ {"none"} => attempt < RetryCount
  /\ pair \in [Directions -> 0 .. MaxStreams]
  /\ pair.render # 0 => pair.capture # pair.render

(* The links, and what is allocated.                                       *)
LinksType ==
  /\ allocated \subseteq Blocks /\ next \in [Links -> Blocks \cup {Nil}]
  /\ previous \in [Workers -> Links \cup {Nil}] /\ current \in [Workers -> Blocks \cup {Nil}]
  /\ marks \subseteq {"met", "stranded"} /\ ("met" \in marks => pc = "started")

BlocksByPlace ==
  /\ pc \in Early \cup {"acknowledged", "driver"} => allocated = {}
  /\ pc = "queues" => allocated = vqs
  /\ pc \in {"ready", "register"} => allocated \cap Workers = {}

(* The blocks that are on the list, and the places of the workers there.   *)
Within(w) == at[w] \in {"link", "walk", "unlink"}

OnList == allocated \ {w \in Workers : at[w] = "link"}

AtBlock(w, r) ==
  /\ at[w] # "lost"
  /\ pc = "started" => (w \in allocated <=> at[w] # "idle")
  /\ Within(w) => \A v \in Workers \ {w} : ~Within(v)
  /\ at[w] = "link" => next[w] = next[List]
  /\ at[w] = "walk" => /\ previous[w] \in OnList \cup {List} /\ next[previous[w]] = current[w]
                       /\ current[w] \in OnList /\ r[current[w]] <= r[w]
  /\ at[w] = "unlink" => /\ previous[w] \in OnList \cup {List} /\ next[previous[w]] = w
                         /\ current[w] = next[w]

ListOf(r) == Chained(next, OnList, r) /\ \A w \in Workers : AtBlock(w, r)

ListInv == "met" \notin marks => \E r \in [Blocks -> Nat] : ListOf(r)

BookInv == Named /\ Taken /\ Query

LEMMA InitBook == Init => BookInv
<1> SUFFICES ASSUME Init PROVE BookInv
  OBVIOUS
<1>1. Named
  BY DeviceLifecycleAssumption DEF Init, Named
<1>2. Taken
  BY DEF Init, Taken
<1>3. Query
  BY DeviceLifecycleAssumption DEF Init, Query, NoPair, Directions
<1>4. QED
  BY <1>1, <1>2, <1>3 DEF BookInv

LEMMA NamedStep == IInv /\ Named /\ [Next]_vars => Named'
<1> SUFFICES ASSUME IInv, Named, [Next]_vars PROVE Named'
  OBVIOUS
<1> USE DeviceLifecycleAssumption
    DEF Named, Goes, startVars, ownVars, queueVars, listVars, pcmVars, deviceVars, workVars
<1>0. starts \in Nat /\ 0 \in 0 .. starts /\ starts \in 0 .. starts
  OBVIOUS
<1>1. CASE /\ UNCHANGED <<starts, role, ring_of, buffer, left, registered, status>>
           /\ pc # "none" \/ pc' = "none"
  BY <1>1
<1>2. CASE /\ UNCHANGED <<starts, role, left, registered>> /\ pc # "none"
           /\ DeviceReset
  <2>1. [q \in Rings |-> 0] \in [Rings -> 0 .. starts]
    OBVIOUS
  <2>2. QED
    BY <1>2, <2>1 DEF DeviceReset
<1>3. CASE CreateDevice
  <2>1. CASE BeginStart
    <3>1. 0 .. starts \subseteq 0 .. starts' /\ 1 .. starts \subseteq 1 .. starts'
          /\ starts' \in 0 .. MaxStarts /\ starts' # 0
      BY <2>1 DEF BeginStart
    <3>2. QED
      BY <2>1, <3>1 DEF BeginStart, Directions
  <2>2. QED
    BY <1>1, <1>3, <2>1 DEF CreateDevice, QueryPciBusInterface, ReadPciHeader,
                            InitializeDmaAdapter, CreateFails
<1>4. CASE InitVirtio
  <2>1. CASE SetupQueue \/ QueueNotifyFails
    <3>1. /\ UNCHANGED <<starts, role, buffer, left, registered, status>>
          /\ ring_of' = [ring_of EXCEPT ![NextQueue] = starts] /\ pc = "queues"
      BY <2>1 DEF SetupQueue, QueueNotifyFails
    <3>2. QED
      BY <1>0, <3>1
  <2>2. CASE AddStatus \/ SetFeatures \/ DeviceReady
    BY <2>2 DEF AddStatus, SetFeatures, DeviceReady
  <2>3. CASE DeleteQueues
    <3>1. /\ UNCHANGED <<starts, role, buffer, left, registered, status>> /\ pc = "delete"
          /\ \/ ring_of' = [ring_of EXCEPT ![FirstQueue] = 0]
             \/ UNCHANGED ring_of
      BY <2>3 DEF DeleteQueues, DeleteQueue
    <3>2. QED
      BY <1>0, <3>1
  <2>4. QED
    BY <1>1, <1>2, <1>4, <2>1, <2>2, <2>3
    DEF InitVirtio, ModernInitialize, LegacyInitialize, DeviceInitializeFails, Acknowledge,
        FeaturesRefused, QueryQueueFails, QueueHeapFails, InitVirtioFails
<1>5. CASE QueryPcmStreams
  <2>1. ASSUME NEW code, NEW infos, QueryAnswered(code, infos) PROVE Named'
    BY <1>1, <2>1 DEF QueryAnswered
  <2>2. CASE SubmitQuery \/ DeviceAnswers
    BY <2>2 DEF SubmitQuery, DeviceAnswers
  <2>3. CASE QueryFails \/ QueryTimesOut
    BY <1>1, <2>3 DEF QueryFails, QueryTimesOut
  <2>4. QED
    BY <1>5, <2>1, <2>2, <2>3 DEF QueryPcmStreams
<1>6. CASE RegisterEndpoints
  <2>1. ASSUME NEW d \in Directions, NEW kind \in {"topology", "wave", "connection"},
               RegisterFilter(d, kind)
        PROVE  Named'
    <3>1. pc = "register" /\ starts \in 1 .. MaxStarts
      BY <2>1 DEF RegisterFilter
    <3>2. Filter(d, kind) \in [direction : Directions, start : 1 .. MaxStarts,
                               kind : {"topology", "wave", "connection"}]
      BY <3>1 DEF Filter
    <3>3. QED
      BY <2>1, <3>1, <3>2 DEF RegisterFilter
  <2>2. QED
    BY <1>1, <1>6, <2>1
    DEF RegisterEndpoints, Started, RegisterTopologySubdevice, RegisterWaveRTSubdevice,
        RegisterPhysicalConnection, RegisterFails
<1>7. CASE Destroy
  <2>1. CASE DestroyQueue
    <3>1. /\ UNCHANGED <<starts, role, buffer, left, registered, status>>
          /\ pc = "destroy queues"
          /\ \/ ring_of' = [ring_of EXCEPT ![FirstQueue] = 0]
             \/ UNCHANGED ring_of
      BY <2>1 DEF DestroyQueue, DeleteQueue
    <3>2. QED
      BY <1>0, <3>1
  <2>2. CASE DestroyReset
    BY <1>2, <2>2 DEF DestroyReset
  <2>3. CASE UnmapBars
    BY <1>1, <2>3 DEF UnmapBars
  <2>4. CASE PopDmaBlock \/ DestroyDevice
    BY <1>1, <2>4 DEF PopDmaBlock, DestroyDevice
  <2>5. QED
    BY <1>7, <2>1, <2>2, <2>3, <2>4 DEF Destroy
<1>8. CASE Serving
  BY <1>1, <1>8 DEF Serving, Allocate, Link, Search, Advance, Found, Unlink, NotFound,
                    Enters, Inside, IInv, WorkersByPlace, Moves
<1>9. CASE Stop
  BY <1>9 DEF Stop
<1>10. CASE UNCHANGED vars
  BY <1>1, <1>10 DEF vars
<1>11. QED
  BY <1>3, <1>4, <1>5, <1>6, <1>7, <1>8, <1>9, <1>10 DEF Next

LEMMA TakenStep == IInv /\ Taken /\ [Next]_vars => Taken'
<1> SUFFICES ASSUME IInv, Taken, [Next]_vars PROVE Taken'
  OBVIOUS
<1> USE DEF Taken, Goes, startVars, ownVars, queueVars, listVars, pcmVars, deviceVars,
            workVars
<1>1. CASE /\ UNCHANGED <<refs, mapped, heaps, vqs>>
           /\ pc' \in {"none", "destroy memory"} => pc' = pc
  BY <1>1
<1>2. CASE CreateDevice
  BY <1>1, <1>2 DEF CreateDevice, BeginStart, QueryPciBusInterface, ReadPciHeader,
                    InitializeDmaAdapter, CreateFails
<1>3. CASE InitVirtio
  <2>1. CASE ModernInitialize \/ LegacyInitialize \/ DeviceInitializeFails
    BY <2>1 DEF ModernInitialize, LegacyInitialize, DeviceInitializeFails, MapAddressRange
  <2>2. CASE SetupQueue \/ DeleteQueues
    BY <2>2 DEF SetupQueue, DeleteQueues, DeleteQueue
  <2>3. QED
    BY <1>1, <1>3, <2>1, <2>2
    DEF InitVirtio, Acknowledge, AddStatus, SetFeatures, FeaturesRefused, QueryQueueFails,
        QueueHeapFails, QueueNotifyFails, InitVirtioFails, DeviceReady
<1>4. CASE QueryPcmStreams
  <2>1. ASSUME NEW code, NEW infos, QueryAnswered(code, infos) PROVE Taken'
    BY <1>1, <2>1 DEF QueryAnswered
  <2>2. CASE QueryFails \/ SubmitQuery \/ QueryTimesOut \/ DeviceAnswers
    BY <1>1, <2>2 DEF QueryFails, SubmitQuery, QueryTimesOut, DeviceAnswers
  <2>3. QED
    BY <1>4, <2>1, <2>2 DEF QueryPcmStreams
<1>5. CASE RegisterEndpoints
  BY <1>1, <1>5
  DEF RegisterEndpoints, Started, RegisterTopologySubdevice, RegisterWaveRTSubdevice,
      RegisterPhysicalConnection, RegisterFilter, RegisterFails
<1>6. CASE Destroy
  <2>1. CASE DestroyQueue
    BY <2>1 DEF DestroyQueue, DeleteQueue
  <2>2. CASE UnmapBars
    BY <2>2 DEF UnmapBars
  <2>3. CASE PopDmaBlock \/ DestroyDevice
    BY <2>3 DEF PopDmaBlock, DestroyDevice
  <2>4. QED
    BY <1>1, <1>6, <2>1, <2>2, <2>3 DEF Destroy, DestroyReset
<1>7. CASE Serving
  BY <1>1, <1>7 DEF Serving, Allocate, Link, Search, Advance, Found, Unlink, NotFound,
                    Enters, Inside
<1>8. CASE Stop
  BY <1>8 DEF Stop
<1>9. CASE UNCHANGED vars
  BY <1>1, <1>9 DEF vars
<1>10. QED
  BY <1>2, <1>3, <1>4, <1>5, <1>6, <1>7, <1>8, <1>9 DEF Next

-----------------------------------------------------------------------------
(* ViosndFindStreamPair finds streams of the answer, and not one twice.    *)
LEMMA FirstIs ==
  ASSUME NEW S, S \subseteq Nat
  PROVE  FirstOf(S) \in S \cup {0} /\ (S # {} => FirstOf(S) \in S)
<1>1. CASE S = {}
  BY <1>1 DEF FirstOf
<1>2. CASE S # {}
  <2>1. \E i \in S : \A j \in S : i <= j
    BY <1>2, HasLeast
  <2>2. (CHOOSE i \in S : \A j \in S : i <= j) \in S
    BY <2>1
  <2>3. QED
    BY <1>2, <2>2 DEF FirstOf
<1>3. QED
  BY <1>1, <1>2

LEMMA FindStreamPairType ==
  ASSUME NEW n \in 0 .. MaxStreams, NEW infos \in [1 .. n -> Info]
  PROVE  /\ FindStreamPair(infos) \in [Directions -> 0 .. MaxStreams]
         /\ FindStreamPair(infos).render # 0 =>
              FindStreamPair(infos).capture # FindStreamPair(infos).render
<1> DEFINE render  == Preferred(infos, "output")
           capture == Preferred(infos, "input")
           other   == IF Len(infos) > 1 THEN FirstOf(DOMAIN infos \ {render}) ELSE 0
<1>1. DOMAIN infos = 1 .. n /\ 1 .. n \subseteq Nat /\ 0 \notin 1 .. n
      /\ 1 .. n \subseteq 0 .. MaxStreams
  BY DeviceLifecycleAssumption
<1>2. ASSUME NEW d PROVE Preferred(infos, d) \in Directed(infos, d) \cup {0}
  <2> DEFINE usual == {i \in Directed(infos, d) : infos[i][2]}
             S == IF usual # {} THEN usual ELSE Directed(infos, d)
  <2>1. S \subseteq Directed(infos, d) /\ S \subseteq Nat
    BY <1>1 DEF Directed
  <2>2. FirstOf(S) \in S \cup {0}
    BY <2>1, FirstIs
  <2>3. Preferred(infos, d) = FirstOf(S)
    BY DEF Preferred
  <2> HIDE DEF S
  <2>4. QED
    BY <2>1, <2>2, <2>3
<1>3. other \in (1 .. n \ {render}) \cup {0}
  BY <1>1, FirstIs
<1>4. render \in Directed(infos, "output") \cup {0} /\ capture \in Directed(infos, "input") \cup {0}
  BY <1>2
<1>5. FindStreamPair(infos) = [render |-> render, capture |-> IF capture # 0 THEN capture ELSE other]
  BY DEF FindStreamPair
<1> HIDE DEF render, capture, other
<1>6. render \in 0 .. MaxStreams /\ capture \in 0 .. MaxStreams /\ other \in 0 .. MaxStreams
  BY <1>1, <1>3, <1>4, DeviceLifecycleAssumption DEF Directed
<1>7. FindStreamPair(infos) \in [Directions -> 0 .. MaxStreams]
  BY <1>5, <1>6 DEF Directions
<1>8. render # 0 /\ capture # 0 => render # capture
  BY <1>4 DEF Directed
<1>9. QED
  BY <1>3, <1>5, <1>7, <1>8

LEMMA AskedStep == IInv /\ Query /\ [Next]_vars => Query'
<1> SUFFICES ASSUME IInv, Query, [Next]_vars PROVE Query'
  OBVIOUS
<1> USE DeviceLifecycleAssumption
    DEF Query, Early, Middle, Goes, startVars, ownVars, queueVars, listVars, pcmVars,
        deviceVars, workVars
<1>1. CASE /\ UNCHANGED pcmVars /\ pc # "asked"
           /\ pc' \in (Early \cup Middle \cup {"ready", "asked"}) \ {"none"} =>
                pc \in (Early \cup Middle \cup {"ready"}) \ {"none"}
  BY <1>1
<1>2. CASE CreateDevice
  <2>1. CASE BeginStart
    BY <2>1 DEF BeginStart, NoPair, Directions
  <2>2. QED
    BY <1>1, <1>2, <2>1 DEF CreateDevice, QueryPciBusInterface, ReadPciHeader,
                            InitializeDmaAdapter, CreateFails
<1>3. CASE InitVirtio
  BY <1>1, <1>3
  DEF InitVirtio, ModernInitialize, LegacyInitialize, DeviceInitializeFails, Acknowledge,
      AddStatus, SetFeatures, FeaturesRefused, SetupQueue, QueryQueueFails, QueueHeapFails,
      QueueNotifyFails, DeleteQueues, InitVirtioFails, DeviceReady
<1>4. ASSUME NEW code, NEW n \in 0 .. MaxStreams, NEW infos \in [1 .. n -> Info],
             QueryAnswered(code, infos)
      PROVE  Query'
  <2>1. /\ FindStreamPair(infos) \in [Directions -> 0 .. MaxStreams]
        /\ FindStreamPair(infos).render # 0 =>
             FindStreamPair(infos).capture # FindStreamPair(infos).render
    BY <1>4, FindStreamPairType
  <2>2. /\ pc = "asked" /\ message' = "none" /\ attempt' = attempt + 1
        /\ pair' = pair \/ pair' = FindStreamPair(infos)
        /\ pc' \in {"register", "destroy"} \/ (pc' = "ready" /\ attempt + 1 < RetryCount)
    BY <1>4 DEF QueryAnswered, FreeControlMessage
  <2>3. attempt' \in 0 .. RetryCount /\ (pc' = "ready" => attempt' < RetryCount)
    BY <2>2
  <2>4. QED
    BY <2>1, <2>2, <2>3
<1>5. CASE QueryPcmStreams
  <2>1. ASSUME NEW infos \in Infos, QueryAnswered("ok", infos) PROVE Query'
    <3>1. PICK n \in 1 .. MaxStreams : infos \in [1 .. n -> Info]
      BY <2>1 DEF Infos
    <3>2. QED
      BY <1>4, <2>1, <3>1
  <2>2. ASSUME NEW code, QueryAnswered(code, <<Empty>>) PROVE Query'
    <3>1. Empty \in Info
      BY Zenon DEF Empty, Info
    <3>2. <<Empty>> \in [1 .. 1 -> Info] /\ 1 \in 0 .. MaxStreams
      BY <3>1
    <3>3. QED
      BY <1>4, <2>2, <3>2
  <2>3. CASE SubmitQuery \/ QueryTimesOut
    BY <2>3 DEF SubmitQuery, QueryTimesOut
  <2>4. CASE QueryFails
    BY <1>1, <2>4 DEF QueryFails
  <2>5. CASE DeviceAnswers
    BY <2>5 DEF DeviceAnswers
  <2>6. QED
    BY <1>5, <2>1, <2>2, <2>3, <2>4, <2>5 DEF QueryPcmStreams
<1>6. CASE RegisterEndpoints
  BY <1>1, <1>6
  DEF RegisterEndpoints, Started, RegisterTopologySubdevice, RegisterWaveRTSubdevice,
      RegisterPhysicalConnection, RegisterFilter, RegisterFails
<1>7. CASE Destroy
  BY <1>1, <1>7
  DEF Destroy, DestroyReset, DestroyQueue, UnmapBars, PopDmaBlock, DestroyDevice
<1>8. CASE Serving
  <2>1. pc = "started"
    BY <1>8 DEF Serving, Allocate, Link, Search, Advance, Found, Unlink, NotFound, Enters,
                IInv, WorkersByPlace, Moves
  <2>2. pc' = pc /\ UNCHANGED pcmVars
    BY <1>8 DEF Serving, Allocate, Link, Search, Advance, Found, Unlink, NotFound, Enters,
                Inside
  <2>3. QED
    BY <1>1, <2>1, <2>2
<1>9. CASE Stop
  BY <1>1, <1>9 DEF Stop
<1>10. CASE UNCHANGED vars
  BY <1>10 DEF vars
<1>11. QED
  BY <1>2, <1>3, <1>5, <1>6, <1>7, <1>8, <1>9, <1>10 DEF Next

-----------------------------------------------------------------------------
(* The list while nobody but the start is at it.                           *)
BlocksInv == LinksType /\ BlocksByPlace /\ ListInv

LEMMA QuietNow ==
  ASSUME IInv, BlocksInv, pc # "started"
  PROVE  /\ "met" \notin marks /\ \A w \in Workers : at[w] = "idle"
         /\ \E r \in [Blocks -> Nat] : Chained(next, allocated, r)
<1>1. "met" \notin marks /\ \A w \in Workers : at[w] = "idle"
  BY DEF IInv, WorkersByPlace, BlocksInv, LinksType
<1>2. OnList = allocated
  BY <1>1 DEF OnList
<1>3. QED
  BY <1>1, <1>2 DEF BlocksInv, ListInv, ListOf

LEMMA QuietNext ==
  ASSUME LinksType', BlocksByPlace', NEW r \in [Blocks -> Nat], Chained(next', allocated', r),
         \A w \in Workers : at'[w] = "idle", pc' = "started" => allocated' \cap Workers = {}
  PROVE  BlocksInv'
<1>1. OnList' = allocated'
  BY DEF OnList
<1>2. \A w \in Workers : AtBlock(w, r)'
  BY DEF AtBlock, Within
<1>3. ListOf(r)'
  BY <1>1, <1>2 DEF ListOf
<1>4. QED
  BY <1>3 DEF BlocksInv, ListInv

(* A step that leaves the list alone.                                      *)
LEMMA QuietStep ==
  ASSUME IInv, BlocksInv, IInv', pc # "started", UNCHANGED <<listVars, workVars>>,
         marks' \subseteq marks \cup {"stranded"}, BlocksByPlace',
         pc' = "started" => pc = "register"
  PROVE  BlocksInv'
<1>1. "met" \notin marks /\ \A w \in Workers : at[w] = "idle"
  BY QuietNow
<1>2. PICK r \in [Blocks -> Nat] : Chained(next, allocated, r)
  BY QuietNow
<1>3. UNCHANGED <<allocated, next, at, previous, current>>
  BY DEF listVars, workVars
<1>4. LinksType'
  BY <1>1, <1>3 DEF BlocksInv, LinksType
<1>5. pc' = "started" => allocated' \cap Workers = {}
  BY <1>3 DEF BlocksInv, BlocksByPlace
<1>6. QED
  BY <1>1, <1>2, <1>3, <1>4, <1>5, QuietNext

(* ViosndAllocateDmaBuffer of a block that is not allocated.               *)
LEMMA AllocateStep ==
  ASSUME IInv, BlocksInv, pc # "started", pc' # "started", BlocksByPlace',
         NEW b \in Blocks \ allocated, AllocateDmaBuffer(b), UNCHANGED <<workVars, marks>>
  PROVE  BlocksInv'
<1>1. "met" \notin marks /\ \A w \in Workers : at[w] = "idle"
  BY QuietNow
<1>2. PICK r \in [Blocks -> Nat] : Chained(next, allocated, r)
  BY QuietNow
<1>3. UNCHANGED <<at, previous, current>>
  BY DEF workVars
<1>4. /\ allocated' = allocated \cup {b} /\ next' = Pushes(next, b)
      /\ allocated \subseteq Blocks /\ next \in [Links -> Blocks \cup {Nil}]
  BY DEF AllocateDmaBuffer, Pushes, BlocksInv, LinksType
<1>5. /\ next' \in [Links -> Blocks \cup {Nil}]
      /\ \E t \in [Blocks -> Nat] : Chained(next', allocated', t)
  BY <1>2, <1>4, Pushed
<1>6. LinksType'
  BY <1>1, <1>3, <1>4, <1>5 DEF BlocksInv, LinksType
<1>7. QED
  BY <1>1, <1>3, <1>5, <1>6, QuietNext

(* ViosndFreeDmaBuffer, of a block that may be allocated or not.           *)
LEMMA FreeStep ==
  ASSUME IInv, BlocksInv, pc # "started", pc' # "started", BlocksByPlace',
         NEW b \in Blocks, FreeDmaBuffer(b), UNCHANGED <<workVars, marks>>
  PROVE  BlocksInv'
<1>1. "met" \notin marks /\ \A w \in Workers : at[w] = "idle"
  BY QuietNow
<1>2. PICK r \in [Blocks -> Nat] : Chained(next, allocated, r)
  BY QuietNow
<1>3. /\ UNCHANGED <<at, previous, current>>
      /\ allocated' = allocated \ {b} /\ next' = Without(next, b)
      /\ allocated \subseteq Blocks /\ next \in [Links -> Blocks \cup {Nil}]
  BY DEF workVars, FreeDmaBuffer, BlocksInv, LinksType
<1>4. /\ next' \in [Links -> Blocks \cup {Nil}]
      /\ \E t \in [Blocks -> Nat] : Chained(next', allocated', t)
  BY <1>2, <1>3, Freed
<1>5. LinksType'
  BY <1>1, <1>3, <1>4 DEF BlocksInv, LinksType
<1>6. QED
  BY <1>1, <1>3, <1>4, <1>5, QuietNext

LEMMA BlocksStartStep ==
  ASSUME IInv, BlocksInv, IInv', CreateDevice \/ RegisterEndpoints PROVE BlocksInv'
<1> USE DEF Goes, startVars, ownVars, queueVars, pcmVars, deviceVars, BlocksByPlace, Early
<1>1. CASE /\ pc # "started" /\ UNCHANGED <<listVars, workVars>>
           /\ marks' \subseteq marks \cup {"stranded"}
           /\ pc' = "started" => pc = "register"
           /\ pc' \in Early => pc \in Early
           /\ pc' \in {"ready", "register"} => pc = "register"
           /\ pc' \notin {"queues", "acknowledged", "driver"}
  <2>1. BlocksByPlace'
    BY <1>1 DEF BlocksInv, listVars
  <2>2. QED
    BY <1>1, <2>1, QuietStep
<1>2. CASE CreateDevice
  BY <1>1, <1>2 DEF CreateDevice, BeginStart, QueryPciBusInterface, ReadPciHeader,
                    InitializeDmaAdapter, CreateFails
<1>3. CASE RegisterEndpoints
  BY <1>1, <1>3
  DEF RegisterEndpoints, Started, RegisterTopologySubdevice, RegisterWaveRTSubdevice,
      RegisterPhysicalConnection, RegisterFilter, RegisterFails
<1>4. QED
  BY <1>2, <1>3

(* virtio_delete_queues begins with the first queue there is.              *)
LEMMA FirstQueueIs == vqs \subseteq Rings /\ vqs # {} => FirstQueue \in vqs
<1> SUFFICES ASSUME vqs \subseteq Rings, vqs # {} PROVE FirstQueue \in vqs
  OBVIOUS
<1>1. vqs \subseteq Nat
  BY DeviceLifecycleAssumption DEF Rings
<1>2. \E q \in vqs : \A p \in vqs : q <= p
  BY <1>1, HasLeast
<1>3. QED
  BY <1>2 DEF FirstQueue

LEMMA BlocksVirtioStep ==
  ASSUME IInv, BlocksInv, IInv', InitVirtio PROVE BlocksInv'
<1> USE DEF Goes, startVars, ownVars, queueVars, pcmVars, deviceVars, BlocksByPlace, Early
<1>1. CASE /\ pc # "started" /\ UNCHANGED <<listVars, workVars, vqs, marks>>
           /\ pc' # "started"
           /\ pc' \in Early \cup {"acknowledged", "driver"} =>
                pc \in Early \cup {"acknowledged"}
           /\ pc' = "queues" => pc = "driver"
           /\ pc' \in {"ready", "register"} => pc = "queues"
  <2>1. BlocksByPlace'
    BY <1>1, WorkersAreNoRings DEF BlocksInv, listVars, IInv, Types, QueuesByPlace
  <2>2. QED
    BY <1>1, <2>1, QuietStep
<1>2. CASE SetupQueue \/ QueueHeapFails
  <2>1. pc = "queues" /\ pc' \in {"queues", "delete"} /\ NextQueue \in Rings
        /\ UNCHANGED <<workVars, marks>> /\ AllocateDmaBuffer(NextQueue)
        /\ (pc' = "queues" => vqs' = vqs \cup {NextQueue})
    BY <1>2 DEF SetupQueue, QueueHeapFails
  <2>2. PICK n \in 0 .. QueueCount : vqs = 1 .. n
    BY <2>1 DEF IInv, QueuesByPlace
  <2>3. NextQueue \in Blocks \ allocated
    BY <2>1, <2>2, NextQueueIs DEF BlocksInv, Blocks
  <2>4. BlocksByPlace'
    BY <2>1 DEF BlocksInv, AllocateDmaBuffer
  <2>5. QED
    BY <2>1, <2>3, <2>4, AllocateStep
<1>3. CASE DeleteQueues
  <2>1. pc = "delete" /\ pc' = "delete" /\ FirstQueue \in Blocks /\ FreeDmaBuffer(FirstQueue)
        /\ UNCHANGED <<workVars, marks>>
    BY <1>3, FirstQueueIs DEF DeleteQueues, DeleteQueue, Blocks, IInv, Types
  <2>2. QED
    BY <2>1, FreeStep
<1>4. QED
  BY <1>1, <1>2, <1>3
  DEF InitVirtio, ModernInitialize, LegacyInitialize, DeviceInitializeFails, Acknowledge,
      AddStatus, SetFeatures, FeaturesRefused, QueryQueueFails, QueueNotifyFails,
      InitVirtioFails, DeviceReady

(* The request and the response of a control message are allocated one     *)
(* after the other, and freed the other way round.                         *)
LEMMA BlocksQueryStep ==
  ASSUME IInv, BlocksInv, IInv', QueryPcmStreams PROVE BlocksInv'
<1> USE DEF Goes, startVars, ownVars, queueVars, pcmVars, deviceVars, BlocksByPlace, Early
<1>1. Request \in Blocks /\ Response \in Blocks /\ Request # Response
      /\ Workers = {Request, Response} /\ List \notin Blocks /\ List \in Links
      /\ Request \in Links /\ Response \in Links
  BY NilIsLast, DeviceLifecycleAssumption DEF Blocks, Workers, Request, Response, Links
<1>2. allocated \subseteq Blocks /\ next \in [Links -> Blocks \cup {Nil}]
  BY DEF BlocksInv, LinksType
<1>3. CASE SubmitQuery
  <2>1. pc = "ready" /\ pc' = "asked" /\ UNCHANGED <<at, previous, current, marks>>
    BY <1>3 DEF SubmitQuery, workVars
  <2>2. "met" \notin marks /\ \A w \in Workers : at[w] = "idle"
    BY <2>1, QuietNow
  <2>3. PICK r \in [Blocks -> Nat] : Chained(next, allocated, r)
    BY <2>1, QuietNow
  <2>4. Request \in Blocks \ allocated /\ Response \in Blocks \ (allocated \cup {Request})
    BY <1>1, <2>1 DEF BlocksInv
  <2>5. PICK p \in [Blocks -> Nat] :
          /\ Pushes(next, Request) \in [Links -> Blocks \cup {Nil}]
          /\ Chained(Pushes(next, Request), allocated \cup {Request}, p)
    BY <1>2, <2>3, <2>4, Pushed
  <2>6. allocated \cup {Request} \subseteq Blocks
    BY <1>1, <1>2
  <2>7. PICK t \in [Blocks -> Nat] :
          /\ Pushes(Pushes(next, Request), Response) \in [Links -> Blocks \cup {Nil}]
          /\ Chained(Pushes(Pushes(next, Request), Response),
                     (allocated \cup {Request}) \cup {Response}, t)
    BY <2>4, <2>5, <2>6, Pushed
  <2>8. /\ allocated' = (allocated \cup {Request}) \cup {Response}
        /\ next' = Pushes(Pushes(next, Request), Response)
    BY <1>1, <1>2, <1>3 DEF SubmitQuery, Pushes
  <2>9. LinksType'
    BY <1>1, <2>1, <2>2, <2>6, <2>7, <2>8 DEF BlocksInv, LinksType
  <2>10. BlocksByPlace'
    BY <2>1
  <2>11. QED
    BY <2>1, <2>2, <2>7, <2>8, <2>9, <2>10, QuietNext
<1>4. ASSUME NEW code, NEW infos, QueryAnswered(code, infos) PROVE BlocksInv'
  <2>1. /\ pc = "asked" /\ pc' \in {"ready", "register", "destroy"}
        /\ UNCHANGED <<at, previous, current, marks>>
        /\ allocated' = allocated \ Workers
        /\ next' = Without(Without(next, Request), Response)
    BY <1>4 DEF QueryAnswered, FreeControlMessage, workVars
  <2>2. "met" \notin marks /\ \A w \in Workers : at[w] = "idle"
    BY <2>1, QuietNow
  <2>3. PICK r \in [Blocks -> Nat] : Chained(next, allocated, r)
    BY <2>1, QuietNow
  <2>4. PICK p \in [Blocks -> Nat] :
          /\ Without(next, Request) \in [Links -> Blocks \cup {Nil}]
          /\ Chained(Without(next, Request), allocated \ {Request}, p)
    BY <1>1, <1>2, <2>3, Freed
  <2>5. allocated \ {Request} \subseteq Blocks
    BY <1>2
  <2>6. PICK t \in [Blocks -> Nat] :
          /\ Without(Without(next, Request), Response) \in [Links -> Blocks \cup {Nil}]
          /\ Chained(Without(Without(next, Request), Response),
                     (allocated \ {Request}) \ {Response}, t)
    BY <1>1, <2>4, <2>5, Freed
  <2>7. allocated' = (allocated \ {Request}) \ {Response}
    BY <1>1, <2>1
  <2>8. LinksType'
    BY <1>1, <2>1, <2>2, <2>5, <2>6, <2>7 DEF BlocksInv, LinksType
  <2>9. BlocksByPlace'
    BY <2>1
  <2>10. QED
    BY <2>1, <2>2, <2>6, <2>7, <2>8, <2>9, QuietNext
<1>5. CASE QueryFails \/ QueryTimesOut
  <2>1. pc \in {"ready", "asked"} /\ pc' = "destroy" /\ UNCHANGED <<listVars, workVars, marks>>
    BY <1>5 DEF QueryFails, QueryTimesOut
  <2>2. BlocksByPlace'
    BY <2>1
  <2>3. QED
    BY <2>1, <2>2, QuietStep
<1>6. CASE DeviceAnswers
  BY <1>6 DEF DeviceAnswers, BlocksInv, LinksType, ListInv, ListOf, OnList, AtBlock, Within,
              listVars, workVars
<1>7. QED
  BY <1>3, <1>4, <1>5, <1>6 DEF QueryPcmStreams

(* When the last block is popped nothing is allocated.                     *)
LEMMA BlocksDestroyStep ==
  ASSUME IInv, BlocksInv, IInv', Destroy PROVE BlocksInv'
<1> USE DEF Goes, startVars, ownVars, queueVars, pcmVars, deviceVars, BlocksByPlace, Early
<1>1. CASE DestroyReset \/ UnmapBars
  <2>1. /\ pc \in {"destroy", "destroy queues"} /\ pc' \in {"destroy queues", "destroy memory"}
        /\ UNCHANGED <<listVars, workVars, marks>>
    BY <1>1 DEF DestroyReset, UnmapBars
  <2>2. BlocksByPlace'
    BY <2>1
  <2>3. QED
    BY <2>1, <2>2, QuietStep
<1>2. CASE DestroyQueue
  <2>1. pc = "destroy queues" /\ pc' = pc /\ FirstQueue \in Blocks /\ FreeDmaBuffer(FirstQueue)
        /\ UNCHANGED <<workVars, marks>>
    BY <1>2, FirstQueueIs DEF DestroyQueue, DeleteQueue, Blocks, IInv, Types
  <2>2. BlocksByPlace'
    BY <2>1
  <2>3. QED
    BY <2>1, <2>2, FreeStep
<1>3. CASE PopDmaBlock
  <2>1. pc = "destroy memory" /\ pc' = pc /\ next[List] \in Blocks /\ FreeDmaBuffer(next[List])
        /\ UNCHANGED <<workVars, marks>>
    BY <1>3 DEF PopDmaBlock, BlocksInv, LinksType, Links
  <2>2. BlocksByPlace'
    BY <2>1
  <2>3. QED
    BY <2>1, <2>2, FreeStep
<1>4. CASE DestroyDevice
  <2>1. pc = "destroy memory" /\ pc' = "none" /\ next[List] = Nil
        /\ UNCHANGED <<listVars, workVars, marks>>
    BY <1>4 DEF DestroyDevice
  <2>2. PICK r \in [Blocks -> Nat] : Chained(next, allocated, r)
    BY <2>1, QuietNow
  <2>3. allocated = {}
    BY <2>1, <2>2, HeadOfList DEF BlocksInv, LinksType
  <2>4. BlocksByPlace'
    BY <2>1, <2>3 DEF listVars
  <2>5. QED
    BY <2>1, <2>4, QuietStep
<1>5. QED
  BY <1>1, <1>2, <1>3, <1>4 DEF Destroy

-----------------------------------------------------------------------------
(* The list while the workers are at it.                                   *)
LEMMA ServingIsStarted ==
  ASSUME IInv, LinksType, NEW w \in Workers,
         Allocate(w) \/ Link(w) \/ Search(w) \/ Advance(w) \/ Found(w) \/ Unlink(w) \/ NotFound(w)
  PROVE  /\ pc = "started" /\ pc' = pc /\ LinksType' /\ marks \subseteq marks'
         /\ at \in [Workers -> {"idle", "link", "has", "walk", "unlink", "lost"}]
<1> USE DEF Moves, Enters, Inside, startVars, ownVars, queueVars, listVars, pcmVars, deviceVars
<1>1. pc = "started"
  BY DEF Allocate, Link, Search, Advance, Found, Unlink, NotFound, IInv, WorkersByPlace
<1>2. pc' = pc /\ marks \subseteq marks' /\ marks' \subseteq marks \cup {"met"}
  BY DEF Allocate, Link, Search, Advance, Found, Unlink, NotFound
<1>3. w \in Blocks /\ List \in Links /\ Blocks \subseteq Links
  BY DEF Blocks, Links
<1>4. allocated' \subseteq Blocks
  BY <1>3 DEF Allocate, Link, Search, Advance, Found, Unlink, NotFound, LinksType
<1>5. next' \in [Links -> Blocks \cup {Nil}]
  BY <1>3 DEF Allocate, Link, Search, Advance, Found, Unlink, NotFound, LinksType
<1>6. previous' \in [Workers -> Links \cup {Nil}] /\ current' \in [Workers -> Blocks \cup {Nil}]
  BY <1>3 DEF Allocate, Link, Search, Advance, Found, Unlink, NotFound, LinksType
<1>7. QED
  BY <1>1, <1>2, <1>4, <1>5, <1>6 DEF LinksType, IInv, WorkersByPlace

(* What a worker's step has to leave for the list to be one.               *)
LEMMA ServingKeeps ==
  ASSUME IInv, BlocksInv, NEW w \in Workers,
         Allocate(w) \/ Link(w) \/ Search(w) \/ Advance(w) \/ Found(w) \/ Unlink(w) \/ NotFound(w),
         ASSUME "met" \notin marks', "met" \notin marks, NEW r \in [Blocks -> Nat], ListOf(r)
         PROVE  \E t \in [Blocks -> Nat] : ListOf(t)'
  PROVE  BlocksInv'
<1>1. pc = "started" /\ pc' = pc /\ LinksType' /\ marks \subseteq marks'
  BY ServingIsStarted DEF BlocksInv
<1>2. BlocksByPlace'
  BY <1>1 DEF BlocksByPlace, Early
<1>3. ASSUME "met" \notin marks' PROVE \E t \in [Blocks -> Nat] : ListOf(t)'
  <2>1. "met" \notin marks
    BY <1>1, <1>3
  <2>2. PICK r \in [Blocks -> Nat] : ListOf(r)
    BY <2>1 DEF BlocksInv, ListInv
  <2>3. QED
    BY <1>3, <2>1, <2>2
<1>4. QED
  BY <1>1, <1>2, <1>3 DEF BlocksInv, ListInv

LEMMA ListStep ==
  ASSUME IInv, LinksType, NEW w \in Workers,
         Allocate(w) \/ Link(w) \/ Search(w) \/ Advance(w) \/ Found(w) \/ Unlink(w) \/ NotFound(w),
         "met" \notin marks', "met" \notin marks, NEW r \in [Blocks -> Nat], ListOf(r)
  PROVE  \E t \in [Blocks -> Nat] : ListOf(t)'
<1>1. /\ pc = "started" /\ pc' = pc
      /\ at \in [Workers -> {"idle", "link", "has", "walk", "unlink", "lost"}]
  BY ServingIsStarted
<1>2. /\ w \in Blocks /\ w \in Links /\ List \in Links /\ Workers \subseteq Blocks
      /\ Blocks \subseteq Links /\ Nil \notin Blocks /\ List \notin Blocks
      /\ OnList \subseteq Blocks
  BY NilIsLast DEF Blocks, Links, OnList, LinksType
<1>3. /\ next \in [Links -> Blocks \cup {Nil}] /\ Chained(next, OnList, r)
      /\ AtBlock(w, r) /\ \A v \in Workers : AtBlock(v, r)
      /\ previous \in [Workers -> Links \cup {Nil}] /\ current \in [Workers -> Blocks \cup {Nil}]
  BY DEF LinksType, ListOf
<1> USE DEF Moves, Inside, Enters, startVars, ownVars, queueVars, listVars, pcmVars, deviceVars
<1>4. CASE Allocate(w)
  <2>1. /\ at[w] = "idle" /\ at' = [at EXCEPT ![w] = "link"] /\ allocated' = allocated \cup {w}
        /\ next' = [next EXCEPT ![w] = next[List]] /\ UNCHANGED <<previous, current>>
        /\ \A v \in Workers \ {w} : ~Within(v)
    BY <1>4 DEF Allocate, Within
  <2>2. w \notin allocated /\ w \notin OnList
    BY <1>1, <1>3, <2>1 DEF AtBlock, OnList
  <2>3. OnList' = OnList
    BY <1>1, <2>1, <2>2 DEF OnList
  <2>4. next'[List] = next[List] /\ next'[w] = next[List] /\ \A b \in OnList : next'[b] = next[b]
    BY <1>2, <1>3, <2>1, <2>2
  <2>5. Chained(next', OnList', r)
    BY <1>3, <2>3, <2>4 DEF Chained
  <2>6. AtBlock(w, r)'
    BY <1>1, <2>1, <2>4 DEF AtBlock, Within
  <2>7. ASSUME NEW v \in Workers \ {w} PROVE AtBlock(v, r)'
    <3>1. at'[v] = at[v] /\ at[v] \notin {"link", "walk", "unlink"}
          /\ (v \in allocated' <=> v \in allocated)
      BY <1>1, <2>1, <2>7 DEF Within
    <3>2. QED
      BY <1>1, <1>3, <3>1 DEF AtBlock, Within
  <2>8. QED
    BY <2>5, <2>6, <2>7 DEF ListOf
<1>5. CASE Link(w)
  <2>1. /\ at[w] = "link" /\ at' = [at EXCEPT ![w] = "has"] /\ next' = [next EXCEPT ![List] = w]
        /\ UNCHANGED <<allocated, previous, current>>
    BY <1>5 DEF Link
  <2>2. w \in allocated /\ next[w] = next[List] /\ \A v \in Workers \ {w} : ~Within(v)
    BY <1>1, <1>3, <2>1 DEF AtBlock, Within
  <2>3. OnList' = OnList \cup {w} /\ w \in Blocks \ OnList
    BY <1>1, <1>2, <2>1, <2>2 DEF OnList
  <2>4. next' = Pushes(next, w)
    BY <1>2, <1>3, <2>1, <2>2 DEF Pushes
  <2>5. PICK t \in [Blocks -> Nat] : Chained(next', OnList', t)
    BY <1>2, <1>3, <2>3, <2>4, Pushed
  <2>6. AtBlock(w, t)'
    BY <1>1, <2>1, <2>2 DEF AtBlock, Within
  <2>7. ASSUME NEW v \in Workers \ {w} PROVE AtBlock(v, t)'
    <3>1. at'[v] = at[v] /\ at[v] \notin {"link", "walk", "unlink"}
      BY <1>1, <2>1, <2>2, <2>7 DEF Within
    <3>2. QED
      BY <1>1, <1>3, <2>1, <3>1 DEF AtBlock, Within
  <2>8. QED
    BY <2>5, <2>6, <2>7 DEF ListOf
<1>6. ASSUME UNCHANGED <<allocated, next>>, at' = [at EXCEPT ![w] = at'[w]], OnList' = OnList,
             \A v \in Workers \ {w} : ~Within(v), AtBlock(w, r)'
      PROVE  ListOf(r)'
  <2>1. ASSUME NEW v \in Workers \ {w} PROVE AtBlock(v, r)'
    <3>1. at'[v] = at[v] /\ at[v] \notin {"link", "walk", "unlink"}
      BY <1>1, <1>6, <2>1 DEF Within
    <3>2. QED
      BY <1>1, <1>3, <1>6, <3>1 DEF AtBlock, Within
  <2>2. QED
    BY <1>3, <1>6, <2>1 DEF ListOf
<1>7. CASE Search(w)
  <2>1. /\ at[w] = "has" /\ at' = [at EXCEPT ![w] = "walk"] /\ UNCHANGED <<allocated, next>>
        /\ previous' = [previous EXCEPT ![w] = List]
        /\ current' = [current EXCEPT ![w] = next[List]]
        /\ \A v \in Workers \ {w} : ~Within(v)
    BY <1>7 DEF Search, Within
  <2>2. w \in OnList /\ OnList' = OnList
    BY <1>1, <1>3, <2>1 DEF AtBlock, OnList
  <2>3. next[List] \in OnList /\ r[next[List]] <= r[w]
    <3>1. next[List] # Nil
      BY <1>2, <1>3, <2>2, HeadOfList
    <3>2. next[List] \in OnList /\ r[next[List]] = 0 /\ r[w] \in Nat
      BY <1>2, <1>3, <3>1 DEF Chained
    <3>3. QED
      BY <3>2
  <2>4. AtBlock(w, r)'
    BY <1>1, <1>3, <2>1, <2>2, <2>3 DEF AtBlock, Within, OnList
  <2>5. QED
    BY <1>1, <1>6, <2>1, <2>2, <2>4
<1>8. CASE Advance(w)
  <2>1. /\ at[w] = "walk" /\ at' = at /\ UNCHANGED <<allocated, next>>
        /\ current[w] \notin {w, Nil}
        /\ previous' = [previous EXCEPT ![w] = current[w]]
        /\ current' = [current EXCEPT ![w] = next[current[w]]]
    BY <1>8 DEF Advance
  <2>2. /\ w \in OnList /\ OnList' = OnList /\ current[w] \in OnList /\ r[current[w]] <= r[w]
        /\ \A v \in Workers \ {w} : ~Within(v)
    BY <1>1, <1>3, <2>1 DEF AtBlock, Within, OnList
  <2>3. r[current[w]] < r[w]
    <3>1. r[current[w]] # r[w] /\ r[w] \in Nat /\ r[current[w]] \in Nat
      BY <1>2, <1>3, <2>1, <2>2 DEF Chained
    <3>2. QED
      BY <2>2, <3>1
  <2>4. next[current[w]] \in OnList /\ r[next[current[w]]] <= r[w]
    BY <1>2, <1>3, <2>2, <2>3, NextOfList
  <2>5. AtBlock(w, r)'
    BY <1>1, <1>3, <2>1, <2>2, <2>4 DEF AtBlock, Within, OnList
  <2>6. QED
    BY <1>1, <1>6, <2>1, <2>2, <2>5
<1>9. CASE Found(w)
  <2>1. /\ at[w] = "walk" /\ at' = [at EXCEPT ![w] = "unlink"] /\ UNCHANGED <<allocated, next>>
        /\ current[w] = w /\ current' = [current EXCEPT ![w] = next[w]]
        /\ UNCHANGED previous
    BY <1>9 DEF Found
  <2>2. /\ OnList' = OnList /\ previous[w] \in OnList \cup {List} /\ next[previous[w]] = w
        /\ w \in allocated /\ \A v \in Workers \ {w} : ~Within(v)
    BY <1>1, <1>3, <2>1 DEF AtBlock, Within, OnList
  <2>3. AtBlock(w, r)'
    BY <1>1, <1>3, <2>1, <2>2 DEF AtBlock, Within, OnList
  <2>4. QED
    BY <1>1, <1>6, <2>1, <2>2, <2>3
<1>10. CASE Unlink(w)
  <2>1. /\ at[w] = "unlink" /\ at' = [at EXCEPT ![w] = "idle"]
        /\ next' = [next EXCEPT ![previous[w]] = current[w], ![w] = Nil]
        /\ allocated' = allocated \ {w}
    BY <1>10 DEF Unlink
  <2>2. /\ previous[w] \in OnList \cup {List} /\ next[previous[w]] = w /\ current[w] = next[w]
        /\ w \in OnList /\ \A v \in Workers \ {w} : ~Within(v)
    BY <1>1, <1>3, <2>1 DEF AtBlock, Within, OnList
  <2>3. OnList' = OnList \ {w}
    BY <1>1, <2>1, <2>2 DEF OnList
  <2>4. ASSUME NEW x \in (OnList \cup {List}) \ {w}, next[x] = w PROVE x = previous[w]
    <3>1. \A b \in OnList : r[b] \in Nat
      BY <1>2
    <3>2. QED
      BY <1>2, <1>3, <2>2, <2>4, <3>1 DEF Chained
  <2>5. \A x \in (OnList \cup {List}) \ {w} : next'[x] = IF next[x] = w THEN next[w] ELSE next[x]
    BY <1>2, <1>3, <2>1, <2>2, <2>4
  <2>6. PICK t \in [Blocks -> Nat] : Chained(next', OnList', t)
    BY <1>2, <1>3, <2>2, <2>3, <2>5, Unlinked
  <2>7. AtBlock(w, t)'
    BY <1>1, <2>1 DEF AtBlock, Within
  <2>8. ASSUME NEW v \in Workers \ {w} PROVE AtBlock(v, t)'
    <3>1. at'[v] = at[v] /\ at[v] \notin {"link", "walk", "unlink"}
          /\ (v \in allocated' <=> v \in allocated)
      BY <1>1, <2>1, <2>2, <2>8 DEF Within
    <3>2. QED
      BY <1>1, <1>3, <3>1 DEF AtBlock, Within
  <2>9. QED
    BY <2>6, <2>7, <2>8 DEF ListOf
<1>11. CASE NotFound(w)
  <2>1. at[w] = "walk" /\ current[w] = Nil
    BY <1>11 DEF NotFound
  <2>2. QED
    BY <1>2, <1>3, <2>1 DEF AtBlock
<1>12. QED
  BY <1>4, <1>5, <1>6, <1>7, <1>8, <1>9, <1>10, <1>11

LEMMA BlocksServingStep ==
  ASSUME IInv, BlocksInv, Serving PROVE BlocksInv'
<1>1. ASSUME NEW w \in Workers,
             \/ Allocate(w) \/ Link(w) \/ Search(w) \/ Advance(w)
             \/ Found(w) \/ Unlink(w) \/ NotFound(w)
      PROVE  BlocksInv'
  <2>1. ASSUME "met" \notin marks', "met" \notin marks, NEW r \in [Blocks -> Nat], ListOf(r)
        PROVE  \E t \in [Blocks -> Nat] : ListOf(t)'
    BY <1>1, <2>1, ListStep DEF BlocksInv
  <2>2. QED
    BY <1>1, <2>1, ServingKeeps
<1>2. QED
  BY <1>1 DEF Serving

(* A device that is left behind keeps its list; the next one has its own.  *)
LEMMA BlocksStopStep ==
  ASSUME IInv, BlocksInv, Stop PROVE BlocksInv'
<1>1. /\ pc' = "none" /\ allocated' = {} /\ next' = Nowhere /\ marks' = {}
      /\ at' = [w \in Workers |-> "idle"] /\ previous' = [w \in Workers |-> Nil]
      /\ current' = [w \in Workers |-> Nil]
  BY DEF Stop, Goes
<1>2. LinksType'
  BY <1>1 DEF LinksType, Nowhere
<1>3. BlocksByPlace'
  BY <1>1 DEF BlocksByPlace, Early
<1>4. PICK r : r \in [Blocks -> Nat]
  <2>1. [b \in Blocks |-> 0] \in [Blocks -> Nat]
    OBVIOUS
  <2>2. QED
    BY <2>1
<1>5. Chained(next', allocated', r)
  BY <1>1 DEF Chained, Nowhere, Links
<1>6. QED
  BY <1>1, <1>2, <1>3, <1>4, <1>5, QuietNext

LEMMA InitBlocks == Init => BlocksInv
<1> SUFFICES ASSUME Init PROVE BlocksInv
  OBVIOUS
<1>1. /\ pc = "none" /\ allocated = {} /\ next = Nowhere /\ marks = {}
      /\ at = [w \in Workers |-> "idle"] /\ previous = [w \in Workers |-> Nil]
      /\ current = [w \in Workers |-> Nil]
  BY DEF Init
<1>2. LinksType /\ BlocksByPlace
  BY <1>1 DEF LinksType, Nowhere, BlocksByPlace, Early
<1>3. PICK r : r \in [Blocks -> Nat]
  <2>1. [b \in Blocks |-> 0] \in [Blocks -> Nat]
    OBVIOUS
  <2>2. QED
    BY <2>1
<1>4. Chained(next, OnList, r)
  BY <1>1 DEF Chained, Nowhere, Links, OnList
<1>5. \A w \in Workers : AtBlock(w, r)
  BY <1>1 DEF AtBlock, Within
<1>6. QED
  BY <1>2, <1>3, <1>4, <1>5 DEF BlocksInv, ListInv, ListOf

LEMMA BlocksStep == IInv /\ BlocksInv /\ IInv' /\ [Next]_vars => BlocksInv'
<1> SUFFICES ASSUME IInv, BlocksInv, IInv', [Next]_vars PROVE BlocksInv'
  OBVIOUS
<1>1. CASE UNCHANGED vars
  BY <1>1 DEF vars, listVars, workVars, BlocksInv, LinksType, BlocksByPlace, ListInv, ListOf,
              OnList, AtBlock, Within, queueVars
<1>2. QED
  BY <1>1, BlocksStartStep, BlocksVirtioStep, BlocksQueryStep, BlocksDestroyStep,
     BlocksServingStep, BlocksStopStep
  DEF Next

(* A start that fails, at whatever step, gives back all it took, and a     *)
(* device left behind leaves nothing in the next one's way; until two      *)
(* workers have been inside it at a time, the list of DMA blocks, walked   *)
(* as ViosndFreeDmaBuffer walks it, holds exactly what is allocated, and a *)
(* free always finds its block; and ViosndFindStreamPair never chooses one *)
(* stream for both directions.                                             *)
THEOREM LifeHolds == Spec => []LifeInv
<1>1. IInv /\ FiltersByPlace /\ BookInv /\ BlocksInv => LifeInv
  <2> SUFFICES ASSUME IInv, FiltersByPlace, BookInv, BlocksInv PROVE LifeInv
    OBVIOUS
  <2>1. TypeOK
    BY DEF IInv, Types, WorkersByPlace, Early, Middle, Up, Down, BookInv, Named, Taken, Query,
           BlocksInv, LinksType, TypeOK
  <2>2. GivenBack
    BY DEF IInv, StatusByPlace, QueuesByPlace, Early, BookInv, Taken, Query, BlocksInv,
           BlocksByPlace, GivenBack
  <2>3. ListKept
    <3>1. ASSUME "met" \notin marks
          PROVE  /\ (\A w \in Workers : at[w] \in {"idle", "has"}) => Listed = allocated
                 /\ \A w \in Workers : at[w] # "lost"
      <4>1. PICK r \in [Blocks -> Nat] : ListOf(r)
        BY <3>1 DEF BlocksInv, ListInv
      <4>2. \A w \in Workers : at[w] # "lost"
        BY <4>1 DEF ListOf, AtBlock
      <4>3. ASSUME \A w \in Workers : at[w] \in {"idle", "has"} PROVE Listed = allocated
        <5>1. OnList = allocated
          BY <4>3 DEF OnList
        <5>2. Chained(next, allocated, r) /\ allocated \subseteq Blocks
          BY <4>1, <5>1 DEF ListOf, BlocksInv, LinksType
        <5>3. QED
          BY <5>2, ListedIs
      <4>4. QED
        BY <4>2, <4>3
    <3>2. QED
      BY <3>1 DEF ListKept
  <2>4. FiltersLive
    BY DEF FiltersByPlace, FiltersLive
  <2>5. QED
    BY <2>1, <2>2, <2>3, <2>4 DEF LifeInv, BookInv, Query
<1>2. Init => FiltersByPlace
  BY DEF Init, FiltersByPlace
<1>3. IInv /\ BookInv /\ [Next]_vars => BookInv'
  BY NamedStep, TakenStep, AskedStep DEF BookInv
<1>4. QED
  BY <1>1, <1>2, <1>3, Invariance, InitBook, InitBlocks, FiltersStep, BlocksStep, PTL DEF Spec
=============================================================================

-------------------------- MODULE DeviceLifecycle ---------------------------
(***************************************************************************)
(* The life of the PortCls variant's device object: XcbVirtioAudioStart-   *)
(* Device (Adapter.cpp) creates it, brings the virtio device up through    *)
(* the VirtIO library (VirtIOPCICommon.c and the modern and the legacy     *)
(* transport), asks it for its PCM streams and registers the endpoints;    *)
(* every one of these steps may fail, and ViosndDestroyDevice gives back   *)
(* what was taken.  Nothing in the driver destroys a device that started:  *)
(* a stop of the device by PnP leaves it behind, and the next start makes  *)
(* another one for the same hardware.                                      *)
(*                                                                         *)
(* The rings and the messages lie in DMA blocks, which the device object   *)
(* keeps on a singly linked list without a lock.  While the device serves, *)
(* two workers allocate and free blocks of their own (the render and the   *)
(* capture worker, or a control command); each access to a link is a step. *)
(* No execution is followed once a freed block is on the list or in a      *)
(* worker's hand (Undefined).                                              *)
(***************************************************************************)
EXTENDS Naturals, Sequences, FiniteSets

CONSTANTS
  QueueCount,   (* VIRTIO_SND_VQ_MAX                                        *)
  RetryCount,   (* VIOSND_PCM_INFO_RETRY_COUNT                              *)
  MaxStreams,   (* bound: VIOSND_MAX_PCM_STREAMS                            *)
  MaxStarts     (* bound: the starts that are looked at                     *)

ASSUME DeviceLifecycleAssumption ==
  /\ QueueCount \in Nat \ {0}
  /\ RetryCount \in Nat \ {0}
  /\ MaxStreams \in Nat \ {0}
  /\ MaxStarts \in Nat \ {0}

VARIABLES
  pc,          (* how far the start is; "none": there is no device object   *)
  starts,      (* the starts so far; their number names the device object   *)
  role,        (* EndpointRole                                              *)
  legacy,      (* Vdev.device is the legacy transport                       *)
  refs,        (* the PDO, the bus interface and the DMA adapter it holds   *)
  mapped,      (* Bars[i].BaseVA # NULL                                     *)
  heaps,       (* the queues whose control block is allocated               *)
  vqs,         (* the queues with info[i].vq # NULL                         *)
  initialized, (* VirtioInitialized                                         *)
  allocated,   (* the DMA blocks that are allocated                         *)
  next,        (* the links of DmaBlocks                                    *)
  message,     (* the PCM_INFO message: "none", "held", or "abandoned"      *)
  attempt,     (* attempt                                                   *)
  pair,        (* the streams ViosndFindStreamPair chose                    *)
  registered,  (* the filters registered with PortCls                       *)
  status,      (* hardware: device_status                                   *)
  ring_of,     (* hardware: the start whose ring it has for each queue      *)
  buffer,      (* hardware: the start whose message it has                  *)
  left,        (* the starts that were stopped and left behind              *)
  at,          (* where each worker is                                      *)
  previous,    (* its previous                                              *)
  current,     (* its current                                               *)
  marks        (* history: "met", "stranded"; see LifeInv                   *)

startVars == <<starts, role>>
ownVars   == <<refs, mapped, initialized>>
queueVars == <<heaps, vqs>>
listVars  == <<allocated, next>>
pcmVars   == <<message, attempt, pair>>
deviceVars == <<status, ring_of, buffer>>
workVars  == <<at, previous, current>>
vars == <<pc, startVars, legacy, ownVars, queueVars, listVars, pcmVars, registered,
          deviceVars, left, workVars, marks>>

(* The blocks.  A worker is named after the one block it allocates.        *)
List     == 0
Rings    == 1 .. QueueCount
Request  == QueueCount + 1
Response == QueueCount + 2
Nil      == QueueCount + 3
Workers  == {Request, Response}
Blocks   == Rings \cup Workers
Links    == Blocks \cup {List}

Directions == {"render", "capture"}
Wanted     == IF role = "both" THEN Directions ELSE {role}
NoPair     == [d \in Directions |-> 0]
Nowhere    == [b \in Links |-> Nil]

Init ==
  /\ pc = "none" /\ starts = 0 /\ role = "both" /\ legacy = FALSE
  /\ refs = {} /\ mapped = FALSE /\ heaps = {} /\ vqs = {} /\ initialized = FALSE
  /\ allocated = {} /\ next = Nowhere
  /\ message = "none" /\ attempt = 0 /\ pair = NoPair /\ registered = {}
  /\ status = {} /\ ring_of = [q \in Rings |-> 0] /\ buffer = 0 /\ left = {}
  /\ at = [w \in Workers |-> "idle"]
  /\ previous = [w \in Workers |-> Nil] /\ current = [w \in Workers |-> Nil]
  /\ marks = {}

-----------------------------------------------------------------------------
(* What one thread alone does to the list: PushEntryList at the head, and  *)
(* the walk of ViosndFreeDmaBuffer, which frees no block it does not find. *)
Listed ==
  LET nth[k \in 0 .. Nil] ==
        IF k = 0 THEN next[List]
        ELSE IF nth[k - 1] = Nil THEN Nil ELSE next[nth[k - 1]]
  IN  {nth[k] : k \in 0 .. Nil} \ {Nil}

AllocateDmaBuffer(b) ==
  /\ allocated' = allocated \cup {b}
  /\ next' = [next EXCEPT ![b] = next[List], ![List] = b]

Without(l, b) == [x \in Links |-> IF x = b THEN Nil
                                  ELSE IF l[x] = b THEN l[b] ELSE l[x]]

FreeDmaBuffer(b) ==
  /\ allocated' = allocated \ {b}
  /\ next' = Without(next, b)

-----------------------------------------------------------------------------
(* ViosndCreateDevice.  A failure goes to ViosndDestroyDevice.  What a     *)
(* failed start left registered, PortCls drops when PnP removes it.        *)
Goes(from, to) == pc = from /\ pc' = to

BeginStart ==
  /\ Goes("none", "created") /\ starts < MaxStarts
  /\ starts' = starts + 1
  /\ role' \in {"both", "render", "capture"}
  /\ refs' = {"pdo"}
  /\ message' = "none" /\ attempt' = 0 /\ pair' = NoPair /\ registered' = {} /\ marks' = {}
  /\ UNCHANGED <<legacy, mapped, initialized, queueVars, listVars, deviceVars, left, workVars>>

QueryPciBusInterface ==
  /\ Goes("created", "interface")
  /\ refs' = refs \cup {"bus"}
  /\ UNCHANGED <<startVars, legacy, mapped, initialized, queueVars, listVars, pcmVars,
                 registered, deviceVars, left, workVars, marks>>

ReadPciHeader ==
  /\ Goes("interface", "header") /\ "bus" \in refs
  /\ UNCHANGED <<startVars, legacy, ownVars, queueVars, listVars, pcmVars, registered,
                 deviceVars, left, workVars, marks>>

InitializeDmaAdapter ==
  /\ Goes("header", "device")
  /\ refs' = refs \cup {"adapter"}
  /\ UNCHANGED <<startVars, legacy, mapped, initialized, queueVars, listVars, pcmVars,
                 registered, deviceVars, left, workVars, marks>>

CreateFails ==
  /\ pc \in {"created", "interface", "header"} /\ pc' = "destroy"
  /\ UNCHANGED <<startVars, legacy, ownVars, queueVars, listVars, pcmVars, registered,
                 deviceVars, left, workVars, marks>>

-----------------------------------------------------------------------------
(* ViosndInitVirtio.  The transport maps a BAR when it first needs one,    *)
(* and keeps it mapped when it fails later.  Resetting a modern device     *)
(* waits until the device shows it; the device may keep its queues.        *)
(* virtio_device_initialize and ViosndInitVirtio both reset the device and *)
(* add the first two status bits: what counts is the second time.          *)
MapAddressRange(failed) == mapped' \in (IF failed THEN {mapped, TRUE} ELSE {TRUE})

ModernInitialize ==
  /\ Goes("device", "transport")
  /\ MapAddressRange(FALSE) /\ legacy' = FALSE
  /\ UNCHANGED <<startVars, refs, initialized, queueVars, listVars, pcmVars, registered,
                 deviceVars, left, workVars, marks>>

(* The BAR of a legacy device may be port space, which needs no mapping.   *)
LegacyInitialize ==
  /\ Goes("device", "transport")
  /\ MapAddressRange(TRUE) /\ legacy' = TRUE
  /\ UNCHANGED <<startVars, refs, initialized, queueVars, listVars, pcmVars, registered,
                 deviceVars, left, workVars, marks>>

DeviceInitializeFails ==
  /\ Goes("device", "destroy")
  /\ MapAddressRange(TRUE)
  /\ UNCHANGED <<startVars, legacy, refs, initialized, queueVars, listVars, pcmVars,
                 registered, deviceVars, left, workVars, marks>>

DeviceReset ==
  /\ status' = {} /\ buffer' = 0
  /\ \/ ring_of' = [q \in Rings |-> 0]
     \/ ~legacy /\ UNCHANGED ring_of

(* Mutant: the new start relies on the last one's reset.                   *)
Mut_Acknowledge ==
  /\ Goes("transport", "acknowledged")
  /\ UNCHANGED <<startVars, legacy, ownVars, queueVars, listVars, pcmVars, registered,
                 deviceVars, left, workVars, marks>>

Acknowledge ==
  /\ Goes("transport", "acknowledged")
  /\ DeviceReset
  /\ UNCHANGED <<startVars, legacy, ownVars, queueVars, listVars, pcmVars, registered, left,
                 workVars, marks>>

AddStatus ==
  /\ Goes("acknowledged", "driver")
  /\ status' = status \cup {"acknowledge", "driver"}
  /\ UNCHANGED <<startVars, legacy, ownVars, queueVars, listVars, pcmVars, registered, ring_of,
                 buffer, left, workVars, marks>>

(* A legacy device has no VERSION_1 and no FEATURES_OK.                    *)
SetFeatures ==
  /\ Goes("driver", "queues")
  /\ status' = IF legacy THEN status ELSE status \cup {"features"}
  /\ UNCHANGED <<startVars, legacy, ownVars, queueVars, listVars, pcmVars, registered, ring_of,
                 buffer, left, workVars, marks>>

(* A modern device without VERSION_1, or one that refuses FEATURES_OK.     *)
FeaturesRefused ==
  /\ Goes("driver", "reset") /\ ~legacy
  /\ UNCHANGED <<startVars, legacy, ownVars, queueVars, listVars, pcmVars, registered,
                 deviceVars, left, workVars, marks>>

-----------------------------------------------------------------------------
(* virtio_find_queues.  The queues are set up in their order.              *)
NextQueue == Cardinality(vqs) + 1

SetupQueue ==
  /\ pc = "queues" /\ NextQueue \in Rings /\ pc' = pc
  /\ AllocateDmaBuffer(NextQueue)
  /\ heaps' = IF legacy THEN heaps ELSE heaps \cup {NextQueue}
  /\ vqs' = vqs \cup {NextQueue}
  /\ ring_of' = [ring_of EXCEPT ![NextQueue] = starts]
  /\ UNCHANGED <<startVars, legacy, ownVars, pcmVars, registered, status, buffer, left,
                 workVars, marks>>

(* There is no such queue, or there are no pages for it.                   *)
QueryQueueFails ==
  /\ Goes("queues", "delete") /\ NextQueue \in Rings
  /\ UNCHANGED <<startVars, legacy, ownVars, queueVars, listVars, pcmVars, registered,
                 deviceVars, left, workVars, marks>>

(* vio_modern_setup_vq has the pages, but not the control block: it        *)
(* returns without freeing them.                                           *)
QueueHeapFails ==
  /\ Goes("queues", "delete") /\ NextQueue \in Rings /\ ~legacy
  /\ AllocateDmaBuffer(NextQueue)
  /\ UNCHANGED <<startVars, legacy, ownVars, queueVars, pcmVars, registered, deviceVars, left,
                 workVars, marks>>

(* It cannot map the notification word: it frees both, but the device has  *)
(* been told where the ring is (err_map_notify).                           *)
QueueNotifyFails ==
  /\ Goes("queues", "delete") /\ NextQueue \in Rings /\ ~legacy
  /\ ring_of' = [ring_of EXCEPT ![NextQueue] = starts]
  /\ UNCHANGED <<startVars, legacy, ownVars, queueVars, listVars, pcmVars, registered, status,
                 buffer, left, workVars, marks>>

(* One turn of virtio_delete_queues: a legacy queue is taken from the      *)
(* device, a modern one stays where it is.                                 *)
(* Mutant: the pages are freed, the control block is not.                  *)
Mut_DeleteQueue(q) ==
  /\ vqs' = vqs \ {q}
  /\ heaps' = heaps
  /\ FreeDmaBuffer(q)
  /\ ring_of' = IF legacy THEN [ring_of EXCEPT ![q] = 0] ELSE ring_of

DeleteQueue(q) ==
  /\ vqs' = vqs \ {q}
  /\ heaps' = heaps \ {q}
  /\ FreeDmaBuffer(q)
  /\ ring_of' = IF legacy THEN [ring_of EXCEPT ![q] = 0] ELSE ring_of

FirstQueue == CHOOSE q \in vqs : \A p \in vqs : q <= p

(* error_find of virtio_find_queues: before the device is reset.           *)
DeleteQueues ==
  /\ pc = "delete" /\ vqs # {} /\ pc' = pc
  /\ DeleteQueue(FirstQueue)
  /\ UNCHANGED <<startVars, legacy, ownVars, pcmVars, registered, status, buffer, left,
                 workVars, marks>>

(* The Fail path; the queues it deletes are gone by then.                  *)
InitVirtioFails ==
  /\ pc \in {"delete", "reset"} /\ vqs = {} /\ pc' = "destroy"
  /\ DeviceReset
  /\ UNCHANGED <<startVars, legacy, ownVars, queueVars, listVars, pcmVars, registered, left,
                 workVars, marks>>

DeviceReady ==
  /\ Goes("queues", "ready") /\ NextQueue \notin Rings
  /\ status' = status \cup {"ok"}
  /\ initialized' = TRUE
  /\ UNCHANGED <<startVars, legacy, refs, mapped, queueVars, listVars, pcmVars, registered,
                 ring_of, buffer, left, workVars, marks>>

-----------------------------------------------------------------------------
(* ViosndQueryPcmStreams, with its one control command at a time.  The     *)
(* device answers a code and the streams; an answer that looks empty says  *)
(* direction 0, which is output, for all of them.                          *)
Info  == {"output", "input", "other"} \X BOOLEAN   (* direction, default format *)
Empty == <<"output", FALSE>>
Infos == UNION {[1 .. n -> Info] : n \in 1 .. MaxStreams}

LooksEmpty(infos) == \A i \in DOMAIN infos : infos[i] = Empty

(* ViosndFindStreamPair: the first stream of each direction with the       *)
(* default format, or else the first; a pair without capture takes any     *)
(* other stream for it.  0 is none.                                        *)
FirstOf(S) == IF S = {} THEN 0 ELSE CHOOSE i \in S : \A j \in S : i <= j

Directed(infos, direction) == {i \in DOMAIN infos : infos[i][1] = direction}

Preferred(infos, direction) ==
  LET usual == {i \in Directed(infos, direction) : infos[i][2]}
  IN  FirstOf(IF usual # {} THEN usual ELSE Directed(infos, direction))

FindStreamPair(infos) ==
  LET render  == Preferred(infos, "output")
      capture == Preferred(infos, "input")
      other   == IF Len(infos) > 1 THEN FirstOf(DOMAIN infos \ {render}) ELSE 0
  IN  [render |-> render, capture |-> IF capture # 0 THEN capture ELSE other]

(* No streams, or no memory for the response or the message.               *)
QueryFails ==
  /\ Goes("ready", "destroy") /\ message # "held"
  /\ UNCHANGED <<startVars, legacy, ownVars, queueVars, listVars, pcmVars, registered,
                 deviceVars, left, workVars, marks>>

(* The request and the response are allocated, in this order; the message  *)
(* goes on the ring, which is empty.                                       *)
SubmitQuery ==
  /\ Goes("ready", "asked")
  /\ allocated' = allocated \cup {Request, Response}
  /\ next' = [next EXCEPT ![Request] = next[List], ![Response] = Request, ![List] = Response]
  /\ message' = "held" /\ buffer' = starts
  /\ UNCHANGED <<startVars, legacy, ownVars, queueVars, attempt, pair, registered, status,
                 ring_of, left, workVars, marks>>

DeviceAnswers ==
  /\ "ok" \in status /\ buffer # 0 /\ buffer' = 0
  /\ UNCHANGED <<pc, startVars, legacy, ownVars, queueVars, listVars, pcmVars, registered,
                 status, ring_of, left, workVars, marks>>

FreeControlMessage ==
  /\ allocated' = allocated \ Workers
  /\ next' = Without(Without(next, Request), Response)
  /\ message' = "none"

(* The device gave the message back with this code and these streams.      *)
QueryAnswered(code, infos) ==
  /\ pc = "asked" /\ buffer = 0
  /\ FreeControlMessage
  /\ LET again == /\ code = "zero" \/ (code = "ok" /\ LooksEmpty(infos))
                  /\ attempt + 1 < RetryCount
         found == FindStreamPair(infos)
         usable == code = "ok" /\ \A d \in Wanted : found[d] # 0
     IN  /\ attempt' = attempt + 1
         /\ pair' = IF ~again /\ usable THEN found ELSE pair
         /\ pc' = IF again THEN "ready" ELSE IF usable THEN "register" ELSE "destroy"
  /\ UNCHANGED <<startVars, legacy, ownVars, queueVars, registered, deviceVars, left, workVars,
                 marks>>

(* It did not before the second the command waits was over.                *)
QueryTimesOut ==
  /\ Goes("asked", "destroy")
  /\ message' = "abandoned"
  /\ UNCHANGED <<startVars, legacy, ownVars, queueVars, listVars, attempt, pair, registered,
                 deviceVars, left, workVars, marks>>

-----------------------------------------------------------------------------
(* ViosndRegisterAudioEndpoint, for render and then for capture: topology  *)
(* filter, wave filter, connection.  Only a wave filter refers to the      *)
(* device object.  A failure gives back the port and the miniport of the   *)
(* filter that failed; what PortCls has registered stays.                  *)
Filter(d, kind) == [direction |-> d, kind |-> kind, start |-> starts]
Has(d, kind)    == Filter(d, kind) \in registered
Connected(d)    == Filter(d, "connection") \in registered

Turn(d) == /\ d \in Wanted /\ ~Connected(d)
           /\ d = "capture" => "render" \notin Wanted \/ Connected("render")

RegisterFilter(d, kind) ==
  /\ pc = "register" /\ pc' = pc /\ Turn(d)
  /\ registered' = registered \cup {Filter(d, kind)}
  /\ UNCHANGED <<startVars, legacy, ownVars, queueVars, listVars, pcmVars, deviceVars, left,
                 workVars, marks>>

RegisterTopologySubdevice(d) == ~Has(d, "topology") /\ RegisterFilter(d, "topology")

RegisterWaveRTSubdevice(d) ==
  /\ Has(d, "topology") /\ ~Has(d, "wave")
  /\ RegisterFilter(d, "wave")

RegisterPhysicalConnection(d) == Has(d, "wave") /\ RegisterFilter(d, "connection")

(* Some call of this endpoint fails: the device object is destroyed.       *)
RegisterFails(d) ==
  /\ Goes("register", "destroy") /\ Turn(d)
  /\ marks' = IF \E f \in registered : f.kind = "wave" /\ f.start = starts
                THEN marks \cup {"stranded"} ELSE marks
  /\ UNCHANGED <<startVars, legacy, ownVars, queueVars, listVars, pcmVars, registered,
                 deviceVars, left, workVars>>

Started ==
  /\ Goes("register", "started") /\ \A d \in Wanted : Connected(d)
  /\ UNCHANGED <<startVars, legacy, ownVars, queueVars, listVars, pcmVars, registered,
                 deviceVars, left, workVars, marks>>

-----------------------------------------------------------------------------
(* ViosndDestroyDevice: the virtio device is reset before anything of it   *)
(* is freed.                                                               *)
(* Mutant: the queues are deleted without a reset, as by error_find.       *)
Mut_DestroyReset ==
  /\ Goes("destroy", "destroy queues") /\ initialized
  /\ UNCHANGED <<startVars, legacy, ownVars, queueVars, listVars, pcmVars, registered,
                 deviceVars, left, workVars, marks>>

DestroyReset ==
  /\ Goes("destroy", "destroy queues") /\ initialized
  /\ DeviceReset
  /\ UNCHANGED <<startVars, legacy, ownVars, queueVars, listVars, pcmVars, registered, left,
                 workVars, marks>>

DestroyQueue ==
  /\ pc = "destroy queues" /\ vqs # {} /\ pc' = pc
  /\ DeleteQueue(FirstQueue)
  /\ UNCHANGED <<startVars, legacy, ownVars, pcmVars, registered, status, buffer, left,
                 workVars, marks>>

UnmapBars ==
  /\ \/ Goes("destroy", "destroy memory") /\ ~initialized
     \/ Goes("destroy queues", "destroy memory") /\ vqs = {}
  /\ mapped' = FALSE
  /\ UNCHANGED <<startVars, legacy, refs, initialized, queueVars, listVars, pcmVars,
                 registered, deviceVars, left, workVars, marks>>

(* PopEntryList, until the list is empty; then the references, and the     *)
(* object.  The message of a timed-out query is not on any list.           *)
PopDmaBlock ==
  /\ pc = "destroy memory" /\ next[List] # Nil /\ pc' = pc
  /\ FreeDmaBuffer(next[List])
  /\ UNCHANGED <<startVars, legacy, ownVars, queueVars, pcmVars, registered, deviceVars, left,
                 workVars, marks>>

DestroyDevice ==
  /\ Goes("destroy memory", "none") /\ next[List] = Nil
  /\ refs' = {} /\ initialized' = FALSE
  /\ UNCHANGED <<startVars, legacy, mapped, queueVars, listVars, pcmVars, registered,
                 deviceVars, left, workVars, marks>>

-----------------------------------------------------------------------------
(* While the device serves: the workers at the list.  A worker that meets  *)
(* the other one inside is marked, as the code does nothing against it.    *)
Moves(w, from, to) == at[w] = from /\ at' = [at EXCEPT ![w] = to]

Enters(w) ==
  /\ pc = "started"
  /\ marks' = IF \E o \in Workers \ {w} : at[o] \in {"link", "walk", "unlink"}
                THEN marks \cup {"met"} ELSE marks
  /\ UNCHANGED <<pc, startVars, legacy, ownVars, queueVars, pcmVars, registered, deviceVars,
                 left>>

Inside(w) ==
  UNCHANGED <<pc, startVars, legacy, ownVars, queueVars, pcmVars, registered, deviceVars, left,
              marks>>

(* ViosndAllocateDmaBuffer: the block's link is set, then the head.        *)
Allocate(w) ==
  /\ Moves(w, "idle", "link") /\ Enters(w)
  /\ allocated' = allocated \cup {w}
  /\ next' = [next EXCEPT ![w] = next[List]]
  /\ UNCHANGED <<previous, current>>

Link(w) ==
  /\ Moves(w, "link", "has") /\ Inside(w)
  /\ next' = [next EXCEPT ![List] = w]
  /\ UNCHANGED <<allocated, previous, current>>

(* ViosndFreeDmaBuffer: the walk, what it does at the block, and what it   *)
(* does at the end of the list (nothing, and the block is lost).           *)
Search(w) ==
  /\ Moves(w, "has", "walk") /\ Enters(w)
  /\ previous' = [previous EXCEPT ![w] = List]
  /\ current' = [current EXCEPT ![w] = next[List]]
  /\ UNCHANGED listVars

Advance(w) ==
  /\ at[w] = "walk" /\ current[w] \notin {w, Nil} /\ at' = at /\ Inside(w)
  /\ previous' = [previous EXCEPT ![w] = current[w]]
  /\ current' = [current EXCEPT ![w] = next[current[w]]]
  /\ UNCHANGED listVars

Found(w) ==
  /\ current[w] = w /\ Moves(w, "walk", "unlink") /\ Inside(w)
  /\ current' = [current EXCEPT ![w] = next[w]]
  /\ UNCHANGED <<listVars, previous>>

Unlink(w) ==
  /\ Moves(w, "unlink", "idle") /\ Inside(w)
  /\ next' = [next EXCEPT ![previous[w]] = current[w], ![w] = Nil]
  /\ allocated' = allocated \ {w}
  /\ previous' = [previous EXCEPT ![w] = Nil]
  /\ current' = [current EXCEPT ![w] = Nil]

NotFound(w) ==
  /\ current[w] = Nil /\ Moves(w, "walk", "lost") /\ Inside(w)
  /\ previous' = [previous EXCEPT ![w] = Nil]
  /\ UNCHANGED <<listVars, current>>

Serving ==
  \E w \in Workers : \/ Allocate(w) \/ Link(w) \/ Search(w) \/ Advance(w)
                     \/ Found(w) \/ Unlink(w) \/ NotFound(w)

(* PnP stops or removes the device: PortCls ends the streams and drops the *)
(* filters.  Nobody destroys the object or resets the hardware.            *)
Stop ==
  /\ Goes("started", "none") /\ \A w \in Workers : at[w] \in {"idle", "lost"}
  /\ left' = left \cup {starts} /\ registered' = {}
  /\ refs' = {} /\ mapped' = FALSE /\ heaps' = {} /\ vqs' = {} /\ initialized' = FALSE
  /\ allocated' = {} /\ next' = Nowhere
  /\ at' = [w \in Workers |-> "idle"] /\ previous' = [w \in Workers |-> Nil]
  /\ current' = [w \in Workers |-> Nil] /\ marks' = {}
  /\ UNCHANGED <<startVars, legacy, pcmVars, deviceVars>>

-----------------------------------------------------------------------------
(* A freed block is on the list, or a worker looks at one.                 *)
Undefined ==
  \/ ~(Listed \subseteq allocated)
  \/ \E w \in Workers : {previous[w], current[w]} \cap (Blocks \ allocated) # {}

CreateDevice ==
  BeginStart \/ QueryPciBusInterface \/ ReadPciHeader \/ InitializeDmaAdapter \/ CreateFails

InitVirtio ==
  \/ ModernInitialize \/ LegacyInitialize \/ DeviceInitializeFails
  \/ Acknowledge \/ AddStatus \/ SetFeatures \/ FeaturesRefused
  \/ SetupQueue \/ QueryQueueFails \/ QueueHeapFails \/ QueueNotifyFails
  \/ DeleteQueues \/ InitVirtioFails \/ DeviceReady

QueryPcmStreams ==
  \/ QueryFails \/ SubmitQuery \/ QueryTimesOut \/ DeviceAnswers
  \/ \E infos \in Infos : QueryAnswered("ok", infos)
  \/ \E code \in {"zero", "error"} : QueryAnswered(code, <<Empty>>)

RegisterEndpoints ==
  \/ Started
  \/ \E d \in Directions :
       \/ RegisterTopologySubdevice(d) \/ RegisterWaveRTSubdevice(d)
       \/ RegisterPhysicalConnection(d) \/ RegisterFails(d)

Destroy == DestroyReset \/ DestroyQueue \/ UnmapBars \/ PopDmaBlock \/ DestroyDevice

(* What is not followed further: undefined behaviour, and the bound.       *)
Over == Undefined \/ (pc = "none" /\ starts = MaxStarts)

Next == \/ ~Undefined /\ (\/ CreateDevice \/ InitVirtio \/ QueryPcmStreams
                           \/ RegisterEndpoints \/ Destroy \/ Serving \/ Stop)
        \/ Over /\ UNCHANGED vars

Spec == Init /\ [][Next]_vars

-----------------------------------------------------------------------------
TypeOK ==
  /\ pc \in {"none", "created", "interface", "header", "device", "transport", "acknowledged",
             "driver", "queues", "delete", "reset", "ready", "asked", "register", "started",
             "destroy", "destroy queues", "destroy memory"}
  /\ starts \in 0 .. MaxStarts /\ role \in {"both"} \cup Directions /\ legacy \in BOOLEAN
  /\ refs \subseteq {"pdo", "bus", "adapter"} /\ mapped \in BOOLEAN /\ initialized \in BOOLEAN
  /\ vqs \subseteq Rings /\ heaps \subseteq Rings
  /\ allocated \subseteq Blocks /\ next \in [Links -> Blocks \cup {Nil}]
  /\ message \in {"none", "held", "abandoned"} /\ attempt \in 0 .. RetryCount
  /\ pair \in [Directions -> 0 .. MaxStreams]
  /\ registered \subseteq [direction : Directions, kind : {"topology", "wave", "connection"},
                           start : 1 .. MaxStarts]
  /\ status \subseteq {"acknowledge", "driver", "features", "ok"}
  /\ ring_of \in [Rings -> 0 .. starts] /\ buffer \in 0 .. starts /\ left \subseteq 1 .. starts
  /\ at \in [Workers -> {"idle", "link", "has", "walk", "unlink", "lost"}]
  /\ previous \in [Workers -> Links \cup {Nil}] /\ current \in [Workers -> Blocks \cup {Nil}]
  /\ marks \subseteq {"met", "stranded"}

(***************************************************************************)
(* The hardware never works on freed memory: while it has DRIVER_OK, every *)
(* ring and the message it has belong to a start that was left behind with *)
(* all its memory, or are still allocated.  Deleting the queues before the *)
(* reset after a failed virtio_find_queues is harmless only because        *)
(* DRIVER_OK has not been set yet, also when a device left behind runs.    *)
(***************************************************************************)
DmaSafe ==
  "ok" \in status =>
    /\ \A q \in Rings : ring_of[q] \in left \/ (ring_of[q] = starts /\ q \in allocated)
    /\ buffer # 0 => buffer \in left \/ (buffer = starts /\ Workers \subseteq allocated)

(***************************************************************************)
(* A start that fails, at whatever step, gives back everything it took:    *)
(* references, mapping, control blocks and DMA blocks, those of a queue    *)
(* whose set-up failed half-way included.  Only the pool memory of a       *)
(* PCM_INFO message that timed out is lost.                                *)
(***************************************************************************)
GivenBack ==
  pc = "none" => /\ refs = {} /\ ~mapped /\ heaps = {} /\ vqs = {} /\ ~initialized
                 /\ allocated = {} /\ message # "held"

(* The list holds exactly what is allocated, and a free finds its block,   *)
(* until two workers have been inside it at a time.                        *)
ListKept ==
  "met" \notin marks =>
    /\ (\A w \in Workers : at[w] \in {"idle", "has"}) => Listed = allocated
    /\ \A w \in Workers : at[w] # "lost"

(* A registered wave filter refers to a device object that is still there, *)
(* unless its start failed after registering it.                           *)
FiltersLive ==
  \A f \in registered : f.kind = "wave" =>
    f.start = starts /\ (pc # "none" \/ "stranded" \in marks)

(***************************************************************************)
(* The start's bookkeeping: what it gives back, the list of DMA blocks,    *)
(* the filters left with PortCls, and a pair of streams that are two.      *)
(***************************************************************************)
LifeInv ==
  /\ TypeOK /\ GivenBack /\ ListKept /\ FiltersLive
  /\ pair.render # 0 => pair.capture # pair.render

(***************************************************************************)
(* The handshake of virtio: DRIVER_OK comes only after the features were   *)
(* accepted (a legacy device has no such bit) and with a ring of this very *)
(* start in every queue, although a reset may leave the rings of an        *)
(* earlier start in place; a queue changes only without DRIVER_OK, a       *)
(* message is given only with it, and status bits go only by a reset.      *)
(***************************************************************************)
Handshake ==
  [][/\ "ok" \in status' \ status =>
          /\ legacy \/ "features" \in status
          /\ \A q \in Rings : ring_of[q] = starts
     /\ ring_of' # ring_of => "ok" \notin status \/ status' = {}
     /\ buffer' # buffer /\ buffer' # 0 => "ok" \in status
     /\ status \subseteq status' \/ status' = {}]_vars
=============================================================================

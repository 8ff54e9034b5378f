-------------------------- MODULE AcxDevice_proofs --------------------------
(***************************************************************************)
(* The device of the ACX variant for any number of streams, any set of     *)
(* addresses, and rings and event queues of any size: whatever step of a   *)
(* PnP or power callback fails, the hardware never works on freed memory;  *)
(* and however many control commands time out, none takes the answer of    *)
(* another, unless its message was placed where a freed one had been that  *)
(* the device still held.                                                  *)
(*                                                                         *)
(* IInv is the inductive invariant of the callbacks.  The rings, the pool, *)
(* the BARs and the device status are determined by how far the callback   *)
(* is, which no property says by itself.  CInv is that of the commands; it *)
(* rests on IInv for who may send a command in which callback.             *)
(***************************************************************************)
EXTENDS AcxDevice, FiniteSetTheorems, TLAPS

Statuses == {"acknowledge", "driver", "ok", "failed"}

Places == {"off", "features", "queues", "pool", "posting", "asking", "circuits", "ready",
           "prepared", "working", "stopping", "destroying", "sleeping", "shutdown",
           "failing", "failed"}

DeviceTypes ==
  /\ pc \in Places /\ callback \in {"prepare", "entry", "exit", "release"}
  /\ bars \in BOOLEAN /\ queues_ready \in BOOLEAN /\ virtio_ready \in BOOLEAN
  /\ rings \in BOOLEAN /\ pool \in BOOLEAN /\ kicked \in BOOLEAN
  /\ room \in 0 .. EventCount
  /\ posted \subseteq Events /\ returned \subseteq Events
  /\ streams \subseteq Directions /\ circuits \subseteq Directions
  /\ status \subseteq Statuses /\ marks \subseteq Marks
  /\ query \in {"unasked", "sent", "answered"}
  /\ at \in [Callers -> {"idle", "allocated", "polling", "done"}]

(* Where the device is up, and where the event buffers are posted.         *)
Up    == {"prepared", "working", "stopping"}
Asked == {"asking", "circuits", "ready"} \cup Up

Memory ==
  /\ queues_ready = rings
  /\ rings = TRUE => bars = TRUE
  /\ rings = FALSE => posted = {} /\ returned = {}
  /\ pc \in {"off", "features", "queues", "sleeping", "shutdown", "failed"} =>
       rings = FALSE /\ pool = FALSE
  /\ pc \in {"pool", "posting"} \cup Asked => rings = TRUE
  /\ pc \in {"posting"} \cup Asked => pool = TRUE
  /\ pc \in {"features", "queues", "sleeping"} => bars = TRUE
  /\ pc = "off" => bars = FALSE
  /\ pc = "destroying" /\ callback = "exit" => bars = TRUE
  /\ pc \in Up <=> virtio_ready = TRUE

Hardware ==
  /\ Active => rings = TRUE /\ pool = TRUE
  /\ virtio_ready = TRUE => "ok" \in status
  /\ pc \in {"features", "queues", "sleeping", "pool", "posting"} \cup Asked =>
       "failed" \notin status
  /\ pc = "destroying" /\ callback = "exit" /\ rings = FALSE => status = {}

EventsThere ==
  /\ pc \in {"pool", "posting"} => posted = {} /\ returned = {}
  /\ pc \in Asked => /\ room = EventCount
                     /\ posted \cup returned = Events /\ posted \cap returned = {}

CallbackThere ==
  /\ pc = "off" => callback = "release"
  /\ pc = "circuits" => callback = "prepare"
  /\ callback = "release" => circuits = {} \/ "kept" \in marks
  /\ pc \in {"features", "queues", "pool", "posting", "asking", "circuits", "ready", "failing"} =>
       callback \in {"prepare", "entry"}

CallsThere ==
  \A t \in Callers : at[t] # "idle" => \/ t \in Streams /\ pc = "working"
                                       \/ t = "pnp" /\ pc \in {"asking", "stopping"}

IInv == DeviceTypes /\ Memory /\ Hardware /\ EventsThere /\ CallbackThere /\ CallsThere

(* The parts that depend on pc say what the properties say without it.     *)
LEMMA DeviceImplied == ASSUME IInv PROVE DeviceInv
BY DEF IInv, DeviceTypes, Memory, Hardware, EventsThere, CallbackThere, DeviceInv,
       SafeHardware, ReadyOverAll, EventsKept, GivenBack, Up, Asked

(* Before the first start there is nothing, and nobody calls.              *)
LEMMA DeviceInit == ASSUME Init PROVE IInv
<1>1. DeviceTypes
  <2>1. /\ pc \in Places /\ callback \in {"prepare", "entry", "exit", "release"}
        /\ query \in {"unasked", "sent", "answered"}
        /\ at \in [Callers -> {"idle", "allocated", "polling", "done"}]
    BY DEF Init, Places
  <2>2. /\ posted \subseteq Events /\ returned \subseteq Events
        /\ streams \subseteq Directions /\ circuits \subseteq Directions
        /\ status \subseteq Statuses /\ marks \subseteq Marks
    BY DEF Init
  <2>3. room \in 0 .. EventCount
    BY AcxDeviceAssumption DEF Init
  <2>4. QED
    BY <2>1, <2>2, <2>3 DEF Init, DeviceTypes
<1>2. Memory
  BY DEF Init, Memory, Up, Asked
<1>3. Hardware
  BY DEF Init, Hardware, Active, Up, Asked
<1>4. EventsThere /\ CallbackThere /\ CallsThere
  BY DEF Init, EventsThere, CallbackThere, CallsThere, Up, Asked
<1>5. QED
  BY <1>1, <1>2, <1>3, <1>4 DEF IInv

(* A step of the bring-up, failed or not, keeps the device's invariant.    *)
LEMMA BringUpStep == ASSUME IInv, BringUp PROVE IInv'
<1> USE AcxDeviceAssumption
        DEF IInv, DeviceTypes, Places, Statuses, Memory, Hardware, EventsThere, CallbackThere,
            CallsThere, Up, Asked, Active, Goes, CallbackOnly, RemoveCircuits, StopsFirst,
            Directions, Marks, Callers, callVars, ringVars, ownVars, eventVars, circuitVars,
            hardwareVars
<1>1. CASE WdfInitialize
  BY <1>1 DEF WdfInitialize
<1>2. CASE WdfInitializeFails
  BY <1>2 DEF WdfInitializeFails
<1>3. CASE SetDriverFeatures
  BY <1>3 DEF SetDriverFeatures
<1>4. CASE InitQueues
  BY <1>4 DEF InitQueues
<1>5. CASE InitQueuesFails
  BY <1>5 DEF InitQueuesFails
<1>6. CASE AllocateEventPool
  BY <1>6 DEF AllocateEventPool
<1>7. CASE AllocateEventPoolFails
  BY <1>7 DEF AllocateEventPoolFails
<1>8. CASE PostEventBuffers
  <2>1. room = EventCount
    BY <1>8 DEF PostEventBuffers
  <2>2. QED
    BY <1>8, <2>1 DEF PostEventBuffers
<1>9. CASE PostEventBuffersFails
  <2>1. pc' = "failing" /\ posted' \subseteq Events
    BY <1>9 DEF PostEventBuffersFails
  <2>2. QED
    BY <1>9, <2>1 DEF PostEventBuffersFails
<1>10. CASE QueryPcmStreams
  BY <1>10 DEF QueryPcmStreams
<1>11. CASE QueryFails
  BY <1>11 DEF QueryFails
<1>12. CASE \E d \in Directions : AddCircuit(d)
  BY <1>12 DEF AddCircuit
<1>13. CASE AddCircuitFails
  BY <1>13 DEF AddCircuitFails
<1>14. CASE CircuitsAdded
  BY <1>14 DEF CircuitsAdded
<1>15. CASE SetDriverOK
  BY <1>15 DEF SetDriverOK
<1>16. QED
  BY <1>1, <1>2, <1>3, <1>4, <1>5, <1>6, <1>7, <1>8, <1>9, <1>10, <1>11, <1>12, <1>13,
     <1>14, <1>15 DEF BringUp

(* So does a step of a callback that takes the device down.                *)
LEMMA TakeDownStep == ASSUME IInv, TakeDown PROVE IInv'
<1> USE AcxDeviceAssumption
        DEF IInv, DeviceTypes, Places, Statuses, Memory, Hardware, EventsThere, CallbackThere,
            CallsThere, Up, Asked, Active, Goes, CallbackOnly, RemoveCircuits, StopsFirst,
            Directions, Marks, Callers, callVars, ringVars, ownVars, eventVars, circuitVars,
            hardwareVars
<1>1. CASE D0Entry
  BY <1>1 DEF D0Entry
<1>2. CASE D0Exit
  BY <1>2 DEF D0Exit
<1>3. CASE ReleaseHardware
  BY <1>3 DEF ReleaseHardware
<1>4. CASE SetDriverFailed
  <2>1. pc' = "destroying" /\ callback' = callback /\ callback # "exit"
    BY <1>4 DEF SetDriverFailed
  <2>2. DeviceTypes'
    BY <1>4, <2>1 DEF SetDriverFailed
  <2>3. Memory'
    BY <1>4, <2>1 DEF SetDriverFailed
  <2>4. Hardware'
    BY <1>4, <2>1 DEF SetDriverFailed
  <2>5. EventsThere' /\ CallbackThere' /\ CallsThere'
    BY <1>4, <2>1 DEF SetDriverFailed
  <2>6. QED
    BY <2>2, <2>3, <2>4, <2>5
<1>5. CASE StopStreams
  BY <1>5 DEF StopStreams
<1>6. CASE DestroyQueues
  <2>1. posted' = {} /\ returned' = {} /\ room' = 0 /\ status' = {} /\ marks' \subseteq marks
    BY <1>6 DEF DestroyQueues, DeviceReset
  <2>2. DeviceTypes'
    <3>1. /\ posted' \subseteq Events /\ returned' \subseteq Events /\ room' \in 0 .. EventCount
          /\ status' \subseteq Statuses /\ marks' \subseteq Marks
      BY <2>1
    <3>2. QED
      BY <1>6, <3>1 DEF DestroyQueues, DeviceReset
  <2>3. Memory'
    BY <1>6 DEF DestroyQueues, DeviceReset
  <2>4. Hardware'
    BY <1>6 DEF DestroyQueues, DeviceReset
  <2>5. EventsThere' /\ CallbackThere' /\ CallsThere'
    BY <1>6 DEF DestroyQueues, DeviceReset
  <2>6. QED
    BY <2>2, <2>3, <2>4, <2>5
<1>7. CASE FreeEventBuffers
  BY <1>7 DEF FreeEventBuffers
<1>8. CASE Shutdown
  BY <1>8 DEF Shutdown
<1>9. QED
  BY <1>1, <1>2, <1>3, <1>4, <1>5, <1>6, <1>7, <1>8 DEF TakeDown

(* The events: what the drain takes back there is room for, as every       *)
(* buffer is one descriptor of a ring with as many.                        *)
LEMMA DrainStep == ASSUME IInv, DrainEventQueue PROVE IInv'
<1>1. PICK e \in returned :
        /\ returned' = returned \ {e}
        /\ posted' = IF Cardinality((posted \cup returned) \ {e}) < room
                       THEN posted \cup {e} ELSE posted
  BY DEF DrainEventQueue
<1>2. pc \in {"working", "stopping"} /\ room = EventCount
      /\ posted \cup returned = Events /\ posted \cap returned = {}
  BY DEF DrainEventQueue, Drains, IInv, EventsThere, Asked, Up
<1>3. Cardinality(Events \ {e}) < EventCount
  <2>1. IsFiniteSet(Events) /\ Cardinality(Events) = EventCount
    BY FS_Interval, AcxDeviceAssumption DEF Events
  <2>2. Cardinality(Events \ {e}) = EventCount - 1
    BY <1>2, <2>1, FS_RemoveElement
  <2>3. QED
    BY <2>2, AcxDeviceAssumption
<1>4. posted' = posted \cup {e}
  BY <1>1, <1>2, <1>3
<1>5. QED
  BY <1>1, <1>2, <1>4
     DEF DrainEventQueue, IInv, DeviceTypes, Memory, Hardware, EventsThere, CallbackThere,
         CallsThere, Active, Asked, Up, callVars, ringVars, ownVars, eventVars, circuitVars,
         hardwareVars

(* The device only moves buffers between the two ends of its rings.        *)
LEMMA HardwareStep == ASSUME IInv, DeviceReports \/ DeviceAnswers PROVE IInv'
<1> USE AcxDeviceAssumption
        DEF IInv, DeviceTypes, Places, Statuses, Memory, Hardware, EventsThere, CallbackThere,
            CallsThere, Up, Asked, Active, Goes, CallbackOnly, RemoveCircuits, StopsFirst,
            Directions, Marks, Callers, callVars, ringVars, ownVars, eventVars, circuitVars,
            hardwareVars
<1>1. CASE DeviceReports
  BY <1>1 DEF DeviceReports
<1>2. CASE DeviceAnswers
  BY <1>2 DEF DeviceAnswers
<1>3. QED
  BY <1>1, <1>2

(* The commands: they notify the device, where it has its memory.          *)
LEMMA CommandStep ==
  ASSUME IInv, NEW t \in Callers,
         \/ AllocateMessage(t) \/ Submit(t) \/ SubmitBusy(t) \/ Complete(t) \/ DropStale(t)
         \/ PollTimeout(t) \/ FreeControlMessage(t)
  PROVE  IInv'
<1> USE AcxDeviceAssumption
        DEF IInv, DeviceTypes, Places, Statuses, Memory, Hardware, EventsThere, CallbackThere,
            CallsThere, Up, Asked, Active, Moves, CallOnly, MayCall,
            Directions, Marks, Callers, callVars, ringVars, ownVars, eventVars, circuitVars,
            hardwareVars
<1>1. CASE AllocateMessage(t)
  BY <1>1 DEF AllocateMessage
<1>2. CASE Submit(t)
  BY <1>2 DEF Submit
<1>3. CASE SubmitBusy(t)
  BY <1>3 DEF SubmitBusy
<1>4. CASE Complete(t)
  BY <1>4 DEF Complete
<1>5. CASE DropStale(t)
  BY <1>5 DEF DropStale
<1>6. CASE PollTimeout(t)
  BY <1>6 DEF PollTimeout
<1>7. CASE FreeControlMessage(t)
  BY <1>7 DEF FreeControlMessage
<1>8. QED
  BY <1>1, <1>2, <1>3, <1>4, <1>5, <1>6, <1>7

(* Every step keeps the device's invariant.                                *)
LEMMA DeviceStep == ASSUME IInv, [Next]_vars PROVE IInv'
<1>1. CASE UNCHANGED vars
  BY <1>1
     DEF vars, IInv, DeviceTypes, Memory, Hardware, EventsThere, CallbackThere, CallsThere,
         Active, ownVars, eventVars, circuitVars, hardwareVars, callVars
<1>2. CASE ControlCommand
  BY <1>2, CommandStep DEF ControlCommand
<1>3. QED
  BY <1>1, <1>2, HardwareStep, DrainStep, BringUpStep, TakeDownStep DEF Next

(* ViosndAcxDriver.cpp: whatever step of the PnP and power callbacks       *)
(* fails, the device never works on freed memory, VirtioReady is TRUE only *)
(* over a device that works, in D0 no event buffer is lost, and            *)
(* EvtDeviceReleaseHardware gives all back (DeviceInv).                    *)
THEOREM DeviceSafe == Spec => []DeviceInv
<1>1. IInv /\ [Next]_vars => IInv'
  BY DeviceStep
<1>2. QED
  BY <1>1, DeviceInit, DeviceImplied, PTL DEF Spec

-----------------------------------------------------------------------------
(* The commands.  An identity is never given twice while it is in use, so  *)
(* that what comes back at another's address shows that the address was    *)
(* given twice: Reuse.  Queries is why a bring-up's query is alone: it is  *)
(* sent once on a ring that is new.                                        *)
Messages == [address : Addresses, id : Ids]

CallTypes ==
  /\ at \in [Callers -> {"idle", "allocated", "polling", "done"}]
  /\ message \in [Callers -> Messages \cup {Nothing}]
  /\ \A t \in Callers : message[t] = Nothing <=> at[t] = "idle"
  /\ ring \subseteq Messages /\ used \in Seq(Messages) /\ late \subseteq Ids
  /\ lock \in Callers \cup {Nobody}

UsedOnce ==
  /\ ring \cap ToSet(used) = {}
  /\ \A i, j \in 1 .. Len(used) : used[i] = used[j] => i = j

Identities ==
  /\ \A t, u \in Callers : t # u /\ message[t] # Nothing /\ message[u] # Nothing =>
       message[t].address # message[u].address /\ message[t].id # message[u].id
  /\ \A m, n \in OnTheRing : m.id = n.id => m = n
  /\ \A m \in OnTheRing, t \in Callers :
       message[t] # Nothing /\ m.id = message[t].id => m = message[t]
  /\ \A t \in Callers : at[t] = "allocated" => message[t] \notin OnTheRing

Reuse ==
  \A m \in OnTheRing, t \in Callers :
    message[t] # Nothing /\ m.address = message[t].address /\ m # message[t] =>
      "reused" \in marks

Queries ==
  /\ query # "unasked" => pc = "asking" /\ "misread" \notin marks
  /\ rings = FALSE \/ pc \in {"pool", "posting"} \/ (pc = "asking" /\ query = "unasked") =>
       OnTheRing = {} /\ "misread" \notin marks
  /\ pc = "asking" /\ query = "unasked" => at["pnp"] = "idle"
  /\ query = "sent" /\ at["pnp"] = "allocated" => OnTheRing = {}
  /\ query = "sent" /\ at["pnp"] = "polling" => OnTheRing \subseteq {message["pnp"]}
  /\ query = "answered" => at["pnp"] \in {"done", "idle"}

CInv ==
  /\ CallTypes /\ UsedOnce /\ Identities /\ Reuse /\ Queries
  /\ Misread /\ FreedOnTheRing /\ OneAtATime

(* No identity is that of Nothing.                                         *)
LEMMA IdsFact == Ids \subseteq Nat /\ 0 \notin Ids
BY DEF Ids

(* Nothing is not a message: to have none and to have one differ.          *)
LEMMA NothingFact == Nothing \notin Messages
BY IdsFact DEF Nothing, Messages

(* Taking what was returned last takes it off the ring, for good.          *)
LEMMA TakeRing ==
  ASSUME CallTypes, UsedOnce, TakeUsed
  PROVE  /\ Head(used) \in OnTheRing /\ Head(used) \in Messages
         /\ OnTheRing' = OnTheRing \ {Head(used)}
         /\ UsedOnce' /\ used' \in Seq(Messages)
<1>1. /\ used \in Seq(Messages) /\ used # <<>> /\ used' = Tail(used) /\ ring' = ring
  BY DEF CallTypes, TakeUsed
<1>2. /\ Len(used) \in Nat \ {0} /\ Head(used) = used[1] /\ Head(used) \in Messages
      /\ Tail(used) \in Seq(Messages) /\ Len(Tail(used)) = Len(used) - 1
      /\ \A i \in 1 .. Len(used) - 1 : Tail(used)[i] = used[i + 1]
      /\ DOMAIN used = 1 .. Len(used) /\ DOMAIN Tail(used) = 1 .. Len(used) - 1
  BY <1>1
<1>3. ToSet(Tail(used)) = ToSet(used) \ {Head(used)}
  <2>1. ASSUME NEW m \in ToSet(Tail(used)) PROVE m \in ToSet(used) \ {Head(used)}
    <3>1. PICK i \in 1 .. Len(used) - 1 : m = used[i + 1]
      BY <1>2, <2>1 DEF ToSet
    <3>2. QED
      BY <1>2, <3>1 DEF ToSet, UsedOnce
  <2>2. ASSUME NEW m \in ToSet(used) \ {Head(used)} PROVE m \in ToSet(Tail(used))
    <3>1. PICK i \in 1 .. Len(used) : m = used[i]
      BY <1>2 DEF ToSet
    <3>2. i # 1 /\ i - 1 \in 1 .. Len(used) - 1 /\ Tail(used)[i - 1] = m
      BY <1>2, <3>1, <2>2
    <3>3. QED
      BY <1>2, <3>2 DEF ToSet
  <2>3. QED
    BY <2>1, <2>2
<1>4. Head(used) \in ToSet(used)
  BY <1>2 DEF ToSet
<1>5. UsedOnce'
  BY <1>1, <1>2, <1>3 DEF UsedOnce
<1>6. QED
  BY <1>1, <1>2, <1>3, <1>4, <1>5 DEF OnTheRing, UsedOnce

(* The device's return moves a message within the ring.                    *)
LEMMA AnswerRing ==
  ASSUME CallTypes, UsedOnce, NEW m \in ring, ring' = ring \ {m}, used' = Append(used, m)
  PROVE  OnTheRing' = OnTheRing /\ UsedOnce' /\ used' \in Seq(Messages)
<1>1. /\ used \in Seq(Messages) /\ m \in Messages
  BY DEF CallTypes
<1>2. /\ Len(used) \in Nat /\ used' \in Seq(Messages) /\ Len(used') = Len(used) + 1
      /\ \A i \in 1 .. Len(used) : used'[i] = used[i]
      /\ used'[Len(used) + 1] = m
      /\ DOMAIN used = 1 .. Len(used) /\ DOMAIN used' = 1 .. Len(used) + 1
  BY <1>1
<1>3. ToSet(used') = ToSet(used) \cup {m}
  <2>1. ASSUME NEW n \in ToSet(used') PROVE n \in ToSet(used) \cup {m}
    BY <1>2 DEF ToSet
  <2>2. ASSUME NEW n \in ToSet(used) \cup {m} PROVE n \in ToSet(used')
    BY <1>2 DEF ToSet
  <2>3. QED
    BY <2>1, <2>2
<1>4. m \notin ToSet(used)
  BY DEF UsedOnce
<1>5. UsedOnce'
  <2>1. ASSUME NEW i \in 1 .. Len(used'), NEW j \in 1 .. Len(used'), used'[i] = used'[j]
        PROVE  i = j
    <3>1. \A k \in 1 .. Len(used) : used[k] # m
      BY <1>2, <1>4 DEF ToSet
    <3>2. QED
      BY <1>2, <2>1, <3>1 DEF UsedOnce
  <2>2. ring' \cap ToSet(used') = {}
    BY <1>3 DEF UsedOnce
  <2>3. QED
    BY <2>1, <2>2 DEF UsedOnce
<1>6. QED
  BY <1>2, <1>3, <1>5 DEF OnTheRing

(* The commands' invariant has the properties among its parts.             *)
LEMMA CommandsImplied == ASSUME IInv, CInv PROVE CommandInv
<1>1. OnTheRing \cup Placed \subseteq [address : Addresses, id : Ids]
  <2>1. OnTheRing \subseteq Messages
    BY DEF CInv, CallTypes, OnTheRing, ToSet
  <2>2. Placed \subseteq Messages
    BY DEF CInv, CallTypes, Placed
  <2>3. QED
    BY <2>1, <2>2 DEF Messages
<1>2. TypeOK
  BY <1>1 DEF TypeOK, IInv, DeviceTypes, Places, Statuses, CInv, CallTypes
<1>3. QueryAlone
  BY DEF CInv, Queries, QueryAlone
<1>4. QED
  BY <1>2, <1>3 DEF CInv, CommandInv

(* The ring is empty at the start, and there is no message.                *)
LEMMA CommandsInit == ASSUME Init PROVE CInv
<1>1. OnTheRing = {} /\ UsedOnce
  BY DEF Init, OnTheRing, ToSet, UsedOnce
<1>2. CallTypes /\ OneAtATime
  BY AcxDeviceAssumption DEF Init, CallTypes, OneAtATime, Callers, Nobody
<1>3. QED
  BY <1>1, <1>2
     DEF Init, CInv, Identities, Reuse, Queries, Misread, FreedOnTheRing, Callers

(* A step that moves no message, and takes neither mark back, only has to  *)
(* keep Queries.                                                           *)
LEMMA Frame ==
  ASSUME CInv, Queries', UNCHANGED <<at, message, lock, ringVars>>,
         "reused" \in marks' <=> "reused" \in marks,
         "misread" \in marks' <=> "misread" \in marks
  PROVE  CInv'
<1>1. OnTheRing' = OnTheRing /\ UsedOnce'
  BY DEF CInv, OnTheRing, UsedOnce, ringVars
<1>2. QED
  BY <1>1 DEF CInv, CallTypes, Identities, Reuse, Misread, FreedOnTheRing, OneAtATime, ringVars

(* The bring-up gives the query a ring that is new.                        *)
LEMMA BringUpCommands == ASSUME IInv, CInv, BringUp PROVE CInv'
<1> USE DEF IInv, DeviceTypes, Memory, CallsThere, Up, Asked, CInv, Queries, OnTheRing,
            StopsFirst, RemoveCircuits, Goes, CallbackOnly, Callers, callVars, ringVars,
            ownVars, eventVars, circuitVars, hardwareVars
<1>1. CASE WdfInitialize
  BY <1>1, Frame DEF WdfInitialize
<1>2. CASE WdfInitializeFails
  BY <1>2, Frame DEF WdfInitializeFails
<1>3. CASE SetDriverFeatures
  BY <1>3, Frame DEF SetDriverFeatures
<1>4. CASE InitQueues
  BY <1>4, Frame DEF InitQueues
<1>5. CASE InitQueuesFails
  BY <1>5, Frame DEF InitQueuesFails
<1>6. CASE AllocateEventPool
  BY <1>6, Frame DEF AllocateEventPool
<1>7. CASE AllocateEventPoolFails
  BY <1>7, Frame DEF AllocateEventPoolFails
<1>8. CASE PostEventBuffers
  BY <1>8, Frame DEF PostEventBuffers
<1>9. CASE PostEventBuffersFails
  BY <1>9, Frame DEF PostEventBuffersFails
<1>10. CASE QueryPcmStreams
  BY <1>10, Frame DEF QueryPcmStreams
<1>11. CASE QueryFails
  BY <1>11, Frame DEF QueryFails
<1>12. CASE \E d \in Directions : AddCircuit(d)
  BY <1>12, Frame DEF AddCircuit
<1>13. CASE AddCircuitFails
  BY <1>13, Frame DEF AddCircuitFails
<1>14. CASE CircuitsAdded
  BY <1>14, Frame DEF CircuitsAdded
<1>15. CASE SetDriverOK
  BY <1>15, Frame DEF SetDriverOK
<1>16. QED
  BY <1>1, <1>2, <1>3, <1>4, <1>5, <1>6, <1>7, <1>8, <1>9, <1>10, <1>11, <1>12, <1>13,
     <1>14, <1>15 DEF BringUp

(* Taking the device down without its rings touches no message.            *)
LEMMA TakeDownCommands == ASSUME IInv, CInv, TakeDown, ~DestroyQueues PROVE CInv'
<1> USE DEF IInv, DeviceTypes, Memory, CallsThere, Up, Asked, CInv, Queries, OnTheRing,
            StopsFirst, RemoveCircuits, Goes, CallbackOnly, Callers, callVars, ringVars,
            ownVars, eventVars, circuitVars, hardwareVars
<1>1. CASE D0Entry
  BY <1>1, Frame DEF D0Entry
<1>2. CASE D0Exit
  BY <1>2, Frame DEF D0Exit
<1>3. CASE ReleaseHardware
  BY <1>3, Frame DEF ReleaseHardware
<1>4. CASE SetDriverFailed
  BY <1>4, Frame DEF SetDriverFailed
<1>5. CASE StopStreams
  BY <1>5, Frame DEF StopStreams
<1>6. CASE FreeEventBuffers
  BY <1>6, Frame DEF FreeEventBuffers
<1>7. CASE Shutdown
  BY <1>7, Frame DEF Shutdown
<1>8. QED
  BY <1>1, <1>2, <1>3, <1>4, <1>5, <1>6, <1>7 DEF TakeDown

(* Nor does the event queue.                                               *)
LEMMA EventCommands == ASSUME IInv, CInv, DeviceReports \/ DrainEventQueue PROVE CInv'
<1> USE DEF IInv, DeviceTypes, Memory, CallsThere, Up, Asked, CInv, Queries, OnTheRing,
            StopsFirst, RemoveCircuits, Goes, CallbackOnly, Callers, callVars, ringVars,
            ownVars, eventVars, circuitVars, hardwareVars
<1>1. CASE DeviceReports
  BY <1>1, Frame DEF DeviceReports
<1>2. CASE DrainEventQueue
  BY <1>2, Frame DEF DrainEventQueue
<1>3. QED
  BY <1>1, <1>2

(* The commands.  A new message gets an identity that nothing else has,    *)
(* and an address that no other command has.                               *)
LEMMA AllocateMessageCommands ==
  ASSUME IInv, CInv, NEW t \in Callers, AllocateMessage(t)
  PROVE  CInv'
<1> USE NothingFact, IdsFact, AcxDeviceAssumption
        DEF CInv, CallTypes, Goes, Moves, CallOnly, CallbackOnly, callVars, ringVars, Callers,
            Nobody, AllocateMessage
<1>1. /\ OnTheRing' = OnTheRing /\ UsedOnce' /\ at[t] = "idle" /\ message[t] = Nothing
      /\ \E i \in FreeIds, a \in Addresses \ {m.address : m \in Placed} :
           /\ message' = [message EXCEPT ![t] = [address |-> a, id |-> i]]
           /\ marks' = IF a \in {m.address : m \in OnTheRing}
                         THEN marks \cup {"reused"} ELSE marks
  BY DEF OnTheRing, UsedOnce, FreeIds
<1>2. CallTypes'
  <2>1. PICK n \in Messages : message' = [message EXCEPT ![t] = n]
    BY <1>1 DEF FreeIds, Messages
  <2>2. QED
    BY <1>1, <2>1
<1>3. Identities'
  <2>1. PICK i \in FreeIds, a \in Addresses \ {m.address : m \in Placed} :
          message' = [message EXCEPT ![t] = [address |-> a, id |-> i]]
    BY <1>1
  <2>2. \A u \in Callers : message[u] # Nothing =>
          message[u].address # a /\ message[u].id # i
    BY <2>1 DEF Placed, FreeIds
  <2>3. \A m \in OnTheRing : m.id # i
    BY <2>1 DEF FreeIds
  <2>4. /\ message'[t] = [address |-> a, id |-> i] /\ at'[t] = "allocated"
        /\ message'[t].address = a /\ message'[t].id = i
        /\ \A u \in Callers : u # t => message'[u] = message[u] /\ at'[u] = at[u]
    BY <2>1
  <2>5. ASSUME NEW u \in Callers, NEW v \in Callers, u # v,
               message'[u] # Nothing, message'[v] # Nothing
        PROVE  message'[u].address # message'[v].address /\ message'[u].id # message'[v].id
    <3>1. CASE u = t
      BY <2>2, <2>4, <2>5, <3>1
    <3>2. CASE v = t
      BY <2>2, <2>4, <2>5, <3>2
    <3>3. CASE u # t /\ v # t
      BY <2>4, <2>5, <3>3 DEF Identities
    <3>4. QED
      BY <3>1, <3>2, <3>3
  <2>6. \A m \in OnTheRing', u \in Callers :
          message'[u] # Nothing /\ m.id = message'[u].id => m = message'[u]
    <3>1. ASSUME NEW m \in OnTheRing, NEW u \in Callers, message'[u] # Nothing,
                 m.id = message'[u].id
          PROVE  m = message'[u]
      <4>1. u # t
        BY <2>3, <2>4, <3>1
      <4>2. QED
        BY <2>4, <3>1, <4>1 DEF Identities
    <3>2. QED
      BY <1>1, <3>1
  <2>7. \A u \in Callers : at'[u] = "allocated" => message'[u] \notin OnTheRing'
    BY <1>1, <2>3, <2>4 DEF Identities
  <2>8. QED
    BY <1>1, <2>5, <2>6, <2>7 DEF Identities
<1>4. Reuse'
  BY <1>1 DEF Identities, Reuse
<1>5. Queries'
  BY <1>1 DEF Queries, Misread, IInv, DeviceTypes, Memory, CallsThere, MayCall, Up, Asked, ownVars
<1>6. Misread'
  BY <1>1 DEF Reuse, Misread
<1>7. FreedOnTheRing'
  BY <1>1 DEF Identities, FreedOnTheRing
<1>8. OneAtATime'
  BY <1>1 DEF OneAtATime
<1>9. QED
  BY <1>1, <1>2, <1>3, <1>4, <1>5, <1>6, <1>7, <1>8

(* The message goes on the ring under the lock.                            *)
LEMMA SubmitCommands ==
  ASSUME IInv, CInv, NEW t \in Callers, Submit(t)
  PROVE  CInv'
<1> USE NothingFact, IdsFact, AcxDeviceAssumption
        DEF CInv, CallTypes, Goes, Moves, CallOnly, CallbackOnly, callVars, ringVars, Callers,
            Nobody, Submit
<1>1. OnTheRing' = OnTheRing \cup {message[t]} /\ UsedOnce' /\ message[t] \in Messages
  BY DEF Identities, OnTheRing, UsedOnce
<1>2. CallTypes'
  BY <1>1
<1>3. Identities'
  BY <1>1 DEF Identities
<1>4. Reuse'
  BY <1>1 DEF Identities, Reuse
<1>5. Queries'
  BY <1>1 DEF Queries, Misread, IInv, DeviceTypes, Memory, CallsThere, MayCall, Up, Asked, ownVars
<1>6. Misread'
  BY <1>1 DEF Reuse, Misread
<1>7. FreedOnTheRing'
  BY <1>1 DEF Identities, FreedOnTheRing
<1>8. OneAtATime'
  BY <1>1 DEF OneAtATime
<1>9. QED
  BY <1>1, <1>2, <1>3, <1>4, <1>5, <1>6, <1>7, <1>8

(* There is no room: the command fails without having had the lock.        *)
LEMMA SubmitBusyCommands ==
  ASSUME IInv, CInv, NEW t \in Callers, SubmitBusy(t)
  PROVE  CInv'
<1> USE NothingFact, IdsFact, AcxDeviceAssumption
        DEF CInv, CallTypes, Goes, Moves, CallOnly, CallbackOnly, callVars, ringVars, Callers,
            Nobody, SubmitBusy
<1>1. OnTheRing' = OnTheRing /\ UsedOnce'
  BY DEF OnTheRing, UsedOnce
<1>2. CallTypes'
  BY <1>1
<1>3. Identities'
  BY <1>1 DEF Identities
<1>4. Reuse'
  BY <1>1 DEF Identities, Reuse
<1>5. Queries'
  BY <1>1 DEF Queries, Misread, IInv, DeviceTypes, Memory, CallsThere, MayCall, Up, Asked, ownVars
<1>6. Misread'
  BY <1>1 DEF Reuse, Misread
<1>7. FreedOnTheRing'
  BY <1>1 DEF Identities, FreedOnTheRing
<1>8. OneAtATime'
  BY <1>1 DEF OneAtATime
<1>9. QED
  BY <1>1, <1>2, <1>3, <1>4, <1>5, <1>6, <1>7, <1>8

(* A return with the address of the message under way completes the        *)
(* command: with another's identity only if the address was given twice.   *)
LEMMA CompleteCommands ==
  ASSUME IInv, CInv, NEW t \in Callers, Complete(t)
  PROVE  CInv'
<1> USE NothingFact, IdsFact, AcxDeviceAssumption
        DEF CInv, CallTypes, Goes, Moves, CallOnly, CallbackOnly, callVars, ringVars, Callers,
            Nobody, Complete
<1>1. /\ OnTheRing' = OnTheRing \ {Head(used)} /\ UsedOnce'
      /\ Head(used) \in OnTheRing /\ Head(used) \in Messages /\ used' \in Seq(Messages)
      /\ late' = late \ {Head(used).id} /\ ring' = ring
      /\ Head(used).address = message[t].address
  BY TakeRing DEF TakeUsed, Answers
<1>2. CallTypes'
  BY <1>1
<1>3. Identities'
  BY <1>1 DEF Identities
<1>4. Reuse'
  BY <1>1 DEF Identities, Reuse
<1>5. Queries'
  <2>1. CASE query = "sent"
    <3>1. t = "pnp" /\ message[t] = Head(used)
      BY <1>1, <2>1 DEF Queries, IInv, CallsThere, Misread
    <3>2. QED
      BY <1>1, <2>1, <3>1 DEF Queries, IInv, DeviceTypes, Memory, CallsThere, Up, Asked, ownVars
  <2>2. CASE query # "sent"
    BY <1>1, <2>2 DEF Queries, IInv, DeviceTypes, Memory, CallsThere, Up, Asked, ownVars
  <2>3. QED
    BY <2>1, <2>2
<1>6. Misread'
  BY <1>1 DEF Reuse, Misread
<1>7. FreedOnTheRing'
  BY <1>1 DEF Identities, FreedOnTheRing
<1>8. OneAtATime'
  BY <1>1 DEF OneAtATime
<1>9. QED
  BY <1>1, <1>2, <1>3, <1>4, <1>5, <1>6, <1>7, <1>8

(* Any other return is forgotten.                                          *)
LEMMA DropStaleCommands ==
  ASSUME IInv, CInv, NEW t \in Callers, DropStale(t)
  PROVE  CInv'
<1> USE NothingFact, IdsFact, AcxDeviceAssumption
        DEF CInv, CallTypes, Goes, Moves, CallOnly, CallbackOnly, callVars, ringVars, Callers,
            Nobody, DropStale
<1>1. /\ OnTheRing' = OnTheRing \ {Head(used)} /\ UsedOnce'
      /\ Head(used) \in OnTheRing /\ Head(used) \in Messages /\ used' \in Seq(Messages)
      /\ late' = late \ {Head(used).id} /\ ring' = ring
  BY TakeRing DEF TakeUsed
<1>2. CallTypes'
  BY <1>1
<1>3. Identities'
  BY <1>1 DEF Identities
<1>4. Reuse'
  BY <1>1 DEF Identities, Reuse
<1>5. Queries'
  BY <1>1 DEF Queries, Misread, IInv, DeviceTypes, Memory, CallsThere, MayCall, Up, Asked, ownVars
<1>6. Misread'
  BY <1>1 DEF Reuse, Misread
<1>7. FreedOnTheRing'
  BY <1>1 DEF Identities, FreedOnTheRing
<1>8. OneAtATime'
  BY <1>1 DEF OneAtATime
<1>9. QED
  BY <1>1, <1>2, <1>3, <1>4, <1>5, <1>6, <1>7, <1>8

(* A command that times out leaves its message on the ring, late.          *)
LEMMA PollTimeoutCommands ==
  ASSUME IInv, CInv, NEW t \in Callers, PollTimeout(t)
  PROVE  CInv'
<1> USE NothingFact, IdsFact, AcxDeviceAssumption
        DEF CInv, CallTypes, Goes, Moves, CallOnly, CallbackOnly, callVars, ringVars, Callers,
            Nobody, PollTimeout
<1>1. OnTheRing' = OnTheRing /\ UsedOnce'
  BY DEF OnTheRing, UsedOnce
<1>2. CallTypes'
  <2>1. message[t] \in Messages
    OBVIOUS
  <2>2. QED
    BY <1>1, <2>1 DEF Messages
<1>3. Identities'
  BY <1>1 DEF Identities
<1>4. Reuse'
  BY <1>1 DEF Identities, Reuse
<1>5. Queries'
  BY <1>1 DEF Queries, Misread, IInv, DeviceTypes, Memory, CallsThere, MayCall, Up, Asked, ownVars
<1>6. Misread'
  BY <1>1 DEF Reuse, Misread
<1>7. FreedOnTheRing'
  BY <1>1 DEF Identities, FreedOnTheRing
<1>8. OneAtATime'
  BY <1>1 DEF OneAtATime
<1>9. QED
  BY <1>1, <1>2, <1>3, <1>4, <1>5, <1>6, <1>7, <1>8

(* The message is freed; when its command timed out, on the ring.          *)
LEMMA FreeControlMessageCommands ==
  ASSUME IInv, CInv, NEW t \in Callers, FreeControlMessage(t)
  PROVE  CInv'
<1> USE NothingFact, IdsFact, AcxDeviceAssumption
        DEF CInv, CallTypes, Goes, Moves, CallOnly, CallbackOnly, callVars, ringVars, Callers,
            Nobody, FreeControlMessage
<1>1. OnTheRing' = OnTheRing /\ UsedOnce'
  BY DEF OnTheRing, UsedOnce
<1>2. CallTypes'
  BY <1>1
<1>3. Identities'
  BY <1>1 DEF Identities
<1>4. Reuse'
  BY <1>1 DEF Identities, Reuse
<1>5. Queries'
  BY <1>1 DEF Queries, Misread, IInv, DeviceTypes, Memory, CallsThere, MayCall, Up, Asked, ownVars
<1>6. Misread'
  BY <1>1 DEF Reuse, Misread
<1>7. FreedOnTheRing'
  BY <1>1 DEF Identities, FreedOnTheRing
<1>8. OneAtATime'
  BY <1>1 DEF OneAtATime
<1>9. QED
  BY <1>1, <1>2, <1>3, <1>4, <1>5, <1>6, <1>7, <1>8

(* The device returns a message: it is on the ring until it is taken.      *)
LEMMA DeviceAnswersCommands ==
  ASSUME IInv, CInv, DeviceAnswers
  PROVE  CInv'
<1> USE NothingFact, IdsFact, AcxDeviceAssumption
        DEF CInv, CallTypes, Goes, Moves, CallOnly, CallbackOnly, callVars, ringVars, Callers,
            Nobody, DeviceAnswers
<1>1. OnTheRing' = OnTheRing /\ UsedOnce' /\ used' \in Seq(Messages) /\ ring' \subseteq ring
  BY AnswerRing
<1>2. CallTypes'
  BY <1>1
<1>3. Identities'
  BY <1>1 DEF Identities
<1>4. Reuse'
  BY <1>1 DEF Identities, Reuse
<1>5. Queries'
  BY <1>1 DEF Queries, Misread, IInv, DeviceTypes, Memory, CallsThere, MayCall, Up, Asked, ownVars
<1>6. Misread'
  BY <1>1 DEF Reuse, Misread
<1>7. FreedOnTheRing'
  BY <1>1 DEF Identities, FreedOnTheRing
<1>8. OneAtATime'
  BY <1>1 DEF OneAtATime
<1>9. QED
  BY <1>1, <1>2, <1>3, <1>4, <1>5, <1>6, <1>7, <1>8

(* The rings are freed with all that is on them.                           *)
LEMMA DestroyQueuesCommands ==
  ASSUME IInv, CInv, DestroyQueues
  PROVE  CInv'
<1> USE NothingFact, IdsFact, AcxDeviceAssumption
        DEF CInv, CallTypes, Goes, Moves, CallOnly, CallbackOnly, callVars, ringVars, Callers,
            Nobody, DestroyQueues
<1>1. OnTheRing' = {} /\ UsedOnce' /\ ring' = {} /\ used' = <<>>
  BY DEF OnTheRing, ToSet, UsedOnce
<1>2. CallTypes'
  BY <1>1
<1>3. Identities'
  BY <1>1 DEF Identities
<1>4. Reuse'
  BY <1>1 DEF Identities, Reuse
<1>5. Queries'
  BY <1>1 DEF Queries, Misread, IInv, DeviceTypes, Memory, CallsThere, MayCall, Up, Asked, ownVars
<1>6. Misread'
  BY <1>1 DEF Reuse, Misread
<1>7. FreedOnTheRing'
  BY <1>1 DEF Identities, FreedOnTheRing
<1>8. OneAtATime'
  BY <1>1 DEF OneAtATime
<1>9. QED
  BY <1>1, <1>2, <1>3, <1>4, <1>5, <1>6, <1>7, <1>8

(* Every step keeps the commands' invariant.                               *)
LEMMA CommandsStep == ASSUME IInv, CInv, [Next]_vars PROVE CInv'
<1>1. CASE UNCHANGED vars
  <2>1. UNCHANGED <<at, message, lock, ringVars, marks>> /\ Queries'
    BY <1>1 DEF vars, callVars, ringVars, ownVars, CInv, Queries, OnTheRing
  <2>2. QED
    BY <2>1, Frame
<1>2. CASE ControlCommand
  BY <1>2, AllocateMessageCommands, SubmitCommands, SubmitBusyCommands, CompleteCommands,
     DropStaleCommands, PollTimeoutCommands, FreeControlMessageCommands DEF ControlCommand
<1>3. CASE DeviceAnswers \/ DestroyQueues
  BY <1>3, DeviceAnswersCommands, DestroyQueuesCommands
<1>4. CASE DeviceReports \/ DrainEventQueue
  BY <1>4, EventCommands
<1>5. CASE BringUp \/ (TakeDown /\ ~DestroyQueues)
  BY <1>5, BringUpCommands, TakeDownCommands
<1>6. QED
  BY <1>1, <1>2, <1>3, <1>4, <1>5 DEF Next

(* ViosndControlCommand: only its own answer completes a command, unless   *)
(* its message was placed where a freed one had been that the device still *)
(* held; no command but one that timed out frees a message on the ring;    *)
(* the query of a bring-up has the ring to itself; and one command polls   *)
(* at a time (CommandInv).                                                 *)
THEOREM CommandsSafe == Spec => []CommandInv
<1>1. Init => IInv /\ CInv
  BY DeviceInit, CommandsInit
<1>2. IInv /\ CInv /\ [Next]_vars => (IInv /\ CInv)'
  BY DeviceStep, CommandsStep
<1>3. IInv /\ CInv => CommandInv
  BY CommandsImplied
<1>4. QED
  BY <1>1, <1>2, <1>3, PTL DEF Spec
=============================================================================

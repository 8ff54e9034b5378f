------------------------ MODULE CaptureStream_proofs ------------------------
(***************************************************************************)
(* The capture stream, and those opened after it on the same device, for   *)
(* any number of io blocks, any pool, target and ring sizes and any set of *)
(* faults: every block is accounted for unless capture is faulted, the     *)
(* stream object lives exactly while someone holds it, nothing is taken    *)
(* off the ring under the device, and no worker meets the client or        *)
(* another worker at the pool unless it was given up, or was started       *)
(* without a thread object to wait for.                                    *)
(***************************************************************************)
EXTENDS CaptureStream, FiniteSetTheorems, TLAPS

-----------------------------------------------------------------------------
(* The values that have no story of their own.                             *)
Places ==
  /\ faults \in Scenarios
  /\ state \in States /\ goal \in States /\ old \in States
  /\ client \in ClientPlaces /\ worker \in WorkerPlaces
  /\ polls \in 0 .. StopPolls

Flags ==
  /\ faulted \in BOOLEAN /\ thread \in BOOLEAN /\ stop_event \in BOOLEAN
  /\ freed \in BOOLEAN /\ buffer \in BOOLEAN /\ pcm \in BOOLEAN

(* Who holds the stream: the client until it dropped its reference, and    *)
(* the worker as long as there is one.                                     *)
Client == IF client = "gone" THEN 0 ELSE 1
Worker == IF worker = "none" THEN 0 ELSE 1

Held ==
  /\ refs = Client + Worker
  /\ refs = 0 => freed = TRUE
  /\ refs # 0 => freed = FALSE

(* What the device has is on the ring, and is not what it gave back; a     *)
(* ring is detached only after a RELEASE that brought everything back.     *)
Ring ==
  /\ device \cup used \subseteq posted /\ device \cap used = {}
  /\ client = "drain" => used = posted
  /\ client = "detach" => posted = {}

(* The order of a run.  Trusted: no worker is out of control.  Resting:    *)
(* there should be none.                                                   *)
Trusted  == Supervised /\ faulted = FALSE
Starting == client \in {"reset", "configure", "start", "launch", "withdraw"}
Stopped  == client \in {"prepare", "unmap", "close", "drop", "gone"}
Resting  == Starting \/ Stopped \/ (client = "idle" /\ state # "RUN")

Order ==
  /\ state = "RUN" => client \in {"idle", "launch", "withdraw"}
  /\ client \in {"launch", "withdraw"} => state = "RUN"
  /\ Starting => old # "RUN"
  /\ Starting \/ state = "RUN" => faulted = FALSE
  /\ thread = TRUE => (client = "idle" /\ state = "RUN") \/ client = "join"
  /\ Trusted /\ worker # "none" => thread = TRUE
  /\ Trusted /\ Resting => posted = {} /\ inflight = 0

(* The blocks, and the count of those on the ring while a stream runs.     *)
Blocks ==
  /\ allocated \subseteq Ios /\ pool \subseteq Ios /\ posted \subseteq Ios
  /\ inflight \in Nat /\ Cardinality(pool) <= PoolSize
  /\ BlocksLive
  /\ Trusted => allocated \subseteq pool \cup posted
  /\ Supervised /\ state = "RUN" /\ client = "idle" => inflight = Cardinality(posted)

(* Who records, when every command is carried out.                         *)
Agree ==
  (Trusted /\ "command" \notin faults) =>
    /\ client \in {"launch", "withdraw"} => pcm = TRUE
    /\ client = "idle" => (pcm = TRUE <=> state = "RUN")
    /\ client \in {"reset", "configure", "start", "drain", "detach", "prepare", "unmap",
                   "close", "drop", "gone"} => pcm = FALSE

IInv == Places /\ Flags /\ Held /\ Ring /\ Order /\ Blocks /\ Agree

-----------------------------------------------------------------------------
(* The steps, one part of the invariant after the other.                   *)

(* Every place is one of those there are.                                  *)
LEMMA PlacesStep ==
  ASSUME IInv, ~Undefined, ClientNext \/ WorkerNext \/ DeviceNext, UNCHANGED faults
  PROVE  Places'
<1> USE CaptureStreamAssumption DEF IInv, Places, States, ClientPlaces, WorkerPlaces,
        Return, AfterJoin, WorkerGoes, streamVars, callVars, workerVars
<1>1. CASE SetStateRun \/ Reset \/ Configure \/ Start
  BY <1>1 DEF SetStateRun, Reset, Configure, Start
<1>2. CASE Launch
  BY <1>2 DEF Launch
<1>3. CASE LaunchFails
  BY <1>3 DEF LaunchFails
<1>4. CASE Withdraw
  BY <1>4 DEF Withdraw
<1>5. CASE SetStateDown
  BY <1>5 DEF SetStateDown
<1>6. CASE SetStateOther \/ Join \/ JoinTimesOut \/ Release
  BY <1>6 DEF SetStateOther, Join, JoinTimesOut, Release
<1>7. CASE Drain \/ Detach \/ Prepare \/ AllocateAudioBuffer
  BY <1>7 DEF Drain, Detach, Prepare, AllocateAudioBuffer
<1>8. CASE Unmap \/ FreeAudioBuffer \/ Close \/ Drop
  BY <1>8 DEF Unmap, FreeAudioBuffer, Close, Drop
<1>9. CASE NewStream
  BY <1>9 DEF NewStream
<1>10. CASE Wake \/ Reclaim \/ Wanted \/ SubmitCapturePacket
  BY <1>10 DEF Wake, Reclaim, Wanted, SubmitCapturePacket
<1>11. CASE SubmitFails \/ LastPoll \/ Leave \/ Exit
  BY <1>11 DEF SubmitFails, LastPoll, Leave, Exit
<1>12. CASE DeviceFetch \/ DeviceReturn
  BY <1>12 DEF DeviceFetch, DeviceReturn
<1>13. QED
  BY <1>1, <1>2, <1>3, <1>4, <1>5, <1>6, <1>7, <1>8, <1>9, <1>10, <1>11, <1>12
  DEF Next, ClientNext, WorkerNext, DeviceNext

(* Every flag is TRUE or FALSE.                                            *)
LEMMA FlagsStep ==
  ASSUME IInv, ~Undefined, ClientNext \/ WorkerNext \/ DeviceNext, UNCHANGED faults
  PROVE  Flags'
<1> USE Zenon DEF IInv, Flags, ReclaimCapturePackets, Released, Dereference, streamVars,
        objectVars, deviceVars
<1>1. CASE SetStateRun \/ Reset \/ Configure
  BY <1>1 DEF SetStateRun, Reset, Configure
<1>2. CASE Start
  BY <1>2 DEF Start
<1>3. CASE Launch
  BY <1>3 DEF Launch
<1>4. CASE LaunchFails
  BY <1>4 DEF LaunchFails
<1>5. CASE Withdraw
  BY <1>5 DEF Withdraw
<1>6. CASE SetStateDown
  BY <1>6 DEF SetStateDown
<1>7. CASE SetStateOther \/ Join \/ JoinTimesOut
  BY <1>7 DEF SetStateOther, Join, JoinTimesOut
<1>8. CASE Release
  BY <1>8 DEF Release
<1>9. CASE Drain \/ Detach \/ Prepare
  BY <1>9 DEF Drain, Detach, Prepare
<1>10. CASE AllocateAudioBuffer \/ Unmap \/ FreeAudioBuffer
  BY <1>10 DEF AllocateAudioBuffer, Unmap, FreeAudioBuffer
<1>11. CASE Close
  BY <1>11 DEF Close
<1>12. CASE Drop
  BY <1>12 DEF Drop
<1>13. CASE NewStream
  BY <1>13 DEF NewStream
<1>14. CASE Wake \/ Reclaim \/ Wanted
  BY <1>14 DEF Wake, Reclaim, Wanted
<1>15. CASE SubmitCapturePacket \/ SubmitFails \/ LastPoll
  BY <1>15 DEF SubmitCapturePacket, SubmitFails, LastPoll
<1>16. CASE Leave
  BY <1>16 DEF Leave
<1>17. CASE Exit
  BY <1>17 DEF Exit
<1>18. CASE DeviceFetch \/ DeviceReturn
  BY <1>18 DEF DeviceFetch, DeviceReturn
<1>19. QED
  BY <1>1, <1>2, <1>3, <1>4, <1>5, <1>6, <1>7, <1>8, <1>9, <1>10, <1>11, <1>12, <1>13,
     <1>14, <1>15, <1>16, <1>17, <1>18
  DEF Next, ClientNext, WorkerNext, DeviceNext

(* A worker has its reference from before it runs until it has done.       *)
LEMMA HeldStep ==
  ASSUME IInv, ~Undefined, ClientNext \/ WorkerNext \/ DeviceNext, UNCHANGED faults
  PROVE  Held'
<1> USE DEF IInv, Held, Client, Worker, Undefined, TwoWorkers, Return, AfterJoin,
        Dereference, WorkerGoes, streamVars, objectVars, callVars, workerVars
<1>1. CASE SetStateRun \/ Reset \/ Configure \/ Start
  BY <1>1 DEF SetStateRun, Reset, Configure, Start
<1>2. CASE Launch
  BY <1>2 DEF Launch
<1>3. CASE LaunchFails
  BY <1>3 DEF LaunchFails
<1>4. CASE Withdraw \/ SetStateDown \/ SetStateOther \/ Join
  BY <1>4 DEF Withdraw, SetStateDown, SetStateOther, Join
<1>5. CASE JoinTimesOut \/ Release \/ Drain \/ Detach
  BY <1>5 DEF JoinTimesOut, Release, Drain, Detach
<1>6. CASE Prepare \/ AllocateAudioBuffer \/ Unmap \/ FreeAudioBuffer
  BY <1>6 DEF Prepare, AllocateAudioBuffer, Unmap, FreeAudioBuffer
<1>7. CASE Close
  BY <1>7 DEF Close
<1>8. CASE Drop
  BY <1>8 DEF Drop
<1>9. CASE NewStream
  BY <1>9 DEF NewStream
<1>10. CASE Wake \/ Reclaim \/ Wanted \/ SubmitCapturePacket
  BY <1>10 DEF Wake, Reclaim, Wanted, SubmitCapturePacket
<1>11. CASE SubmitFails \/ LastPoll \/ Leave
  BY <1>11 DEF SubmitFails, LastPoll, Leave
<1>12. CASE Exit
  BY <1>12 DEF Exit
<1>13. CASE DeviceFetch \/ DeviceReturn
  BY <1>13 DEF DeviceFetch, DeviceReturn
<1>14. QED
  BY <1>1, <1>2, <1>3, <1>4, <1>5, <1>6, <1>7, <1>8, <1>9, <1>10, <1>11, <1>12, <1>13
  DEF Next, ClientNext, WorkerNext, DeviceNext

(* No read is taken off the ring under the device: a worker that might be  *)
(* at the ring with the client ends the execution first.                   *)
LEMMA RingStep ==
  ASSUME IInv, ~Undefined, ClientNext \/ WorkerNext \/ DeviceNext, UNCHANGED faults
  PROVE  Ring'
<1> USE DEF IInv, Ring, Undefined, Racing, Stray, ReclaimCapturePackets,
        AllocateCaptureIoPool, AllocationFails, Return, AfterJoin, Released, Dereference,
        WorkerGoes, streamVars, poolVars, deviceVars, callVars, workerVars
<1>1. CASE SetStateRun \/ Reset \/ Configure
  BY <1>1 DEF SetStateRun, Reset, Configure
<1>2. CASE Start \/ Launch \/ LaunchFails
  BY <1>2 DEF Start, Launch, LaunchFails
<1>3. CASE Withdraw \/ SetStateDown \/ SetStateOther
  BY <1>3 DEF Withdraw, SetStateDown, SetStateOther
<1>4. CASE Join \/ JoinTimesOut
  BY <1>4 DEF Join, JoinTimesOut
<1>5. CASE Release
  BY <1>5 DEF Release
<1>6. CASE Drain
  BY <1>6 DEF Drain
<1>7. CASE Detach \/ Prepare \/ AllocateAudioBuffer
  BY <1>7 DEF Detach, Prepare, AllocateAudioBuffer
<1>8. CASE Unmap \/ FreeAudioBuffer \/ Close
  BY <1>8 DEF Unmap, FreeAudioBuffer, Close
<1>9. CASE Drop \/ NewStream
  BY <1>9 DEF Drop, NewStream
<1>10. CASE Wake
  BY <1>10 DEF Wake
<1>11. CASE Reclaim
  BY <1>11 DEF Reclaim
<1>12. CASE Wanted
  BY <1>12 DEF Wanted
<1>13. CASE SubmitCapturePacket
  BY <1>13 DEF SubmitCapturePacket
<1>14. CASE SubmitFails
  BY <1>14 DEF SubmitFails
<1>15. CASE LastPoll
  BY <1>15 DEF LastPoll
<1>16. CASE Leave \/ Exit
  BY <1>16 DEF Leave, Exit
<1>17. CASE DeviceFetch
  BY <1>17 DEF DeviceFetch
<1>18. CASE DeviceReturn
  BY <1>18 DEF DeviceReturn
<1>19. QED
  BY <1>1, <1>2, <1>3, <1>4, <1>5, <1>6, <1>7, <1>8, <1>9, <1>10, <1>11, <1>12, <1>13,
     <1>14, <1>15, <1>16, <1>17, <1>18
  DEF Next, ClientNext, WorkerNext, DeviceNext

(* A trusted stream has a worker from Launch to Join, and between runs     *)
(* nothing on the ring.                                                    *)
LEMMA OrderStep ==
  ASSUME IInv, ~Undefined, ClientNext \/ WorkerNext \/ DeviceNext, UNCHANGED faults
  PROVE  Order'
<1> USE DEF IInv, Places, Flags, Order, Trusted, Supervised, Starting, Stopped, Resting,
        Fault, Held, Client, Worker, AllocateCaptureIoPool, AllocationFails,
        ReclaimCapturePackets, FreePool, Return, AfterJoin, Released, Dereference,
        WorkerGoes, streamVars, objectVars, poolVars, deviceVars, callVars, workerVars
<1>1. CASE SetStateRun \/ Reset
  BY <1>1 DEF SetStateRun, Reset
<1>2. CASE Configure \/ Start
  BY <1>2 DEF Configure, Start
<1>3. CASE Launch
  BY <1>3 DEF Launch
<1>4. CASE LaunchFails
  BY <1>4 DEF LaunchFails
<1>5. CASE Withdraw \/ SetStateDown
  BY <1>5 DEF Withdraw, SetStateDown
<1>6. CASE SetStateOther \/ Join
  BY <1>6 DEF SetStateOther, Join
<1>7. CASE JoinTimesOut
  BY <1>7 DEF JoinTimesOut
<1>8. CASE Release
  BY <1>8 DEF Release
<1>9. CASE Drain
  BY <1>9 DEF Drain
<1>10. CASE Detach
  BY <1>10 DEF Detach
<1>11. CASE Prepare \/ AllocateAudioBuffer
  BY <1>11 DEF Prepare, AllocateAudioBuffer
<1>12. CASE Unmap \/ FreeAudioBuffer
  BY <1>12 DEF Unmap, FreeAudioBuffer
<1>13. CASE Close
  BY <1>13 DEF Close
<1>14. CASE Drop
  BY <1>14 DEF Drop
<1>15. CASE NewStream
  BY <1>15 DEF NewStream
<1>16. CASE Wake
  BY <1>16 DEF Wake
<1>17. CASE Reclaim
  BY <1>17 DEF Reclaim
<1>18. CASE Wanted \/ SubmitCapturePacket
  BY <1>18 DEF Wanted, SubmitCapturePacket
<1>19. CASE SubmitFails
  BY <1>19 DEF SubmitFails
<1>20. CASE LastPoll
  BY <1>20 DEF LastPoll
<1>21. CASE Leave
  BY <1>21 DEF Leave
<1>22. CASE Exit
  BY <1>22 DEF Exit
<1>23. CASE DeviceFetch \/ DeviceReturn
  BY <1>23 DEF DeviceFetch, DeviceReturn
<1>24. QED
  BY <1>1, <1>2, <1>3, <1>4, <1>5, <1>6, <1>7, <1>8, <1>9, <1>10, <1>11, <1>12, <1>13,
     <1>14, <1>15, <1>16, <1>17, <1>18, <1>19, <1>20, <1>21, <1>22, <1>23
  DEF Next, ClientNext, WorkerNext, DeviceNext

(* The device records from Start on, and until Withdraw or Release.        *)
LEMMA AgreeStep ==
  ASSUME IInv, ~Undefined, ClientNext \/ WorkerNext \/ DeviceNext, UNCHANGED faults
  PROVE  Agree'
<1> USE DEF IInv, Flags, Order, Agree, Starting, Trusted, Supervised, Fault,
        ReclaimCapturePackets, Return, AfterJoin, Released, Dereference, WorkerGoes,
        streamVars, deviceVars, callVars
<1>1. CASE SetStateRun \/ Reset \/ Configure
  BY <1>1 DEF SetStateRun, Reset, Configure
<1>2. CASE Start
  BY <1>2 DEF Start
<1>3. CASE Launch
  BY <1>3 DEF Launch
<1>4. CASE LaunchFails
  BY <1>4 DEF LaunchFails
<1>5. CASE Withdraw
  BY <1>5 DEF Withdraw
<1>6. CASE SetStateDown \/ SetStateOther \/ Join
  BY <1>6 DEF SetStateDown, SetStateOther, Join
<1>7. CASE JoinTimesOut
  BY <1>7 DEF JoinTimesOut
<1>8. CASE Release
  BY <1>8 DEF Release
<1>9. CASE Drain \/ Detach \/ Prepare
  BY <1>9 DEF Drain, Detach, Prepare
<1>10. CASE AllocateAudioBuffer \/ Unmap \/ FreeAudioBuffer
  BY <1>10 DEF AllocateAudioBuffer, Unmap, FreeAudioBuffer
<1>11. CASE Close \/ Drop \/ NewStream
  BY <1>11 DEF Close, Drop, NewStream
<1>12. CASE Wake \/ Reclaim \/ Wanted
  BY <1>12 DEF Wake, Reclaim, Wanted
<1>13. CASE SubmitCapturePacket \/ SubmitFails \/ LastPoll
  BY <1>13 DEF SubmitCapturePacket, SubmitFails, LastPoll
<1>14. CASE Leave
  BY <1>14 DEF Leave
<1>15. CASE Exit
  BY <1>15 DEF Exit
<1>16. CASE DeviceFetch \/ DeviceReturn
  BY <1>16 DEF DeviceFetch, DeviceReturn
<1>17. QED
  BY <1>1, <1>2, <1>3, <1>4, <1>5, <1>6, <1>7, <1>8, <1>9, <1>10, <1>11, <1>12, <1>13,
     <1>14, <1>15, <1>16
  DEF Next, ClientNext, WorkerNext, DeviceNext

-----------------------------------------------------------------------------
(* The blocks, one kind of step after the other.                           *)
LEMMA Finite ==
  ASSUME NEW S, S \subseteq Ios
  PROVE  IsFiniteSet(S) /\ Cardinality(S) \in Nat
BY FS_Subset, FS_CardinalityType, CaptureStreamAssumption

(* What comes back goes to the pool, or is freed where the pool is full.   *)
(* The count goes down by as many, as long as it was that of the ring.     *)
LEMMA ReclaimBlocks ==
  ASSUME Ring, Blocks, ReclaimCapturePackets
  PROVE  /\ (allocated \subseteq Ios /\ pool \subseteq Ios /\ posted \subseteq Ios)'
         /\ inflight' \in Nat /\ Cardinality(pool') <= PoolSize /\ BlocksLive'
         /\ allocated \subseteq pool \cup posted => allocated' \subseteq pool' \cup posted'
         /\ inflight = Cardinality(posted) => inflight' = Cardinality(posted')
<1>1. /\ used \subseteq posted /\ posted \subseteq Ios /\ pool \subseteq Ios
      /\ pool \cap posted = {} /\ pool \cup posted \subseteq allocated
      /\ allocated \subseteq Ios /\ inflight \in Nat
  BY DEF Ring, Blocks, BlocksLive
<1>2. PICK K \in SUBSET used :
        /\ Cardinality(pool) + Cardinality(K) <= PoolSize
        /\ pool' = pool \cup K /\ posted' = posted \ used
        /\ allocated' = allocated \ (used \ K) /\ inflight' = Fewer(used)
  BY DEF ReclaimCapturePackets
<1>3. Cardinality(pool') <= PoolSize
  <2>1. Cardinality(pool \cup K)
          = Cardinality(pool) + Cardinality(K) - Cardinality(pool \cap K)
    BY <1>1, <1>2, Finite, FS_Union
  <2>2. Cardinality(pool \cap K) = 0
    <3>1. pool \cap K = {}
      BY <1>1, <1>2
    <3>2. QED
      BY <3>1, FS_EmptySet
  <2>3. Cardinality(pool) \in Nat /\ Cardinality(K) \in Nat
    BY <1>1, <1>2, Finite
  <2>4. QED
    BY <1>2, <2>1, <2>2, <2>3, CaptureStreamAssumption
<1>4. Cardinality(used) \in Nat /\ Cardinality(posted) \in Nat
  BY <1>1, Finite
<1>5. Cardinality(posted \ used) = Cardinality(posted) - Cardinality(used)
      /\ Cardinality(posted \ used) \in Nat
  <2>1. Cardinality(posted \ used) = Cardinality(posted) - Cardinality(posted \cap used)
    BY <1>1, Finite, FS_Difference
  <2>2. posted \cap used = used
    BY <1>1
  <2>3. Cardinality(posted \ used) \in Nat
    BY <1>1, Finite
  <2>4. QED
    BY <2>1, <2>2, <2>3
<1>6. inflight' \in Nat /\ (inflight = Cardinality(posted) => inflight' = Cardinality(posted'))
  BY <1>1, <1>2, <1>4, <1>5 DEF Fewer
<1>7. QED
  BY <1>1, <1>2, <1>3, <1>6 DEF BlocksLive

(* A new pool has no block that is in use, and as many as there are places.*)
LEMMA AllocateBlocks ==
  ASSUME Blocks, AllocateCaptureIoPool \/ AllocationFails
  PROVE  /\ (allocated \subseteq Ios /\ pool \subseteq Ios /\ posted \subseteq Ios)'
         /\ Cardinality(pool') <= PoolSize /\ BlocksLive'
         /\ allocated \subseteq pool \cup posted => allocated' \subseteq pool' \cup posted'
         /\ UNCHANGED <<posted, inflight>>
BY CaptureStreamAssumption
   DEF Blocks, BlocksLive, AllocateCaptureIoPool, AllocationFails, poolVars

(* The empty pool has room.                                                *)
LEMMA NoPool == Cardinality({}) = 0 /\ Cardinality({}) <= PoolSize
BY FS_EmptySet, CaptureStreamAssumption

(* A block goes from the pool to the ring.                                 *)
LEMMA SubmitBlocks ==
  ASSUME Blocks, NEW io \in pool, pool' = pool \ {io}, posted' = posted \cup {io}
  PROVE  /\ Cardinality(pool') <= PoolSize /\ Cardinality(posted') = Cardinality(posted) + 1
         /\ Cardinality(posted) \in Nat
<1>1. io \notin posted /\ io \in Ios /\ pool \subseteq Ios /\ posted \subseteq Ios
  BY DEF Blocks, BlocksLive
<1>2. Cardinality(pool') = Cardinality(pool) - 1
      /\ Cardinality(posted') = Cardinality(posted) + 1
  BY <1>1, Finite, FS_AddElement, FS_RemoveElement
<1>3. Cardinality(pool) \in Nat /\ Cardinality(posted) \in Nat
  BY <1>1, Finite
<1>4. QED
  BY <1>2, <1>3, CaptureStreamAssumption DEF Blocks

(* The blocks at every step.                                               *)
LEMMA BlocksStep ==
  ASSUME IInv, ~Undefined, ClientNext \/ WorkerNext \/ DeviceNext, UNCHANGED faults
  PROVE  Blocks'
<1> USE DEF IInv, Flags, Order, Blocks, BlocksLive, Trusted, Supervised, Starting,
        Stopped, Resting, Held, Client, Worker, Fault, FreePool, Return, AfterJoin,
        Dereference, WorkerGoes, streamVars, objectVars, poolVars, callVars, workerVars
<1>1. CASE SetStateRun
  BY <1>1 DEF SetStateRun
<1>2. CASE Reset
  BY <1>2 DEF Reset
<1>3. CASE Configure \/ Start
  BY <1>3 DEF Configure, Start
<1>4. CASE Launch
  <2>1. (posted = {} /\ inflight = 0) \/ ~Supervised
    BY <1>4 DEF Launch
  <2>2. QED
    BY <1>4, <2>1, AllocateBlocks, NoPool DEF Launch
<1>5. CASE LaunchFails
  <2>1. client' = "withdraw" /\ (AllocateCaptureIoPool \/ AllocationFails)
    BY <1>5 DEF LaunchFails
  <2>2. QED
    BY <1>5, <2>1, AllocateBlocks DEF LaunchFails
<1>6. CASE Withdraw
  BY <1>6 DEF Withdraw
<1>7. CASE SetStateDown \/ SetStateOther
  BY <1>7 DEF SetStateDown, SetStateOther
<1>8. CASE Join
  BY <1>8, NoPool DEF Join
<1>9. CASE JoinTimesOut \/ Release
  BY <1>9 DEF JoinTimesOut, Release
<1>10. CASE Drain
  <2>1. Trusted' => Trusted
    BY <1>10 DEF Drain
  <2>2. (state = "RUN" /\ client = "idle")' => state = "RUN" /\ client = "idle"
    BY <1>10 DEF Drain
  <2>3. QED
    BY <1>10, <2>1, <2>2, ReclaimBlocks DEF Drain
<1>11. CASE Detach
  BY <1>11, NoPool DEF Detach
<1>12. CASE Prepare \/ AllocateAudioBuffer \/ Unmap
  BY <1>12 DEF Prepare, AllocateAudioBuffer, Unmap
<1>13. CASE FreeAudioBuffer
  BY <1>13, NoPool DEF FreeAudioBuffer
<1>14. CASE Close
  BY <1>14 DEF Close
<1>15. CASE Drop
  BY <1>15, NoPool DEF Drop
<1>16. CASE NewStream
  BY <1>16, NoPool DEF NewStream
<1>17. CASE Wake
  BY <1>17 DEF Wake
<1>18. CASE Reclaim
  <2>1. Trusted' => Trusted
    BY <1>18 DEF Reclaim
  <2>2. (state = "RUN" /\ client = "idle")' => state = "RUN" /\ client = "idle"
    BY <1>18 DEF Reclaim
  <2>3. QED
    BY <1>18, <2>1, <2>2, ReclaimBlocks DEF Reclaim
<1>19. CASE Wanted
  BY <1>19 DEF Wanted
<1>20. CASE SubmitCapturePacket
  <2>1. PICK io \in pool : pool' = pool \ {io} /\ posted' = posted \cup {io}
    BY <1>20 DEF SubmitCapturePacket
  <2>2. /\ Cardinality(pool') <= PoolSize
        /\ Cardinality(posted') = Cardinality(posted) + 1
    BY <2>1, SubmitBlocks
  <2>3. /\ UNCHANGED <<state, client, allocated, faulted>> /\ inflight' = inflight + 1
    BY <1>20 DEF SubmitCapturePacket
  <2>4. /\ pool' \cap posted' = {} /\ pool' \cup posted' = pool \cup posted
        /\ pool \cup posted \subseteq Ios
    BY <2>1
  <2>5. BlocksLive' /\ (Trusted => allocated \subseteq pool \cup posted)'
    BY <2>3, <2>4
  <2>6. QED
    BY <2>2, <2>3, <2>4, <2>5
<1>21. CASE SubmitFails
  BY <1>21 DEF SubmitFails
<1>22. CASE LastPoll
  <2>1. Trusted' => Trusted
    BY <1>22 DEF LastPoll
  <2>2. (state = "RUN" /\ client = "idle")' => state = "RUN" /\ client = "idle"
    BY <1>22 DEF LastPoll
  <2>3. QED
    BY <1>22, <2>1, <2>2, ReclaimBlocks DEF LastPoll
<1>23. CASE Leave
  BY <1>23 DEF Leave
<1>24. CASE Exit
  BY <1>24, NoPool DEF Exit
<1>25. CASE DeviceFetch \/ DeviceReturn
  BY <1>25 DEF DeviceFetch, DeviceReturn
<1>26. QED
  BY <1>1, <1>2, <1>3, <1>4, <1>5, <1>6, <1>7, <1>8, <1>9, <1>10, <1>11, <1>12, <1>13,
     <1>14, <1>15, <1>16, <1>17, <1>18, <1>19, <1>20, <1>21, <1>22, <1>23, <1>24, <1>25
  DEF Next, ClientNext, WorkerNext, DeviceNext

-----------------------------------------------------------------------------
(* The start has no block, no worker, and one reference.                   *)
LEMMA IInvInit == ASSUME Init PROVE IInv
<1>1. Places /\ Held /\ Ring /\ Order /\ Agree
  BY CaptureStreamAssumption
     DEF Init, Places, States, ClientPlaces, WorkerPlaces, Held, Client, Worker, Ring, Order,
         Starting, Stopped, Resting, Agree
<1>2. Flags
  BY DEF Init, Flags
<1>3. Blocks
  BY NoPool DEF Init, Blocks, BlocksLive
<1>4. QED
  BY <1>1, <1>2, <1>3 DEF IInv

(* Every step keeps the invariant, also where the execution is not         *)
(* followed any further.                                                   *)
LEMMA IInvStep == ASSUME IInv, [Next]_vars PROVE IInv'
<1>1. CASE UNCHANGED vars
  BY <1>1
     DEF IInv, Places, Flags, Held, Client, Worker, Ring, Order, Trusted, Supervised, Starting,
         Stopped, Resting, Blocks, BlocksLive, Agree, vars, objectVars, poolVars, deviceVars,
         callVars, workerVars
<1>2. CASE ~Undefined /\ (ClientNext \/ WorkerNext \/ DeviceNext) /\ UNCHANGED faults
  BY <1>2, PlacesStep, FlagsStep, HeldStep, RingStep, OrderStep, BlocksStep, AgreeStep DEF IInv
<1>3. QED
  BY <1>1, <1>2 DEF Next

LEMMA IInvAlways == Spec => []IInv
<1>1. IInv /\ [Next]_vars => IInv'
  BY IInvStep
<1>2. QED
  BY <1>1, IInvInit, PTL DEF Spec

(* Every variable stays in its range, and the pool never outgrows its      *)
(* array of VIOSND_CAPTURE_IO_POOL_SIZE entries.  Nothing on the RX ring   *)
(* and nothing in the pool is freed memory.  A block is lost only when     *)
(* capture is faulted, and a run knows how many reads it has in flight     *)
(* (ReclaimCapturePackets, SubmitCapturePacket, FreeCaptureIoPool).        *)
THEOREM BlocksSafe == Spec => []BlocksInv
<1>1. IInv => BlocksInv
  <2> SUFFICES ASSUME IInv PROVE BlocksInv
    OBVIOUS
  <2>1. refs \in 0 .. 2 /\ device \subseteq Ios /\ used \subseteq Ios
    BY DEF IInv, Held, Client, Worker, Ring, Blocks
  <2>2. TypeOK
    BY <2>1 DEF IInv, Places, Flags, Blocks, TypeOK
  <2>3. BlocksLive /\ LostOnlyWhenFaulted /\ ReadsCounted
    BY DEF IInv, Blocks, Trusted, LostOnlyWhenFaulted, ReadsCounted, Flags
  <2>4. QED
    BY <2>2, <2>3 DEF BlocksInv
<1>2. QED
  BY <1>1, IInvAlways, PTL

(* The client and a worker are both at the pool only after the worker was  *)
(* given up, and no stream starts a worker beside another, which is what   *)
(* ViosndCaptureFaulted is for (StopRenderWorker, SetState).               *)
THEOREM OneAtATime == Spec => []OneAtThePool
<1>1. IInv => OneAtThePool
  BY DEF IInv, Flags, Order, Trusted, Starting, Stopped, Resting, OneAtThePool,
         RaceOnlyWhenFaulted, OneWorker, Racing, TwoWorkers
<1>2. QED
  BY <1>1, IInvAlways, PTL

(* No block is taken off the RX ring while the device has it, whatever     *)
(* command, lock or join fails (ViosndDetachUnusedReadPcm).                *)
THEOREM RingRespected == Spec => []NoStray
<1>1. IInv => NoStray
  BY DEF IInv, Ring, NoStray, Stray
<1>2. QED
  BY <1>1, IInvAlways, PTL

(* The stream object is freed by whoever lets go of it last, the client or *)
(* the worker, and not before, over any number of streams (Release).       *)
THEOREM HeldByUsers == Spec => []LivesWhileHeld
<1>1. IInv => LivesWhileHeld
  BY DEF IInv, Flags, Held, Client, Worker, LivesWhileHeld
<1>2. QED
  BY <1>1, IInvAlways, PTL

(* Between the calls of its client, a stream whose commands are carried    *)
(* out records when it runs, and only then (SetState, StartRenderWorker).  *)
THEOREM DeviceAgrees == Spec => []AgreeAtRest
<1>1. IInv => AgreeAtRest
  BY DEF IInv, Flags, Order, Agree, Trusted, AgreeAtRest
<1>2. QED
  BY <1>1, IInvAlways, PTL
=============================================================================

---------------------------- MODULE CaptureStream ---------------------------
(***************************************************************************)
(* A capture stream (CViosndMiniportWaveRTStream with m_Capture in         *)
(* ViosndWaveRT.cpp), and the streams opened after it on the same device:  *)
(* the client that calls SetState, the worker, the io blocks on the RX     *)
(* ring, and ViosndCaptureFaulted, which outlives them all.                *)
(*                                                                         *)
(* Unlike a render stream, it gives a worker up that does not end in time: *)
(* it forgets the thread, marks capture as faulted and goes on.  As in     *)
(* RenderStream no execution is followed past a data race, or once a block *)
(* was taken off the ring under the device (Undefined).                    *)
(*                                                                         *)
(* Which packet a block holds, and what GetReadPacket makes of it, is the  *)
(* subject of CaptureWindow.                                               *)
(***************************************************************************)
EXTENDS Naturals, FiniteSets

CONSTANTS
  Ios,        (* the addresses of io blocks                                 *)
  PoolSize,   (* VIOSND_CAPTURE_IO_POOL_SIZE (8)                            *)
  Target,     (* the most reads in flight (4)                               *)
  RingRoom,   (* packets that fit on the RX ring                            *)
  StopPolls,  (* VIOSND_CAPTURE_STOP_RECLAIM_POLLS (2)                      *)
  Scenarios   (* the sets of faults that are looked at                     *)

(* "command": a control command fails.  "memory": an allocation fails.     *)
(* "thread": no thread is created.  "handle": the new thread's object      *)
(* cannot be referenced.  "slow": the worker outlives the wait for it.     *)
AllFaults == {"command", "memory", "thread", "handle", "slow"}

ASSUME CaptureStreamAssumption ==
  /\ IsFiniteSet(Ios)
  /\ PoolSize \in Nat \ {0}
  /\ Target \in Nat \ {0}
  /\ RingRoom \in Nat \ {0}
  /\ StopPolls \in Nat
  /\ Scenarios \subseteq SUBSET AllFaults

VARIABLES
  faults,       (* what may go wrong: chosen once                           *)
  faulted,      (* ViosndCaptureFaulted, which nothing resets               *)
  state,        (* m_State                                                  *)
  thread,       (* m_ThreadObject # NULL, which is m_WorkerStarted          *)
  stop_event,   (* m_StopEvent                                              *)
  refs,         (* m_RefCount                                               *)
  freed,        (* the stream object is gone                                *)
  buffer,       (* m_Buffer # NULL                                          *)
  allocated,    (* the blocks that are live memory                          *)
  pool,         (* m_CaptureIoPool, m_CaptureIoFreeCount of them            *)
  posted,       (* the blocks whose pointer the RX ring keeps               *)
  inflight,     (* m_CaptureInFlight                                        *)
  pcm,          (* the device records                                       *)
  device,       (* the blocks the device is working on                      *)
  used,         (* the blocks on the used ring                              *)
  client,       (* where SetState or Release is                             *)
  goal,         (* SetState's State                                         *)
  old,          (* SetState's oldState                                      *)
  worker,       (* where the worker is                                      *)
  polls         (* the turns of its last loop                               *)

objectVars == <<refs, freed, buffer>>
poolVars   == <<allocated, pool, posted, inflight>>
deviceVars == <<pcm, device, used>>
callVars   == <<client, goal, old>>
workerVars == <<worker, polls>>
vars == <<faults, faulted, state, thread, stop_event, objectVars, poolVars, deviceVars,
          callVars, workerVars>>

States == {"STOP", "PAUSE", "RUN"}      (* ACQUIRE is treated as PAUSE      *)

Fault(f) == f \in faults

Init ==
  /\ faults \in Scenarios
  /\ faulted = FALSE
  /\ state = "STOP" /\ thread = FALSE /\ stop_event = FALSE
  /\ refs = 1 /\ freed = FALSE /\ buffer = FALSE
  /\ allocated = {} /\ pool = {} /\ posted = {} /\ inflight = 0
  /\ pcm = FALSE /\ device = {} /\ used = {}
  /\ client = "idle" /\ goal = "STOP" /\ old = "STOP"
  /\ worker = "none" /\ polls = 0

-----------------------------------------------------------------------------
(* The io blocks.                                                          *)

(* The counter after S came back: it stops at zero.                        *)
Fewer(S) == IF inflight > Cardinality(S) THEN inflight - Cardinality(S) ELSE 0

(* ReclaimCapturePackets: everything on the used ring; K go to the pool,   *)
(* which has PoolSize places, the rest are freed.                          *)
ReclaimCapturePackets ==
  \E K \in SUBSET used :
    /\ Cardinality(pool) + Cardinality(K) <= PoolSize
    /\ K = used \/ Cardinality(pool) + Cardinality(K) = PoolSize
    /\ pool'      = pool \cup K
    /\ posted'    = posted \ used
    /\ allocated' = allocated \ (used \ K)
    /\ inflight'  = Fewer(used)
    /\ used'      = {}
    /\ UNCHANGED <<pcm, device>>

(* FreeCaptureIoPool: nothing is freed while reads are in flight.          *)
FreePool(reads) ==
  /\ pool'      = IF reads = 0 THEN {} ELSE pool
  /\ allocated' = IF reads = 0 THEN allocated \ pool ELSE allocated

(* AllocateCaptureIoPool: a pool that is not empty will do.                *)
AllocateCaptureIoPool ==
  \/ pool # {} /\ UNCHANGED poolVars
  \/ /\ pool = {} /\ buffer
     /\ \E A \in SUBSET (Ios \ allocated) :
          /\ Cardinality(A) = PoolSize
          /\ pool' = A
          /\ allocated' = allocated \cup A
     /\ UNCHANGED <<posted, inflight>>

(* Without an audio buffer there is no packet size.  What was allocated    *)
(* before an allocation failed is freed: the run has no read in flight yet.*)
AllocationFails ==
  /\ pool = {}
  /\ ~buffer \/ Fault("memory")
  /\ UNCHANGED poolVars

-----------------------------------------------------------------------------
(* The client: SetState, the audio buffer, the last Release.               *)

Return == client' = "idle" /\ goal' = "STOP" /\ old' = "STOP"

(* Mistaken: a device that is faulted records again.                       *)
Mut_SetStateRun ==
  /\ client = "idle"
  /\ state # "RUN"
  /\ client' = "reset" /\ goal' = "RUN" /\ old' = state
  /\ UNCHANGED <<faulted, state, thread, stop_event, objectVars, poolVars, deviceVars,
                 workerVars>>

(* SetState(RUN), which a faulted device rejects at once.                  *)
SetStateRun ==
  /\ client = "idle"
  /\ state # "RUN"
  /\ ~faulted
  /\ client' = "reset" /\ goal' = "RUN" /\ old' = state
  /\ UNCHANGED <<faulted, state, thread, stop_event, objectVars, poolVars, deviceVars,
                 workerVars>>

(* The counters of the run start anew.                                     *)
Reset ==
  /\ client = "reset"
  /\ inflight' = 0
  /\ client' = "configure"
  /\ UNCHANGED <<faulted, state, thread, stop_event, objectVars, allocated, pool, posted,
                 deviceVars, goal, old, workerVars>>

(* ViosndConfigureDefaultPcm, ViosndStartPcm; m_State = RUN comes before   *)
(* the worker.  A command that fails may yet have reached the device.      *)
Configure ==
  /\ client = "configure"
  /\ \/ client' = "start" /\ UNCHANGED <<goal, old>>
     \/ Fault("command") /\ Return
  /\ UNCHANGED <<faulted, state, thread, stop_event, objectVars, poolVars, deviceVars,
                 workerVars>>

Start ==
  /\ client = "start"
  /\ \/ pcm' = TRUE /\ state' = "RUN" /\ client' = "launch" /\ UNCHANGED <<goal, old>>
     \/ Fault("command") /\ pcm' \in {pcm, TRUE} /\ Return /\ UNCHANGED state
  /\ UNCHANGED <<faulted, thread, stop_event, objectVars, poolVars, device, used,
                 workerVars>>

(* Mistaken: the worker has no reference of its own.                       *)
Mut_Launch ==
  /\ client = "launch"
  /\ AllocateCaptureIoPool
  /\ thread' = TRUE /\ stop_event' = FALSE
  /\ worker' = "top" /\ polls' = 0
  /\ Return
  /\ UNCHANGED <<faulted, state, objectVars, deviceVars>>

(* StartRenderWorker: the pool, then the thread with its own reference.    *)
Launch ==
  /\ client = "launch"
  /\ AllocateCaptureIoPool
  /\ thread' = TRUE /\ stop_event' = FALSE
  /\ refs' = refs + 1
  /\ worker' = "top" /\ polls' = 0
  /\ Return
  /\ UNCHANGED <<faulted, state, freed, buffer, deviceVars>>

(* It fails for want of memory, of a thread, or of the thread's object: in *)
(* the last case the worker may have begun before it is told to stop.      *)
LaunchFails ==
  /\ client = "launch"
  /\ \/ AllocationFails /\ UNCHANGED <<stop_event, refs, workerVars>>
     \/ /\ Fault("thread")
        /\ AllocateCaptureIoPool
        /\ stop_event' = FALSE
        /\ UNCHANGED <<refs, workerVars>>
     \/ /\ Fault("handle")
        /\ AllocateCaptureIoPool
        /\ stop_event' = TRUE /\ refs' = refs + 1
        /\ worker' \in {"top", "reclaim"} /\ polls' = 0
  /\ client' = "withdraw"
  /\ UNCHANGED <<faulted, state, thread, freed, buffer, deviceVars, goal, old>>

(* Mistaken: the device goes on recording.                                 *)
Mut_Withdraw ==
  /\ client = "withdraw"
  /\ state' = old
  /\ Return
  /\ UNCHANGED <<faulted, thread, stop_event, objectVars, poolVars, deviceVars, workerVars>>

(* ViosndStopPcm only: the pool stays for the next attempt.                *)
Withdraw ==
  /\ client = "withdraw"
  /\ pcm' = FALSE \/ (Fault("command") /\ UNCHANGED pcm)
  /\ state' = old
  /\ Return
  /\ UNCHANGED <<faulted, thread, stop_event, objectVars, poolVars, device, used,
                 workerVars>>

(* SetState to PAUSE or STOP from RUN.                                     *)
SetStateDown ==
  /\ client = "idle"
  /\ state = "RUN"
  /\ goal' \in States \ {"RUN"}
  /\ state' = goal' /\ old' = state
  /\ IF thread THEN client' = "join" /\ stop_event' = TRUE
               ELSE client' = "release" /\ UNCHANGED stop_event
  /\ UNCHANGED <<faulted, thread, objectVars, poolVars, deviceVars, workerVars>>

(* The last branch of SetState.                                            *)
SetStateOther ==
  /\ client = "idle"
  /\ state # "RUN"
  /\ state' \in States \ {"RUN", state}
  /\ UNCHANGED <<faulted, thread, stop_event, objectVars, poolVars, deviceVars,
                 callVars, workerVars>>

(* StopRenderWorker, called by SetState and by Release.                    *)
AfterJoin == IF client = "join" THEN "release" ELSE "drop"

Join ==
  /\ client \in {"join", "close"}
  /\ worker = "none"
  /\ thread' = FALSE
  /\ FreePool(inflight)
  /\ client' = AfterJoin
  /\ UNCHANGED <<faulted, state, stop_event, objectVars, posted, inflight, deviceVars,
                 goal, old, workerVars>>

(* The wait of 50 ms expired: the worker is given up.                      *)
JoinTimesOut ==
  /\ Fault("slow")
  /\ client \in {"join", "close"}
  /\ worker # "none"
  /\ faulted' = TRUE /\ thread' = FALSE
  /\ client' = AfterJoin
  /\ UNCHANGED <<state, stop_event, objectVars, poolVars, deviceVars, goal, old,
                 workerVars>>

(* ViosndReleasePcm: before it answers, the device returns every block.    *)
Released == pcm' = FALSE /\ used' = posted /\ device' = {}

(* Mistaken: after a RELEASE that failed the ring is drained all the same. *)
Mut_Release_Drains ==
  /\ client = "release"
  /\ \/ Released
     \/ Fault("command") /\ pcm' \in {pcm, FALSE} /\ UNCHANGED <<device, used>>
  /\ client' = "drain"
  /\ UNCHANGED <<faulted, state, thread, stop_event, objectVars, poolVars, goal, old,
                 workerVars>>

(* Mistaken: capture is not marked as faulted.                             *)
Mut_Release_Forgets ==
  /\ client = "release"
  /\ \/ Released /\ client' = "drain" /\ UNCHANGED <<goal, old>>
     \/ Fault("command") /\ UNCHANGED deviceVars /\ Return
  /\ UNCHANGED <<faulted, state, thread, stop_event, objectVars, poolVars, workerVars>>

(* When it fails, though it may yet have reached the device, the ring is   *)
(* left alone and capture is faulted.                                      *)
Release ==
  /\ client = "release"
  /\ \/ Released /\ client' = "drain" /\ UNCHANGED <<faulted, goal, old>>
     \/ /\ Fault("command")
        /\ Released \/ (pcm' \in {pcm, FALSE} /\ UNCHANGED <<device, used>>)
        /\ faulted' = TRUE
        /\ Return
  /\ UNCHANGED <<state, thread, stop_event, objectVars, poolVars, workerVars>>

Drain ==
  /\ client = "drain"
  /\ ReclaimCapturePackets
  /\ client' = "detach"
  /\ UNCHANGED <<faulted, state, thread, stop_event, objectVars, goal, old, workerVars>>

(* ViosndDetachUnusedReadPcm frees what is left on the ring, and           *)
(* FreeCaptureIoPool the pool.                                             *)
Detach ==
  /\ client = "detach"
  /\ posted' = {} /\ inflight' = 0
  /\ pool' = {} /\ allocated' = allocated \ (posted \cup pool)
  /\ client' = "prepare"
  /\ UNCHANGED <<faulted, state, thread, stop_event, objectVars, deviceVars, goal, old,
                 workerVars>>

(* ViosndConfigureDefaultPcm, for the next run.  The call succeeds however *)
(* much went wrong.                                                        *)
Prepare ==
  /\ client = "prepare"
  /\ \/ UNCHANGED faulted
     \/ Fault("command") /\ faulted' = TRUE
  /\ Return
  /\ UNCHANGED <<state, thread, stop_event, objectVars, poolVars, deviceVars,
                 workerVars>>

(* The port allocates the audio buffer of a stopped stream, and frees it,  *)
(* or closes the stream, when that does not run.                           *)
AllocateAudioBuffer ==
  /\ client = "idle"
  /\ state = "STOP" /\ ~buffer
  /\ buffer' = TRUE
  /\ UNCHANGED <<faulted, state, thread, stop_event, refs, freed, poolVars, deviceVars,
                 callVars, workerVars>>

Unmap ==
  /\ client = "idle"
  /\ state # "RUN" /\ buffer
  /\ client' = "unmap"
  /\ UNCHANGED <<faulted, state, thread, stop_event, objectVars, poolVars, deviceVars,
                 goal, old, workerVars>>

(* FreeAudioBuffer: the pool is kept while reads are in flight.            *)
FreeAudioBuffer ==
  /\ client = "unmap"
  /\ FreePool(inflight)
  /\ buffer' = FALSE
  /\ client' = "idle"
  /\ UNCHANGED <<faulted, state, thread, stop_event, refs, freed, posted, inflight,
                 deviceVars, goal, old, workerVars>>

Close ==
  /\ client = "idle"
  /\ state # "RUN"
  /\ client' = IF thread THEN "close" ELSE "drop"
  /\ stop_event' = (stop_event \/ thread)
  /\ UNCHANGED <<faulted, state, thread, objectVars, poolVars, deviceVars, goal, old,
                 workerVars>>

(* The end of Release: the last reference frees the stream, and the pool   *)
(* with it unless reads are in flight, in which case nobody ever will.     *)
Dereference ==
  /\ refs' = refs - 1
  /\ IF refs = 1
     THEN /\ freed' = TRUE /\ thread' = FALSE /\ buffer' = FALSE
          /\ pool' = {}
          /\ allocated' = IF inflight = 0 THEN allocated \ pool ELSE allocated
          /\ UNCHANGED <<posted, inflight>>
     ELSE UNCHANGED <<freed, thread, buffer, poolVars>>
  /\ UNCHANGED deviceVars

Drop ==
  /\ client = "drop"
  /\ Dereference
  /\ client' = "gone"
  /\ UNCHANGED <<faulted, state, stop_event, goal, old, workerVars>>

(* The port opens the next stream, when this one is gone for good; what is *)
(* on the ring stays there.                                                *)
NewStream ==
  /\ client = "gone" /\ freed
  /\ state' = "STOP" /\ stop_event' = FALSE
  /\ refs' = 1 /\ freed' = FALSE /\ inflight' = 0 /\ polls' = 0
  /\ client' = "idle"
  /\ UNCHANGED <<faulted, thread, buffer, allocated, pool, posted, deviceVars, goal, old,
                 worker>>

-----------------------------------------------------------------------------
(* The worker: CaptureWorkerLoop.                                          *)

WorkerGoes(from, to) == worker = from /\ worker' = to

streamVars == <<faulted, state, thread, stop_event, objectVars, callVars>>

(* While m_State is RUN it waits for the stop event, 1 ms at a time.       *)
Wake ==
  /\ WorkerGoes("top", IF state # "RUN" \/ stop_event THEN "exit" ELSE "reclaim")
  /\ UNCHANGED <<streamVars, poolVars, deviceVars, polls>>

Reclaim ==
  /\ WorkerGoes("reclaim", IF buffer THEN "submit" ELSE "top")
  /\ ReclaimCapturePackets
  /\ UNCHANGED <<streamVars, polls>>

(* The condition of the submit loop; it is not looked at again before      *)
(* the block is posted.                                                    *)
Wanted ==
  /\ WorkerGoes("submit", IF state = "RUN" /\ inflight < Target THEN "post" ELSE "top")
  /\ UNCHANGED <<streamVars, poolVars, deviceVars, polls>>

(* SubmitCapturePacket.                                                    *)
SubmitCapturePacket ==
  /\ WorkerGoes("post", "submit")
  /\ buffer
  /\ Cardinality(posted) < RingRoom
  /\ \E io \in pool : pool' = pool \ {io} /\ posted' = posted \cup {io}
  /\ inflight' = inflight + 1
  /\ UNCHANGED <<streamVars, allocated, deviceVars, polls>>

SubmitFails ==
  /\ WorkerGoes("post", "top")
  /\ ~buffer \/ pool = {} \/ Cardinality(posted) >= RingRoom
  /\ UNCHANGED <<streamVars, poolVars, deviceVars, polls>>

(* Mistaken: it waits until every read is back.                            *)
Mut_LastPoll ==
  /\ worker = "exit"
  /\ inflight # 0
  /\ ReclaimCapturePackets
  /\ UNCHANGED <<streamVars, worker, polls>>

(* Told to stop, it looks for late reads StopPolls times.                  *)
LastPoll ==
  /\ worker = "exit"
  /\ polls < StopPolls /\ inflight # 0
  /\ ReclaimCapturePackets
  /\ polls' = polls + 1
  /\ UNCHANGED <<streamVars, worker>>

Leave ==
  /\ WorkerGoes("exit", "leave")
  /\ polls >= StopPolls \/ inflight = 0
  /\ UNCHANGED <<streamVars, poolVars, deviceVars, polls>>

(* ViosndRenderThread: Release on the worker's own thread.                 *)
Exit ==
  /\ WorkerGoes("leave", "none")
  /\ Dereference
  /\ UNCHANGED <<faulted, state, stop_event, callVars, polls>>

-----------------------------------------------------------------------------
(* The device (external).                                                  *)
DeviceFetch ==
  /\ \E io \in posted \ (device \cup used) : device' = device \cup {io}
  /\ UNCHANGED <<streamVars, poolVars, workerVars, pcm, used>>

DeviceReturn ==
  /\ \E io \in device : device' = device \ {io} /\ used' = used \cup {io}
  /\ UNCHANGED <<streamVars, poolVars, workerVars, pcm>>

-----------------------------------------------------------------------------
(* Both threads are about to touch the pool and the counter.               *)
Racing ==
  /\ client \in {"reset", "launch", "drain", "detach", "unmap"}
  /\ worker \in {"reclaim", "submit", "post", "exit"}

(* A second worker is about to be started beside one that still runs.      *)
TwoWorkers == client = "launch" /\ worker # "none"

(* The device has blocks that were taken off the ring.                     *)
Stray == ~ (device \cup used \subseteq posted)

Undefined == Racing \/ TwoWorkers \/ Stray

ClientNext == \/ SetStateRun \/ Reset \/ Configure \/ Start \/ Launch \/ LaunchFails
              \/ Withdraw \/ SetStateDown \/ SetStateOther \/ Join \/ JoinTimesOut
              \/ Release \/ Drain \/ Detach \/ Prepare
              \/ AllocateAudioBuffer \/ Unmap \/ FreeAudioBuffer \/ Close \/ Drop
              \/ NewStream

WorkerNext == \/ Wake \/ Reclaim \/ Wanted \/ SubmitCapturePacket \/ SubmitFails
              \/ LastPoll \/ Leave \/ Exit

DeviceNext == DeviceFetch \/ DeviceReturn

Next == \/ ~Undefined /\ (ClientNext \/ WorkerNext \/ DeviceNext) /\ UNCHANGED faults
        \/ Undefined /\ UNCHANGED vars

Spec == Init /\ [][Next]_vars

(* The system schedules the worker.                                        *)
FairSpec == Spec /\ WF_vars(~Undefined /\ WorkerNext /\ UNCHANGED faults)

-----------------------------------------------------------------------------
ClientPlaces == {"idle", "reset", "configure", "start", "launch", "withdraw", "join",
                 "release", "drain", "detach", "prepare", "unmap", "close", "drop",
                 "gone"}
WorkerPlaces == {"none", "top", "reclaim", "submit", "post", "exit", "leave"}

(* The type invariant; the pool never holds more blocks than its array has *)
(* places, which ReclaimCapturePackets sees to.                            *)
TypeOK ==
  /\ faults \in Scenarios
  /\ state \in States /\ goal \in States /\ old \in States
  /\ {faulted, thread, stop_event, freed, buffer, pcm} \subseteq BOOLEAN
  /\ refs \in 0 .. 2 /\ inflight \in Nat /\ polls \in 0 .. StopPolls
  /\ client \in ClientPlaces /\ worker \in WorkerPlaces
  /\ {allocated, pool, posted, device, used} \subseteq SUBSET Ios
  /\ Cardinality(pool) <= PoolSize

(* Nothing on the RX ring was freed, and nothing in the pool: the device   *)
(* and the worker never write into memory that is not theirs.              *)
BlocksLive ==
  /\ pool \cap posted = {}
  /\ pool \cup posted \subseteq allocated

(* No worker runs whose thread object nobody has.                          *)
Supervised == "handle" \notin faults

(* A block that neither the pool nor the ring knows of is lost for good:   *)
(* that happens only with a stream that was closed when capture had        *)
(* already failed.                                                         *)
LostOnlyWhenFaulted ==
  (Supervised /\ ~faulted) => allocated \subseteq pool \cup posted

(* m_CaptureInFlight is exact while the stream runs: it starts with an     *)
(* empty ring, whatever became of the streams before it.                   *)
ReadsCounted ==
  (Supervised /\ state = "RUN" /\ client = "idle") => inflight = Cardinality(posted)

(* Every io block is where it belongs, and counted, over any number of     *)
(* streams on the device.                                                  *)
BlocksInv == TypeOK /\ BlocksLive /\ LostOnlyWhenFaulted /\ ReadsCounted

(* The client and a worker are both at the pool only after the worker was  *)
(* given up, and capture with it.                                          *)
RaceOnlyWhenFaulted == (Supervised /\ Racing) => faulted

(* No stream starts a worker beside another, not even beside one that was  *)
(* given up.                                                               *)
OneWorker == Supervised => ~TwoWorkers

(* The pool and the RX ring have no lock: one thread at a time uses them.  *)
OneAtThePool == RaceOnlyWhenFaulted /\ OneWorker

(* No block is taken off the ring while the device has it.                 *)
NoStray == ~Stray

(* As long as it carries out every command, a device that is not faulted   *)
(* records while a stream runs, and no longer.                             *)
AgreeAtRest ==
  (Supervised /\ "command" \notin faults /\ ~faulted /\ client \in {"idle", "gone"})
    => pcm = (state = "RUN")

(* The stream lives until the client and the worker are both done with it, *)
(* whichever of them is the last, and no longer.                           *)
LivesWhileHeld == freed <=> (client = "gone" /\ worker = "none")

(* A worker told to stop ends, even if the device returns nothing.         *)
WorkerStops == (stop_event /\ worker # "none") ~> (worker = "none" \/ Undefined)
=============================================================================

---------------------------- MODULE RenderStream ----------------------------
(***************************************************************************)
(* A render stream (CViosndMiniportWaveRTStream in ViosndWaveRT.cpp): the  *)
(* thread that calls SetState and finally releases the stream, the worker  *)
(* thread it starts and joins, and the packets' io blocks as they move     *)
(* between the stream's pool, the TX ring and the device.                  *)
(*                                                                         *)
(* The stream has no lock.  SetState and the worker keep apart only        *)
(* because SetState waits for the worker to end, and that wait times out.  *)
(* Where both are about to touch the same fields the program has a data    *)
(* race, and the model follows no execution further (Undefined); the same  *)
(* goes for a block that was taken off the ring under the device.          *)
(*                                                                         *)
(* Which packet a block carries, the stream's position and its clock are   *)
(* left out.  A control command is one step with either outcome: its       *)
(* inside is ControlQueue.  The TX ring is used under its mutex: SplitRing *)
(* shows the inside.                                                       *)
(***************************************************************************)
EXTENDS Naturals, FiniteSets

CONSTANTS
  Ios,             (* the addresses of io blocks                            *)
  PoolSize,        (* VIOSND_RENDER_IO_POOL_SIZE (12)                       *)
  Preroll,         (* VIOSND_RENDER_START_PREROLL_PACKETS (2)               *)
  Target,          (* the most packets outstanding (8)                      *)
  FallbackTarget,  (* the same in the fallback format (2)                   *)
  RingRoom,        (* packets that fit on the TX ring                       *)
  Scenarios        (* the sets of faults that are looked at                 *)

(* "command": a control command fails.  "memory": an allocation fails.     *)
(* "thread": no thread is created.  "handle": the new thread's object      *)
(* cannot be referenced.  "slow": the worker outlives the wait for it.     *)
(* "mutex": the TX mutex is not had within 100 ms.                         *)
AllFaults == {"command", "memory", "thread", "handle", "slow", "mutex"}

ASSUME RenderStreamAssumption ==
  /\ IsFiniteSet(Ios)
  /\ PoolSize \in Nat \ {0}
  /\ Preroll \in Nat \ {0}
  /\ Target \in Nat \ {0}
  /\ FallbackTarget \in Nat \ {0}
  /\ RingRoom \in Nat \ {0}
  /\ Scenarios \subseteq SUBSET AllFaults

VARIABLES
  faults,       (* what may go wrong: chosen once                           *)
  state,        (* m_State                                                  *)
  thread,       (* m_ThreadObject # NULL, which is m_WorkerStarted          *)
  stop_event,   (* m_StopEvent                                              *)
  refs,         (* m_RefCount                                               *)
  freed,        (* the stream object is gone                                *)
  buffer,       (* m_Buffer # NULL: the port has allocated the audio buffer *)
  attempted,    (* m_RenderFallbackAttempted                                *)
  fallback,     (* m_RenderFallbackActive                                   *)
  allocated,    (* the blocks that are live memory                          *)
  pool,         (* m_RenderIoPool, m_RenderIoFreeCount of them              *)
  posted,       (* the blocks whose pointer the TX ring keeps               *)
  outstanding,  (* m_OutstandingWrites                                      *)
  pcm,          (* the device plays the stream                              *)
  device,       (* the blocks the device is working on                      *)
  used,         (* the blocks on the used ring                              *)
  client,       (* where SetState or Release is                             *)
  goal,         (* SetState's State                                         *)
  old,          (* SetState's oldState                                      *)
  joined,       (* its workerStopped, kept until the next call              *)
  worker,       (* where the worker is                                      *)
  status        (* whether its StopPcm or ReleasePcm of the switch failed   *)

objectVars == <<refs, freed, buffer>>
modeVars   == <<attempted, fallback>>
poolVars   == <<allocated, pool, posted, outstanding>>
deviceVars == <<pcm, device, used>>
callVars   == <<client, goal, old, joined>>
workerVars == <<worker, status>>
vars == <<faults, state, thread, stop_event, objectVars, modeVars, poolVars,
          deviceVars, callVars, workerVars>>

States == {"STOP", "PAUSE", "RUN"}      (* ACQUIRE is treated as PAUSE      *)

Fault(f) == f \in faults

(* The stream is new.                                                      *)
Init ==
  /\ faults \in Scenarios
  /\ state = "STOP" /\ thread = FALSE /\ stop_event = FALSE
  /\ refs = 1 /\ freed = FALSE /\ buffer = FALSE
  /\ attempted = FALSE /\ fallback = FALSE
  /\ allocated = {} /\ pool = {} /\ posted = {} /\ outstanding = 0
  /\ pcm = FALSE /\ device = {} /\ used = {}
  /\ client = "idle" /\ goal = "STOP" /\ old = "STOP" /\ joined = TRUE
  /\ worker = "none" /\ status = TRUE

-----------------------------------------------------------------------------
(* The io blocks.                                                          *)

(* The counter after S came back: it stops at zero.                        *)
Fewer(S) == IF outstanding > Cardinality(S) THEN outstanding - Cardinality(S) ELSE 0

(* Mistaken: a block for which the pool has no place is not freed.         *)
Mut_Settle_Leak(S, K) ==
  /\ K \subseteq S
  /\ Cardinality(pool) + Cardinality(K) <= PoolSize
  /\ K = S \/ Cardinality(pool) + Cardinality(K) = PoolSize
  /\ posted' = posted \ S /\ pool' = pool \cup K
  /\ UNCHANGED allocated
  /\ outstanding' = Fewer(S)

(* The blocks S are off the ring: K go to the pool, which has PoolSize     *)
(* places, the rest are freed.                                             *)
Settle(S, K) ==
  /\ K \subseteq S
  /\ Cardinality(pool) + Cardinality(K) <= PoolSize
  /\ K = S \/ Cardinality(pool) + Cardinality(K) = PoolSize
  /\ posted'      = posted \ S
  /\ pool'        = pool \cup K
  /\ allocated'   = allocated \ (S \ K)
  /\ outstanding' = Fewer(S)

(* ReclaimRenderPackets: everything on the used ring, or less if the TX    *)
(* mutex is not had.                                                       *)
ReclaimRenderPackets ==
  \E S \in SUBSET used, K \in SUBSET used :
    /\ S = used \/ Fault("mutex")
    /\ Settle(S, K)
    /\ used' = used \ S
    /\ UNCHANGED <<pcm, device>>

(* The second half of CancelRenderWrites: while the counter is not zero,   *)
(* take back the next block whose pointer the ring keeps, be it with the   *)
(* device or even returned.                                                *)
DetachUnused ==
  \E D \in SUBSET posted, K \in SUBSET posted :
    /\ \/ Cardinality(D) = outstanding
       \/ D = posted /\ Cardinality(D) <= outstanding
       \/ Fault("mutex") /\ Cardinality(D) <= outstanding
    /\ Settle(D, K)
    /\ UNCHANGED deviceVars

(* FreeRenderIoPool: nothing is freed while writes are outstanding.        *)
FreePool(writes) ==
  /\ pool'      = IF writes = 0 THEN {} ELSE pool
  /\ allocated' = IF writes = 0 THEN allocated \ pool ELSE allocated

FreeRenderIoPool ==
  /\ FreePool(outstanding)
  /\ UNCHANGED <<posted, outstanding, deviceVars>>

(* AllocateRenderIoPool: a pool that is not empty will do.                 *)
AllocateRenderIoPool ==
  \/ pool # {} /\ UNCHANGED poolVars
  \/ /\ pool = {} /\ buffer
     /\ \E A \in SUBSET (Ios \ allocated) :
          /\ Cardinality(A) = PoolSize
          /\ pool' = A
          /\ allocated' = allocated \cup A
     /\ UNCHANGED <<posted, outstanding>>

(* Without an audio buffer there is no packet size.  When the allocation   *)
(* of a block fails, those of this call are freed, unless writes are       *)
(* outstanding.                                                            *)
AllocationFails ==
  /\ pool = {}
  /\ ~buffer \/ Fault("memory")
  /\ \E A \in SUBSET (Ios \ allocated) :
       /\ Cardinality(A) < PoolSize
       /\ (outstanding = 0 \/ ~buffer) => A = {}
       /\ pool' = A
       /\ allocated' = allocated \cup A
  /\ UNCHANGED <<posted, outstanding>>

(* SubmitRenderPacket and SubmitRenderSilencePacket, when they succeed.    *)
Submit ==
  /\ buffer
  /\ Cardinality(posted) < RingRoom
  /\ \E io \in pool : pool' = pool \ {io} /\ posted' = posted \cup {io}
  /\ outstanding' = outstanding + 1
  /\ UNCHANGED <<allocated, deviceVars>>

SubmitFails == \/ ~buffer \/ pool = {}
               \/ Cardinality(posted) >= RingRoom \/ Fault("mutex")

-----------------------------------------------------------------------------
(* The client: SetState, the audio buffer and the last Release.            *)

Return == client' = "idle" /\ old' = "STOP" /\ goal' = "STOP"

(* SetState(RUN): the run's own fields are reset.                          *)
SetStateRun ==
  /\ client = "idle"
  /\ state # "RUN"
  /\ goal' = "RUN" /\ old' = state /\ joined' = TRUE
  /\ attempted' = FALSE /\ fallback' = FALSE
  /\ client' = "configure"
  /\ UNCHANGED <<state, thread, stop_event, objectVars, poolVars, deviceVars,
                 workerVars>>

(* ViosndConfigureDefaultPcm.                                              *)
Configure ==
  /\ client = "configure"
  /\ \/ client' = "allocate"
     \/ Fault("command") /\ client' = "cancel"
  /\ UNCHANGED <<state, thread, stop_event, objectVars, modeVars, poolVars,
                 deviceVars, goal, old, joined, workerVars>>

Allocate ==
  /\ client = "allocate"
  /\ \/ AllocateRenderIoPool /\ client' = "preroll"
     \/ AllocationFails /\ client' = "cancel"
  /\ UNCHANGED <<state, thread, stop_event, objectVars, modeVars, deviceVars,
                 goal, old, joined, workerVars>>

(* Silence is queued until Preroll writes are outstanding; nobody reclaims *)
(* meanwhile, so the count of packets left adds nothing.                   *)
PrerollPacket ==
  /\ client = "preroll"
  /\ outstanding < Preroll
  /\ \/ Submit /\ UNCHANGED client
     \/ SubmitFails /\ client' = "cancel" /\ UNCHANGED <<poolVars, deviceVars>>
  /\ UNCHANGED <<state, thread, stop_event, objectVars, modeVars, goal, old, joined,
                 workerVars>>

Prerolled ==
  /\ client = "preroll"
  /\ outstanding >= Preroll
  /\ client' = "start"
  /\ UNCHANGED <<state, thread, stop_event, objectVars, modeVars, poolVars,
                 deviceVars, goal, old, joined, workerVars>>

(* ViosndStartPcm; a command that fails may yet have reached the device.   *)
Started    == pcm' = TRUE /\ UNCHANGED <<device, used>>
NotStarted == Fault("command") /\ pcm' \in {pcm, TRUE} /\ UNCHANGED <<device, used>>

(* m_State = RUN before the worker exists.                                 *)
Start ==
  /\ client = "start"
  /\ \/ Started /\ client' = "launch" /\ state' = "RUN"
     \/ NotStarted /\ client' = "cancel" /\ UNCHANGED state
  /\ UNCHANGED <<thread, stop_event, objectVars, modeVars, poolVars, goal, old,
                 joined, workerVars>>

(* Mistaken: the worker has no reference of its own.                       *)
Mut_Launch ==
  /\ client = "launch"
  /\ AllocateRenderIoPool
  /\ thread' = TRUE /\ stop_event' = FALSE
  /\ worker' = "wait"
  /\ Return
  /\ UNCHANGED <<state, objectVars, joined, modeVars, deviceVars, status>>

(* StartRenderWorker: the pool, then the thread with its own reference.    *)
Launch ==
  /\ client = "launch"
  /\ AllocateRenderIoPool
  /\ thread' = TRUE /\ stop_event' = FALSE
  /\ refs' = refs + 1
  /\ worker' = "wait"
  /\ Return
  /\ UNCHANGED <<state, freed, buffer, joined, modeVars, deviceVars, status>>

(* It fails for want of memory, of a thread, or of the thread's object: in *)
(* the last case the worker may have begun before it is told to stop.      *)
LaunchFails ==
  /\ client = "launch"
  /\ \/ AllocationFails /\ UNCHANGED <<stop_event, refs, worker>>
     \/ /\ Fault("thread")
        /\ AllocateRenderIoPool
        /\ stop_event' = FALSE
        /\ UNCHANGED <<refs, worker>>
     \/ /\ Fault("handle")
        /\ AllocateRenderIoPool
        /\ stop_event' = TRUE /\ refs' = refs + 1 /\ worker' \in {"wait", "reclaim"}
  /\ client' = "withdraw"
  /\ UNCHANGED <<state, thread, freed, buffer, modeVars, deviceVars, goal, old, joined,
                 status>>

(* ViosndStopPcm, ViosndReleasePcm: before it answers RELEASE, the device  *)
(* returns every block that was posted.                                    *)
Released    == pcm' = FALSE /\ used' = posted /\ device' = {}
NotReleased == Fault("command") /\ pcm' \in {pcm, FALSE} /\ UNCHANGED <<device, used>>

(* Mistaken: the stream stays in RUN although its worker did not start.    *)
Mut_Withdraw ==
  /\ client = "withdraw"
  /\ Released \/ NotReleased
  /\ old' = state
  /\ client' = "cancel"
  /\ UNCHANGED <<state, thread, stop_event, objectVars, modeVars, poolVars, goal,
                 joined, workerVars>>

(* After the launch failed; what the commands return is ignored.           *)
Withdraw ==
  /\ client = "withdraw"
  /\ Released \/ NotReleased
  /\ state' = old
  /\ client' = "cancel"
  /\ UNCHANGED <<thread, stop_event, objectVars, modeVars, poolVars, goal, old,
                 joined, workerVars>>

(* SetState to PAUSE or STOP from RUN.                                     *)
SetStateDown ==
  /\ client = "idle"
  /\ state = "RUN"
  /\ goal' \in States \ {"RUN"}
  /\ state' = goal' /\ old' = state /\ joined' = TRUE
  /\ IF thread THEN client' = "join" /\ stop_event' = TRUE
               ELSE client' = "stop" /\ UNCHANGED stop_event
  /\ UNCHANGED <<thread, objectVars, modeVars, poolVars, deviceVars, workerVars>>

(* The last branch of SetState: RUN again, or any other change of state.   *)
SetStateOther ==
  /\ client = "idle"
  /\ \/ state = "RUN" /\ state' = "RUN"
     \/ state # "RUN" /\ state' \in States \ {"RUN"}
  /\ UNCHANGED <<thread, stop_event, objectVars, modeVars, poolVars, deviceVars,
                 callVars, workerVars>>

(* Where a join leads: the first one to the device's STOP, the second one, *)
(* made when the first timed out, to the clean-up, that of Release to the  *)
(* end.                                                                    *)
AfterJoin == IF client = "join" THEN "stop"
             ELSE IF client = "rejoin" THEN "cancel" ELSE "drop"

(* Mistaken: the worker is told to stop but not waited for.                *)
Mut_Join ==
  /\ client \in {"join", "rejoin", "close"}
  /\ joined' = TRUE
  /\ client' = AfterJoin
  /\ UNCHANGED <<state, thread, stop_event, objectVars, modeVars, poolVars,
                 deviceVars, goal, old, workerVars>>

(* StopRenderWorker, the worker having ended.                              *)
Join ==
  /\ client \in {"join", "rejoin", "close"}
  /\ worker = "none"
  /\ thread' = FALSE
  /\ joined' = TRUE
  /\ FreeRenderIoPool
  /\ client' = AfterJoin
  /\ UNCHANGED <<state, stop_event, objectVars, modeVars, goal, old, workerVars>>

(* StopRenderWorker, the wait of 250 ms having expired.                    *)
JoinTimesOut ==
  /\ Fault("slow")
  /\ client \in {"join", "rejoin", "close"}
  /\ worker # "none"
  /\ joined' = FALSE
  /\ client' = AfterJoin
  /\ UNCHANGED <<state, thread, stop_event, objectVars, modeVars, poolVars,
                 deviceVars, goal, old, workerVars>>

(* Mistaken: the device is not asked to release the stream.                *)
Mut_StopAndRelease ==
  /\ client = "stop"
  /\ client' = IF joined THEN "cancel" ELSE "rejoin"
  /\ UNCHANGED <<state, thread, stop_event, objectVars, modeVars, poolVars,
                 deviceVars, goal, old, joined, workerVars>>

(* ViosndStopPcm and ViosndReleasePcm; SetState goes on either way.        *)
StopAndRelease ==
  /\ client = "stop"
  /\ Released \/ NotReleased
  /\ client' = IF joined THEN "cancel" ELSE "rejoin"
  /\ UNCHANGED <<state, thread, stop_event, objectVars, modeVars, poolVars, goal,
                 old, joined, workerVars>>

(* CancelRenderWrites, its two halves, ...                                 *)
Cancel ==
  /\ client = "cancel"
  /\ ReclaimRenderPackets
  /\ client' = "detach"
  /\ UNCHANGED <<state, thread, stop_event, objectVars, modeVars, goal, old, joined,
                 workerVars>>

Detach ==
  /\ client = "detach"
  /\ DetachUnused
  /\ client' = "free"
  /\ UNCHANGED <<state, thread, stop_event, objectVars, modeVars, goal, old, joined,
                 workerVars>>

(* ... FreeRenderIoPool, and the end of SetState.  A call that failed goes *)
(* back to the state before: a run that could not start, a stop whose      *)
(* worker still runs (DEVICE_BUSY).  A stop from RUN that worked forgets   *)
(* whatever the counter says.                                              *)
Failed == goal = "RUN" \/ ~joined

Finish ==
  /\ client = "free"
  /\ FreePool(outstanding)
  /\ state' = IF Failed THEN old ELSE state
  /\ IF ~Failed /\ goal = "STOP"
     THEN outstanding' = 0 /\ attempted' = FALSE /\ fallback' = FALSE
     ELSE UNCHANGED <<outstanding, modeVars>>
  /\ Return
  /\ UNCHANGED <<thread, stop_event, objectVars, posted, deviceVars, joined,
                 workerVars>>

(* The port allocates the audio buffer of a stream that is stopped.        *)
AllocateAudioBuffer ==
  /\ client = "idle"
  /\ state = "STOP" /\ ~buffer
  /\ buffer' = TRUE
  /\ UNCHANGED <<state, thread, stop_event, refs, freed, modeVars, poolVars, deviceVars,
                 callVars, workerVars>>

(* It frees the buffer, and closes the stream, when that is stopped or its *)
(* stop reported that the worker was still busy.                           *)
Stopped == state # "RUN" \/ stop_event

Unmap ==
  /\ client = "idle"
  /\ Stopped /\ buffer
  /\ client' = "unmap"
  /\ UNCHANGED <<state, thread, stop_event, objectVars, modeVars, poolVars, deviceVars,
                 goal, old, joined, workerVars>>

(* FreeAudioBuffer waits for no worker, frees the pool unless writes are   *)
(* outstanding, and forgets them in any case.                              *)
FreeAudioBuffer ==
  /\ client = "unmap"
  /\ FreePool(outstanding) /\ outstanding' = 0
  /\ buffer' = FALSE /\ attempted' = FALSE /\ fallback' = FALSE
  /\ client' = "idle"
  /\ UNCHANGED <<state, thread, stop_event, refs, freed, posted, deviceVars, goal, old,
                 joined, workerVars>>

Close ==
  /\ client = "idle"
  /\ Stopped
  /\ client' = IF thread THEN "close" ELSE "drop"
  /\ stop_event' = (stop_event \/ thread)
  /\ UNCHANGED <<state, thread, objectVars, modeVars, poolVars, deviceVars, goal,
                 old, joined, workerVars>>

(* The end of Release: the last reference frees the stream with its audio  *)
(* buffer, which makes it forget outstanding writes first, and whoever     *)
(* drops it no longer needs to wait for the worker.                        *)
Dereference ==
  /\ refs' = refs - 1
  /\ IF refs = 1
     THEN /\ freed' = TRUE /\ thread' = FALSE /\ buffer' = FALSE
          /\ outstanding' = IF buffer THEN 0 ELSE outstanding
          /\ FreePool(outstanding')
          /\ UNCHANGED posted
     ELSE UNCHANGED <<freed, thread, buffer, poolVars>>
  /\ UNCHANGED deviceVars

Drop ==
  /\ client = "drop"
  /\ Dereference
  /\ client' = "gone"
  /\ UNCHANGED <<state, stop_event, modeVars, goal, old, joined, workerVars>>

-----------------------------------------------------------------------------
(* The worker: RenderWorkerLoop.                                           *)

WorkerGoes(from, to) == worker = from /\ worker' = to

streamVars == <<state, thread, stop_event, objectVars, callVars>>

(* Mistaken: the kick event comes first in the list of the wait.           *)
Mut_Wake ==
  /\ \/ WorkerGoes("wait", "reclaim")
     \/ stop_event /\ WorkerGoes("wait", "exit")
  /\ UNCHANGED <<streamVars, modeVars, poolVars, deviceVars, status>>

(* The stop event wins; else the kick event or the 1 ms timeout.           *)
Wake ==
  /\ WorkerGoes("wait", IF stop_event THEN "exit" ELSE "reclaim")
  /\ UNCHANGED <<streamVars, modeVars, poolVars, deviceVars, status>>

Reclaim ==
  /\ WorkerGoes("reclaim", "monitor")
  /\ ReclaimRenderPackets
  /\ UNCHANGED <<streamVars, modeVars, status>>

(* MaybeSwitchRenderFallback: once in a run, when the device has consumed  *)
(* too little, the stream is switched to the fallback format.              *)
MaybeSwitchRenderFallback ==
  /\ \/ WorkerGoes("monitor", "submit") /\ UNCHANGED attempted
     \/ WorkerGoes("monitor", "submit") /\ ~attempted /\ state = "RUN" /\ attempted' = TRUE
     \/ WorkerGoes("monitor", "fb_stop") /\ ~attempted /\ state = "RUN" /\ attempted' = TRUE
  /\ UNCHANGED <<streamVars, fallback, poolVars, deviceVars, status>>

(* SwitchRenderToFallback: the two commands, ...                           *)
SwitchStop ==
  /\ WorkerGoes("fb_stop", "fb_cancel")
  /\ \/ Released /\ status' = TRUE
     \/ NotReleased /\ status' = FALSE
     \/ Fault("command") /\ Released /\ status' = FALSE
  /\ UNCHANGED <<streamVars, modeVars, poolVars>>

(* ... CancelRenderWrites whatever they returned, ...                      *)
SwitchCancel ==
  /\ WorkerGoes("fb_cancel", "fb_detach")
  /\ ReclaimRenderPackets
  /\ UNCHANGED <<streamVars, modeVars, status>>

SwitchDetach ==
  /\ WorkerGoes("fb_detach", IF status THEN "fb_configure" ELSE "submit")
  /\ DetachUnused
  /\ fallback' = (fallback \/ status)
  /\ status' = TRUE
  /\ UNCHANGED <<streamVars, attempted>>

(* ... the fallback format, the preroll and START; a failure on the way    *)
(* gives the format up and leaves the stream as it is.                     *)
SwitchFails == worker' = "submit" /\ fallback' = FALSE

SwitchConfigure ==
  /\ \/ WorkerGoes("fb_configure", "fb_preroll") /\ UNCHANGED fallback
     \/ worker = "fb_configure" /\ Fault("command") /\ SwitchFails
  /\ UNCHANGED <<streamVars, attempted, poolVars, deviceVars, status>>

SwitchPreroll ==
  /\ worker = "fb_preroll"
  /\ \/ outstanding < Preroll /\ Submit /\ UNCHANGED <<worker, fallback>>
     \/ /\ outstanding < Preroll /\ SubmitFails /\ SwitchFails
        /\ UNCHANGED <<poolVars, deviceVars>>
     \/ /\ outstanding >= Preroll /\ worker' = "fb_start"
        /\ UNCHANGED <<fallback, poolVars, deviceVars>>
  /\ UNCHANGED <<streamVars, attempted, status>>

SwitchStart ==
  /\ worker = "fb_start"
  /\ \/ Started /\ worker' = "submit" /\ UNCHANGED fallback
     \/ NotStarted /\ SwitchFails
  /\ UNCHANGED <<streamVars, attempted, poolVars, status>>

(* The condition of the submit loop; m_State is not looked at again before *)
(* the packet is on the ring.                                              *)
Wanted ==
  /\ WorkerGoes("submit", "post")
  /\ state = "RUN"
  /\ outstanding < IF fallback THEN FallbackTarget ELSE Target
  /\ UNCHANGED <<streamVars, modeVars, poolVars, deviceVars, status>>

SubmitPacket ==
  /\ WorkerGoes("post", "submit")
  /\ Submit
  /\ UNCHANGED <<streamVars, modeVars, status>>

(* The loop ends there, for want of a packet, or because a submit failed.  *)
SubmitDone ==
  /\ WorkerGoes("submit", "wait") \/ WorkerGoes("post", "wait")
  /\ UNCHANGED <<streamVars, modeVars, poolVars, deviceVars, status>>

(* ViosndRenderThread: Release on the worker's own thread.                 *)
Exit ==
  /\ WorkerGoes("exit", "none")
  /\ Dereference
  /\ UNCHANGED <<state, stop_event, modeVars, callVars, status>>

-----------------------------------------------------------------------------
(* The device (external).                                                  *)
DeviceFetch ==
  /\ \E io \in posted \ (device \cup used) : device' = device \cup {io}
  /\ UNCHANGED <<streamVars, modeVars, poolVars, workerVars, pcm, used>>

DeviceReturn ==
  /\ \E io \in device : device' = device \ {io} /\ used' = used \cup {io}
  /\ UNCHANGED <<streamVars, modeVars, poolVars, workerVars, pcm>>

-----------------------------------------------------------------------------
(* Both threads are about to touch the pool and the counter.               *)
Racing ==
  /\ client \in {"allocate", "preroll", "launch", "cancel", "detach", "free", "unmap"}
  /\ worker \in {"reclaim", "submit", "post", "fb_cancel", "fb_detach", "fb_preroll"}

(* A second worker is about to be started beside one that was never joined.*)
TwoWorkers == client = "launch" /\ worker # "none"

(* The device has blocks that were taken off the ring.                     *)
Stray == ~ (device \cup used \subseteq posted)

Undefined == Racing \/ TwoWorkers \/ Stray

ClientNext == \/ SetStateRun \/ Configure \/ Allocate \/ PrerollPacket \/ Prerolled
              \/ Start \/ Launch \/ LaunchFails \/ Withdraw
              \/ SetStateDown \/ SetStateOther \/ Join \/ JoinTimesOut
              \/ StopAndRelease \/ Cancel \/ Detach \/ Finish
              \/ AllocateAudioBuffer \/ Unmap \/ FreeAudioBuffer \/ Close \/ Drop

WorkerNext == \/ Wake \/ Reclaim \/ MaybeSwitchRenderFallback
              \/ SwitchStop \/ SwitchCancel \/ SwitchDetach
              \/ SwitchConfigure \/ SwitchPreroll \/ SwitchStart
              \/ Wanted \/ SubmitPacket \/ SubmitDone \/ Exit

DeviceNext == DeviceFetch \/ DeviceReturn

(* Nothing is left to do, or nothing can be said.                          *)
Rest == (freed \/ Undefined) /\ UNCHANGED vars

Next == \/ ~Undefined /\ (ClientNext \/ WorkerNext \/ DeviceNext) /\ UNCHANGED faults
        \/ Rest

Spec == Init /\ [][Next]_vars

(* The system schedules the worker.                                        *)
FairSpec == Spec /\ WF_vars(~Undefined /\ WorkerNext /\ UNCHANGED faults)

-----------------------------------------------------------------------------
ClientPlaces == {"idle", "configure", "allocate", "preroll", "start", "launch",
                 "withdraw", "join", "rejoin", "stop", "cancel", "detach", "free",
                 "unmap", "close", "drop", "gone"}
WorkerPlaces == {"none", "wait", "reclaim", "monitor", "submit", "post", "exit", "fb_stop",
                 "fb_cancel", "fb_detach", "fb_configure", "fb_preroll", "fb_start"}

(* The type invariant; the pool never holds more blocks than its array has *)
(* places, which ReclaimRenderPackets and CancelRenderWrites see to.       *)
TypeOK ==
  /\ faults \in Scenarios
  /\ state \in States /\ goal \in States /\ old \in States
  /\ {thread, stop_event, freed, buffer, attempted, fallback, joined, status, pcm} \subseteq BOOLEAN
  /\ refs \in 0 .. 2 /\ outstanding \in Nat
  /\ client \in ClientPlaces /\ worker \in WorkerPlaces
  /\ {allocated, pool, posted, device, used} \subseteq SUBSET Ios
  /\ Cardinality(pool) <= PoolSize

(* A block is in the pool or on the ring, never both, and is live memory   *)
(* exactly as long: nothing on the ring was freed, nothing is leaked.      *)
BlocksAccounted ==
  /\ pool \cap posted = {}
  /\ allocated = pool \cup posted

(* m_OutstandingWrites never counts a write the ring does not have: the    *)
(* pool would never be freed and CancelRenderWrites would never be done.   *)
CounterIsCovered == outstanding <= Cardinality(posted)

(* Pool, ring and counter agree about the blocks, whatever fails.          *)
BlocksInv == TypeOK /\ BlocksAccounted /\ CounterIsCovered

(* The client and a worker it can wait for are never both at the pool,     *)
(* unless the wait for the worker timed out.                               *)
RaceOnlyAfterTimeout == (Racing /\ thread) => ~joined

(* No worker runs that was neither told to stop nor can be waited for.     *)
NoRunaway == worker # "none" => (thread \/ stop_event)

(* The stream lives until the client and the worker are both done with it, *)
(* whichever of them is the last, and no longer.                           *)
LivesWhileHeld == freed <=> (client = "gone" /\ worker = "none")

(* Whoever runs holds the stream, and is held to stop.                     *)
HeldInv == NoRunaway /\ LivesWhileHeld

(* As long as every command is carried out, every mutex had and every      *)
(* worker waited for: only memory or threads may be short.                 *)
Obeyed == faults \subseteq {"memory", "thread"}

Switching == worker \in {"fb_cancel", "fb_detach", "fb_configure", "fb_preroll", "fb_start"}

(* Between two calls the stream, its worker and the device agree whether   *)
(* it runs; while the worker switches formats the device may be stopped.   *)
AgreeAtRest ==
  (Obeyed /\ client = "idle") => /\ thread = (state = "RUN")
                                /\ (worker # "none") = (state = "RUN")
                                /\ (Switching \/ pcm = (state = "RUN"))

(* A stream that is at rest, or freed, keeps no block.                     *)
CleanAtRest ==
  (Obeyed /\ client \in {"idle", "gone"} /\ state # "RUN") =>
    allocated = {} /\ outstanding = 0

(* What holds whenever the client may make its next call.                  *)
RestInv == AgreeAtRest /\ CleanAtRest

(* No block is taken off the ring while the device has it.                 *)
NoStray == Obeyed => ~Stray

(* A worker told to stop ends, whatever it was doing.                      *)
WorkerStops == (stop_event /\ worker # "none") ~> (worker = "none" \/ Undefined)
=============================================================================

------------------------- MODULE RenderStream_proofs ------------------------
(***************************************************************************)
(* The render stream for any number of io blocks, any pool, preroll and    *)
(* target sizes, and any set of faults: every block is accounted for, the  *)
(* stream object lives exactly while someone holds it, no worker runs      *)
(* unsupervised, and SetState meets its worker at the pool only after it   *)
(* waited for it in vain.  When only memory and threads may be short, and  *)
(* the preroll fits into the pool and onto the ring, the stream leaves     *)
(* nothing behind between two calls and takes no block from under the      *)
(* device.                                                                 *)
(***************************************************************************)
EXTENDS RenderStream, FiniteSetTheorems, TLAPS

-----------------------------------------------------------------------------
(* The blocks.  BlocksAccounted and CounterIsCovered need each other's     *)
(* company: that a block just posted was not on the ring before is what    *)
(* lets the counter go up.  The used ring must lie within the ring, which  *)
(* is what a stray block breaks.                                           *)

PoolTypes ==
  /\ allocated \subseteq Ios /\ pool \subseteq Ios /\ posted \subseteq Ios
  /\ outstanding \in Nat
  /\ Cardinality(pool) <= PoolSize

Accounts == PoolTypes /\ BlocksAccounted /\ CounterIsCovered

LEMMA Finite ==
  ASSUME NEW S, S \subseteq Ios
  PROVE  IsFiniteSet(S) /\ Cardinality(S) \in Nat
BY FS_Subset, FS_CardinalityType, RenderStreamAssumption

LEMMA SettleAccounts ==
  ASSUME Accounts, NEW S, NEW K, S \subseteq posted, Settle(S, K)
  PROVE  Accounts'
<1>1. /\ S \subseteq Ios /\ K \subseteq Ios
      /\ pool \subseteq Ios /\ posted \subseteq Ios
      /\ outstanding \in Nat /\ outstanding <= Cardinality(posted)
  BY DEF Accounts, PoolTypes, CounterIsCovered, Settle
<1>2. BlocksAccounted'
  BY DEF Accounts, BlocksAccounted, Settle
<1>3. Cardinality(pool') <= PoolSize
  <2>1. pool \cap K = {}
    BY DEF Accounts, BlocksAccounted, Settle
  <2>2. Cardinality(pool \cup K) = Cardinality(pool) + Cardinality(K)
    <3>1. Cardinality(pool \cup K)
            = Cardinality(pool) + Cardinality(K) - Cardinality(pool \cap K)
      BY <1>1, Finite, FS_Union
    <3>2. Cardinality(pool \cap K) = 0
      BY <2>1, FS_EmptySet
    <3>3. QED
      BY <1>1, <3>1, <3>2, Finite
  <2>3. QED
    BY <2>2 DEF Settle
<1>4. outstanding' \in Nat /\ CounterIsCovered'
  <2>1. Cardinality(S) \in Nat /\ Cardinality(posted) \in Nat
    BY <1>1, Finite
  <2>2. Cardinality(posted \ S) = Cardinality(posted) - Cardinality(S)
    <3>1. Cardinality(posted \ S)
            = Cardinality(posted) - Cardinality(posted \cap S)
      BY <1>1, Finite, FS_Difference
    <3>2. posted \cap S = S
      OBVIOUS
    <3>3. QED
      BY <3>1, <3>2
  <2>3. Cardinality(posted \ S) \in Nat
    BY <1>1, Finite
  <2>4. QED
    BY <1>1, <2>1, <2>2, <2>3 DEF Settle, Fewer, CounterIsCovered
<1>5. (allocated \subseteq Ios /\ pool \subseteq Ios /\ posted \subseteq Ios)'
  BY <1>1 DEF Accounts, PoolTypes, Settle
<1>6. QED
  BY <1>2, <1>3, <1>4, <1>5 DEF Accounts, PoolTypes

LEMMA ReclaimAccounts ==
  ASSUME Accounts, ~Stray, ReclaimRenderPackets
  PROVE  Accounts'
<1>1. PICK S \in SUBSET used, K \in SUBSET used : Settle(S, K)
  BY DEF ReclaimRenderPackets
<1>2. S \subseteq posted
  BY DEF Stray
<1>3. QED
  BY <1>1, <1>2, SettleAccounts

LEMMA DetachAccounts ==
  ASSUME Accounts, DetachUnused
  PROVE  Accounts'
<1>1. PICK D \in SUBSET posted, K \in SUBSET posted : Settle(D, K)
  BY DEF DetachUnused
<1>2. QED
  BY <1>1, SettleAccounts

LEMMA AllocateAccounts ==
  ASSUME Accounts, AllocateRenderIoPool \/ AllocationFails
  PROVE  Accounts'
<1>1. CASE UNCHANGED poolVars
  BY <1>1 DEF Accounts, PoolTypes, BlocksAccounted, CounterIsCovered, poolVars
<1>2. CASE /\ pool = {}
           /\ \E A \in SUBSET (Ios \ allocated) :
                /\ Cardinality(A) <= PoolSize
                /\ pool' = A /\ allocated' = allocated \cup A
           /\ UNCHANGED <<posted, outstanding>>
  BY <1>2 DEF Accounts, PoolTypes, BlocksAccounted, CounterIsCovered
<1>3. QED
  <2>1. \A A \in SUBSET (Ios \ allocated) : Cardinality(A) \in Nat
    BY Finite
  <2>2. QED
    BY <1>1, <1>2, <2>1, RenderStreamAssumption
    DEF AllocateRenderIoPool, AllocationFails

LEMMA SubmitAccounts ==
  ASSUME Accounts, Submit
  PROVE  Accounts'
<1>1. PICK io \in pool : pool' = pool \ {io} /\ posted' = posted \cup {io}
  BY DEF Submit
<1>2. io \notin posted /\ io \in Ios
  BY DEF Accounts, BlocksAccounted, PoolTypes
<1>3. /\ Cardinality(pool') = Cardinality(pool) - 1
      /\ Cardinality(posted') = Cardinality(posted) + 1
  BY <1>1, <1>2, Finite, FS_AddElement, FS_RemoveElement DEF Accounts, PoolTypes
<1>4. Cardinality(pool) \in Nat /\ Cardinality(posted) \in Nat
  BY Finite DEF Accounts, PoolTypes
<1>5. QED
  BY <1>1, <1>2, <1>3, <1>4, RenderStreamAssumption
  DEF Submit, Accounts, PoolTypes, BlocksAccounted, CounterIsCovered

(* FreeRenderIoPool and the end of SetState free the whole pool or nothing,*)
(* and the latter may forget the count.                                    *)
LEMMA FreeAccounts ==
  ASSUME Accounts, UNCHANGED posted, outstanding' \in {outstanding, 0},
         NEW writes, FreePool(writes)
  PROVE  Accounts'
<1>1. Cardinality(pool') <= PoolSize
  BY FS_EmptySet, RenderStreamAssumption DEF Accounts, PoolTypes, FreePool
<1>2. Cardinality(posted) \in Nat
  BY Finite DEF Accounts, PoolTypes
<1>3. QED
  BY <1>1, <1>2 DEF Accounts, PoolTypes, BlocksAccounted, CounterIsCovered, FreePool

LEMMA UntouchedAccounts ==
  ASSUME Accounts, UNCHANGED poolVars
  PROVE  Accounts'
BY DEF Accounts, PoolTypes, BlocksAccounted, CounterIsCovered, poolVars

LEMMA AccountsStep == Accounts /\ [Next]_vars => Accounts'
<1> SUFFICES ASSUME Accounts, [Next]_vars PROVE Accounts'
  OBVIOUS
<1>1. CASE ~Undefined /\ ClientNext
  <2>1. CASE Allocate \/ Launch \/ LaunchFails
    BY <2>1, AllocateAccounts DEF Allocate, Launch, LaunchFails
  <2>2. CASE PrerollPacket
    BY <2>2, SubmitAccounts, UntouchedAccounts DEF PrerollPacket, poolVars
  <2>3. CASE Join
    BY <2>3, FreeAccounts DEF Join, FreeRenderIoPool
  <2>4. CASE Cancel
    BY <1>1, <2>4, ReclaimAccounts DEF Cancel, Undefined
  <2>5. CASE Detach
    BY <2>5, DetachAccounts DEF Detach
  <2>6. CASE Finish \/ FreeAudioBuffer
    BY <2>6, FreeAccounts DEF Finish, FreeAudioBuffer
  <2>7. CASE Drop
    BY <2>7, FreeAccounts, UntouchedAccounts DEF Drop, Dereference, poolVars
  <2>8. CASE \/ SetStateRun \/ Configure \/ Prerolled \/ Start \/ Withdraw
             \/ SetStateDown \/ SetStateOther \/ JoinTimesOut \/ StopAndRelease
             \/ AllocateAudioBuffer \/ Unmap \/ Close
    BY <2>8, UntouchedAccounts
    DEF SetStateRun, Configure, Prerolled, Start, Withdraw, SetStateDown,
        SetStateOther, JoinTimesOut, StopAndRelease, AllocateAudioBuffer, Unmap, Close,
        poolVars
  <2>9. QED
    BY <1>1, <2>1, <2>2, <2>3, <2>4, <2>5, <2>6, <2>7, <2>8 DEF ClientNext
<1>2. CASE ~Undefined /\ WorkerNext
  <2>1. CASE Reclaim \/ SwitchCancel
    BY <1>2, <2>1, ReclaimAccounts DEF Reclaim, SwitchCancel, Undefined
  <2>2. CASE SwitchDetach
    BY <2>2, DetachAccounts DEF SwitchDetach
  <2>3. CASE SwitchPreroll
    BY <2>3, SubmitAccounts, UntouchedAccounts DEF SwitchPreroll, poolVars
  <2>4. CASE SubmitPacket
    BY <2>4, SubmitAccounts DEF SubmitPacket
  <2>5. CASE Exit
    BY <2>5, FreeAccounts, UntouchedAccounts DEF Exit, Dereference, poolVars
  <2>6. CASE \/ Wake \/ MaybeSwitchRenderFallback \/ SwitchStop \/ SwitchConfigure
             \/ SwitchStart \/ Wanted \/ SubmitDone
    BY <2>6, UntouchedAccounts
    DEF Wake, MaybeSwitchRenderFallback, SwitchStop, SwitchConfigure, SwitchStart,
        Wanted, SubmitDone, poolVars
  <2>7. QED
    BY <1>2, <2>1, <2>2, <2>3, <2>4, <2>5, <2>6 DEF WorkerNext
<1>3. CASE DeviceNext \/ Rest \/ UNCHANGED vars
  BY <1>3, UntouchedAccounts
  DEF DeviceNext, DeviceFetch, DeviceReturn, Rest, vars, poolVars
<1>4. QED
  BY <1>1, <1>2, <1>3 DEF Next

LEMMA AccountsAlways == Spec => []Accounts
<1>1. Init => Accounts
  BY FS_EmptySet, RenderStreamAssumption
  DEF Init, Accounts, PoolTypes, BlocksAccounted, CounterIsCovered
<1>2. QED
  BY <1>1, AccountsStep, PTL DEF Spec

-----------------------------------------------------------------------------
(* Who holds the stream.  The references are the client's and the worker's;*)
(* a worker is supervised while the stream keeps its thread or it has been *)
(* told to stop.                                                           *)

Client == IF client = "gone" THEN 0 ELSE 1
Worker == IF worker = "none" THEN 0 ELSE 1

HoldersCounted ==
  /\ refs = Client + Worker
  /\ refs = 0 => freed = TRUE
  /\ refs # 0 => freed = FALSE
  /\ client = "gone" \/ refs # 0

Held == HoldersCounted /\ NoRunaway

(* Steps that neither start nor end a worker, nor touch what supervises it,*)
(* nor release a reference.                                                *)
LEMMA UntouchedHeld ==
  ASSUME Held,
         UNCHANGED <<thread, stop_event, refs, freed>>,
         (client # "gone" /\ client' # "gone") \/ UNCHANGED client,
         (worker # "none" /\ worker' # "none") \/ UNCHANGED worker
  PROVE  Held'
BY DEF Held, HoldersCounted, NoRunaway, Client, Worker

LEMMA ClientHeld == ASSUME Held, ~Undefined, ClientNext PROVE Held'
<1>1. CASE Launch
  BY <1>1 DEF Launch, Held, HoldersCounted, NoRunaway, Client, Worker, Return,
     Undefined, TwoWorkers
<1>2. CASE LaunchFails
  BY <1>2 DEF LaunchFails, Held, HoldersCounted, NoRunaway, Client, Worker,
     Undefined, TwoWorkers
<1>3. CASE SetStateDown
  BY <1>3 DEF SetStateDown, Held, HoldersCounted, NoRunaway, Client, Worker,
     objectVars, workerVars
<1>4. CASE Join
  BY <1>4 DEF Join, AfterJoin, Held, HoldersCounted, NoRunaway, Client, Worker,
     objectVars, workerVars
<1>5. CASE Close
  BY <1>5 DEF Close, Held, HoldersCounted, NoRunaway, Client, Worker, objectVars,
     workerVars
<1>6. CASE Drop
  BY <1>6 DEF Drop, Dereference, Held, HoldersCounted, NoRunaway, Client, Worker,
     workerVars
<1>7. CASE \/ SetStateRun \/ Configure \/ Allocate \/ PrerollPacket \/ Prerolled
           \/ Start \/ Withdraw \/ StopAndRelease \/ Cancel \/ Detach \/ Finish
           \/ AllocateAudioBuffer \/ Unmap \/ FreeAudioBuffer
  BY <1>7, UntouchedHeld
  DEF SetStateRun, Configure, Allocate, PrerollPacket, Prerolled, Start, Withdraw,
      StopAndRelease, Cancel, Detach, Finish, Return, AllocateAudioBuffer, Unmap,
      FreeAudioBuffer, objectVars, callVars, workerVars
<1>8. CASE SetStateOther
  BY <1>8, UntouchedHeld DEF SetStateOther, objectVars, callVars, workerVars
<1>9. CASE JoinTimesOut
  BY <1>9, UntouchedHeld DEF JoinTimesOut, AfterJoin, objectVars, workerVars
<1>10. QED
  BY <1>1, <1>2, <1>3, <1>4, <1>5, <1>6, <1>7, <1>8, <1>9 DEF ClientNext

LEMMA WorkerHeld == ASSUME Held, WorkerNext PROVE Held'
<1>1. CASE Exit
  BY <1>1 DEF Exit, Dereference, WorkerGoes, Held, HoldersCounted, NoRunaway, Client,
     Worker, callVars
<1>2. CASE \/ Wake \/ Reclaim \/ MaybeSwitchRenderFallback \/ SwitchStop
           \/ SwitchCancel \/ SwitchDetach \/ Wanted \/ SubmitDone
  BY <1>2, UntouchedHeld
  DEF Wake, Reclaim, MaybeSwitchRenderFallback, SwitchStop, SwitchCancel,
      SwitchDetach, Wanted, SubmitDone, WorkerGoes, streamVars, objectVars, callVars
<1>3. CASE SwitchConfigure \/ SwitchPreroll \/ SwitchStart \/ SubmitPacket
  BY <1>3, UntouchedHeld
  DEF SwitchConfigure, SwitchPreroll, SwitchStart, SubmitPacket, SwitchFails,
      WorkerGoes, streamVars, objectVars, callVars, workerVars
<1>4. QED
  BY <1>1, <1>2, <1>3 DEF WorkerNext

LEMMA HeldAlways == Spec => []Held
<1>1. Init => Held
  BY DEF Init, Held, HoldersCounted, NoRunaway, Client, Worker
<1>2. Held /\ [Next]_vars => Held'
  <2>1. CASE DeviceNext \/ Rest \/ UNCHANGED vars
    BY <2>1, UntouchedHeld
    DEF DeviceNext, DeviceFetch, DeviceReturn, Rest, vars, streamVars, objectVars,
        callVars, workerVars
  <2>2. QED
    BY <2>1, ClientHeld, WorkerHeld DEF Next
<1>3. QED
  BY <1>1, <1>2, PTL DEF Spec

(* The stream object is freed by whoever lets go of it last, the client or *)
(* the worker, and not before; a running worker has a thread object that   *)
(* SetState or Release will wait for, or has been told to stop, also the   *)
(* one StartRenderWorker could not reference.                              *)
THEOREM HeldByUsers == Spec => []HeldInv
<1>1. Held => HeldInv
  BY DEF Held, HoldersCounted, HeldInv, LivesWhileHeld, Client, Worker
<1>2. QED
  BY <1>1, HeldAlways, PTL

-----------------------------------------------------------------------------
(* SetState and the worker take turns at the pool.  A worker that can be   *)
(* waited for exists only while the stream is in RUN or a call that leaves *)
(* RUN has not waited successfully: no start-up meets one.                 *)

Starting == client \in {"configure", "allocate", "preroll", "start", "launch", "withdraw"}
Joining  == client \in {"join", "rejoin"}
Cleaning == client \in {"cancel", "detach", "free"}

Turns ==
  /\ client = "idle" => thread = FALSE \/ state = "RUN"
  /\ client \in {"idle", "unmap"} => thread = FALSE \/ stop_event = FALSE \/ joined = FALSE
  /\ client = "unmap" => thread = FALSE \/ (stop_event = TRUE /\ state = "RUN")
  /\ Starting => joined = TRUE /\ thread = FALSE /\ goal = "RUN" /\ old # "RUN"
  /\ client = "launch" => state = "RUN"
  /\ Joining => old = "RUN" /\ goal # "RUN"
  /\ client = "stop" => old = "RUN" /\ goal # "RUN" /\ (joined = FALSE \/ thread = FALSE)
  /\ Cleaning => /\ joined = FALSE \/ thread = FALSE
                 /\ goal = "RUN" => joined = TRUE /\ old # "RUN"
                 /\ joined = TRUE \/ old = "RUN"
  /\ thread \in BOOLEAN /\ joined \in BOOLEAN /\ stop_event \in BOOLEAN

LEMMA UntouchedTurns ==
  ASSUME Turns, UNCHANGED <<state, stop_event, callVars>>, thread' \in {thread, FALSE}
  PROVE  Turns'
BY DEF Turns, Starting, Joining, Cleaning, callVars

LEMMA ClientTurns == ASSUME Turns, ClientNext PROVE Turns'
<1> USE DEF Turns, Starting, Joining, Cleaning
<1>1. CASE SetStateRun
  BY <1>1 DEF SetStateRun
<1>2. CASE Configure \/ Allocate \/ PrerollPacket \/ Prerolled \/ Start
  BY <1>2 DEF Configure, Allocate, PrerollPacket, Prerolled, Start
<1>3. CASE Launch
  BY <1>3 DEF Launch, Return
<1>4. CASE LaunchFails \/ Withdraw
  BY <1>4 DEF LaunchFails, Withdraw
<1>5. CASE SetStateDown
  BY <1>5 DEF SetStateDown
<1>6. CASE SetStateOther
  BY <1>6 DEF SetStateOther, callVars
<1>7. CASE Join \/ JoinTimesOut
  BY <1>7 DEF Join, JoinTimesOut, AfterJoin
<1>8. CASE StopAndRelease
  BY <1>8 DEF StopAndRelease
<1>9. CASE Cancel \/ Detach
  BY <1>9 DEF Cancel, Detach
<1>10. CASE Finish
  BY <1>10 DEF Finish, Failed, Return
<1>11. CASE AllocateAudioBuffer \/ Unmap \/ FreeAudioBuffer \/ Close
  BY <1>11 DEF AllocateAudioBuffer, Unmap, FreeAudioBuffer, Close, Stopped, callVars
<1>12. CASE Drop
  BY <1>12 DEF Drop, Dereference
<1>13. QED
  BY <1>1, <1>2, <1>3, <1>4, <1>5, <1>6, <1>7, <1>8, <1>9, <1>10, <1>11, <1>12
  DEF ClientNext

LEMMA WorkerTurns == ASSUME Turns, WorkerNext PROVE Turns'
<1>1. CASE Exit
  BY <1>1, UntouchedTurns DEF Exit, Dereference
<1>2. CASE ~Exit
  BY <1>2, UntouchedTurns
  DEF WorkerNext, Wake, Reclaim, MaybeSwitchRenderFallback, SwitchStop, SwitchCancel,
      SwitchDetach, SwitchConfigure, SwitchPreroll, SwitchStart, SubmitPacket,
      Wanted, SubmitDone, streamVars
<1>3. QED
  BY <1>1, <1>2

LEMMA TurnsAlways == Spec => []Turns
<1>1. Init => Turns
  BY DEF Init, Turns, Starting, Joining, Cleaning
<1>2. Turns /\ [Next]_vars => Turns'
  <2>1. CASE DeviceNext \/ Rest \/ UNCHANGED vars
    BY <2>1, UntouchedTurns
    DEF DeviceNext, DeviceFetch, DeviceReturn, Rest, vars, streamVars, callVars
  <2>2. QED
    BY <2>1, ClientTurns, WorkerTurns DEF Next
<1>3. QED
  BY <1>1, <1>2, PTL DEF Spec

(* SetState never works on the pool beside a worker it can wait for,       *)
(* unless the wait expired first; without timeouts the missing lock is     *)
(* never missed (StopRenderWorker, SetState).                              *)
THEOREM RacesNeedTimeouts == Spec => []RaceOnlyAfterTimeout
<1>1. Turns => RaceOnlyAfterTimeout
  BY DEF Turns, Starting, Cleaning, RaceOnlyAfterTimeout, Racing
<1>2. QED
  BY <1>1, TurnsAlways, PTL

-----------------------------------------------------------------------------
(* The rest of the state stays in its range.                               *)

Places ==
  /\ state \in States /\ goal \in States /\ old \in States
  /\ client \in ClientPlaces /\ worker \in WorkerPlaces

Flags ==
  /\ thread \in BOOLEAN /\ stop_event \in BOOLEAN
  /\ freed \in BOOLEAN /\ buffer \in BOOLEAN
  /\ attempted \in BOOLEAN /\ fallback \in BOOLEAN
  /\ joined \in BOOLEAN /\ status \in BOOLEAN /\ pcm \in BOOLEAN

DeviceTypes == device \subseteq Ios /\ used \subseteq Ios

LEMMA UntouchedTypes ==
  /\ Places /\ UNCHANGED <<state, goal, old, client, worker>> => Places'
  /\ Flags /\ UNCHANGED <<thread, stop_event, freed, buffer, attempted, fallback, joined,
                           status, pcm>> => Flags'
  /\ DeviceTypes /\ UNCHANGED <<device, used>> => DeviceTypes'
BY DEF Places, Flags, DeviceTypes

LEMMA ClientPlaced == ASSUME Places, ClientNext PROVE Places'
<1> USE DEF Places, States, ClientPlaces, WorkerPlaces
<1>1. CASE \/ SetStateRun \/ Configure \/ Allocate \/ PrerollPacket \/ Prerolled
           \/ Start
  BY <1>1 DEF SetStateRun, Configure, Allocate, PrerollPacket, Prerolled, Start,
     workerVars
<1>2. CASE Launch \/ LaunchFails \/ Withdraw
  BY <1>2 DEF Launch, LaunchFails, Withdraw, Return, workerVars
<1>3. CASE SetStateDown \/ SetStateOther
  BY <1>3 DEF SetStateDown, SetStateOther, callVars, workerVars
<1>4. CASE Join \/ JoinTimesOut
  BY <1>4 DEF Join, JoinTimesOut, AfterJoin, workerVars
<1>5. CASE \/ StopAndRelease \/ Cancel \/ Detach
           \/ AllocateAudioBuffer \/ Unmap \/ FreeAudioBuffer \/ Close \/ Drop
  BY <1>5 DEF StopAndRelease, Cancel, Detach, AllocateAudioBuffer, Unmap,
     FreeAudioBuffer, Close, Drop, callVars, workerVars
<1>6. CASE Finish
  BY <1>6 DEF Finish, Return, workerVars
<1>7. QED
  BY <1>1, <1>2, <1>3, <1>4, <1>5, <1>6 DEF ClientNext

LEMMA WorkerPlaced == ASSUME Places, WorkerNext PROVE Places'
<1> USE DEF Places, WorkerPlaces, streamVars, callVars, WorkerGoes
<1>1. CASE \/ Wake \/ Reclaim \/ MaybeSwitchRenderFallback \/ SwitchStop
           \/ SwitchCancel \/ SwitchDetach \/ Wanted \/ SubmitDone
  BY <1>1 DEF Wake, Reclaim, MaybeSwitchRenderFallback, SwitchStop, SwitchCancel,
     SwitchDetach, Wanted, SubmitDone
<1>2. CASE SwitchConfigure \/ SwitchPreroll \/ SwitchStart \/ SubmitPacket
  BY <1>2 DEF SwitchConfigure, SwitchPreroll, SwitchStart, SubmitPacket, SwitchFails,
     workerVars
<1>3. CASE Exit
  BY <1>3 DEF Exit
<1>4. QED
  BY <1>1, <1>2, <1>3 DEF WorkerNext

LEMMA ClientFlags == ASSUME Flags, ClientNext PROVE Flags'
<1> USE DEF Flags, objectVars, modeVars, workerVars
<1>1. CASE SetStateRun \/ SetStateDown \/ Close
  BY <1>1, Zenon DEF SetStateRun, SetStateDown, Close, deviceVars
<1>2. CASE Start
  BY <1>2, Zenon DEF Start, Started, NotStarted
<1>3. CASE Launch
  BY <1>3, Zenon DEF Launch, Return, deviceVars
<1>4. CASE LaunchFails
  BY <1>4, Zenon DEF LaunchFails, deviceVars
<1>5. CASE Withdraw
  BY <1>5, Zenon DEF Withdraw, Released, NotReleased
<1>6. CASE StopAndRelease
  BY <1>6, Zenon DEF StopAndRelease, Released, NotReleased
<1>7. CASE Join
  BY <1>7, Zenon DEF Join, FreeRenderIoPool, deviceVars
<1>8. CASE JoinTimesOut
  BY <1>8, Zenon DEF JoinTimesOut, deviceVars
<1>9. CASE Finish
  BY <1>9, Zenon DEF Finish, Return, deviceVars
<1>10. CASE Drop
  BY <1>10, Zenon DEF Drop, Dereference, FreeRenderIoPool, deviceVars
<1>11. CASE PrerollPacket
  BY <1>11, Zenon DEF PrerollPacket, Submit, deviceVars
<1>12. CASE Cancel \/ Detach
  BY <1>12, Zenon DEF Cancel, Detach, ReclaimRenderPackets, DetachUnused, deviceVars
<1>13. CASE Configure \/ Allocate \/ Prerolled \/ SetStateOther
  BY <1>13, Zenon DEF Configure, Allocate, Prerolled, SetStateOther, deviceVars,
     callVars
<1>14. CASE AllocateAudioBuffer \/ Unmap \/ FreeAudioBuffer
  BY <1>14, Zenon DEF AllocateAudioBuffer, Unmap, FreeAudioBuffer, deviceVars, callVars
<1>15. QED
  BY <1>1, <1>2, <1>3, <1>4, <1>5, <1>6, <1>7, <1>8, <1>9, <1>10, <1>11, <1>12,
     <1>13, <1>14 DEF ClientNext

LEMMA WorkerFlags == ASSUME Flags, WorkerNext PROVE Flags'
<1> USE DEF Flags, objectVars, modeVars, deviceVars, callVars, streamVars, workerVars
<1>1. CASE Wake \/ Wanted \/ SubmitDone \/ MaybeSwitchRenderFallback
  BY <1>1, Zenon DEF Wake, Wanted, SubmitDone, MaybeSwitchRenderFallback
<1>2. CASE Reclaim \/ SwitchCancel
  BY <1>2, Zenon DEF Reclaim, SwitchCancel, ReclaimRenderPackets
<1>3. CASE SwitchStop
  BY <1>3, Zenon DEF SwitchStop, Released, NotReleased
<1>4. CASE SwitchDetach
  BY <1>4, Zenon DEF SwitchDetach, DetachUnused
<1>5. CASE SwitchConfigure
  BY <1>5, Zenon DEF SwitchConfigure, SwitchFails
<1>6. CASE SwitchPreroll
  BY <1>6, Zenon DEF SwitchPreroll, SwitchFails, Submit
<1>7. CASE SwitchStart
  BY <1>7, Zenon DEF SwitchStart, SwitchFails, Started, NotStarted
<1>8. CASE SubmitPacket
  BY <1>8, Zenon DEF SubmitPacket, Submit
<1>9. CASE Exit
  BY <1>9, Zenon DEF Exit, Dereference, FreeRenderIoPool
<1>10. QED
  BY <1>1, <1>2, <1>3, <1>4, <1>5, <1>6, <1>7, <1>8, <1>9 DEF WorkerNext

(* What the used ring and the device hold comes from the ring.             *)
LEMMA DeviceTyped == ASSUME DeviceTypes, PoolTypes, Next PROVE DeviceTypes'
<1> USE DEF DeviceTypes
<1>1. CASE ClientNext
  <2>1. CASE PrerollPacket
    BY <2>1 DEF PrerollPacket, Submit, deviceVars
  <2>2. CASE Start
    BY <2>2 DEF Start, Started, NotStarted
  <2>3. CASE Withdraw \/ StopAndRelease
    BY <2>3 DEF Withdraw, StopAndRelease, Released, NotReleased, PoolTypes
  <2>4. CASE Join \/ Drop
    BY <2>4 DEF Join, Drop, Dereference, FreeRenderIoPool, deviceVars
  <2>5. CASE Cancel
    BY <2>5 DEF Cancel, ReclaimRenderPackets
  <2>6. CASE Detach
    BY <2>6 DEF Detach, DetachUnused, deviceVars
  <2>7. CASE \/ SetStateRun \/ Configure \/ Allocate \/ Prerolled \/ Launch
             \/ LaunchFails \/ SetStateDown \/ SetStateOther \/ JoinTimesOut
             \/ Finish \/ AllocateAudioBuffer \/ Unmap \/ FreeAudioBuffer \/ Close
    BY <2>7 DEF AllocateAudioBuffer, Unmap, FreeAudioBuffer, SetStateRun, Configure, Allocate, Prerolled, Launch, LaunchFails,
       SetStateDown, SetStateOther, JoinTimesOut, Finish, Close, deviceVars
  <2>8. QED
    BY <1>1, <2>1, <2>2, <2>3, <2>4, <2>5, <2>6, <2>7 DEF ClientNext
<1>2. CASE WorkerNext
  <2>1. CASE Wake \/ MaybeSwitchRenderFallback \/ SwitchConfigure \/ Wanted \/ SubmitDone
    BY <2>1 DEF Wake, MaybeSwitchRenderFallback, SwitchConfigure, Wanted, SubmitDone,
       deviceVars
  <2>2. CASE Reclaim \/ SwitchCancel
    BY <2>2 DEF Reclaim, SwitchCancel, ReclaimRenderPackets
  <2>3. CASE SwitchStop
    BY <2>3 DEF SwitchStop, Released, NotReleased, PoolTypes
  <2>4. CASE SwitchDetach
    BY <2>4 DEF SwitchDetach, DetachUnused, deviceVars
  <2>5. CASE SwitchPreroll \/ SubmitPacket
    BY <2>5 DEF SwitchPreroll, SubmitPacket, Submit, deviceVars
  <2>6. CASE SwitchStart
    BY <2>6 DEF SwitchStart, Started, NotStarted
  <2>7. CASE Exit
    BY <2>7 DEF Exit, Dereference, FreeRenderIoPool, deviceVars
  <2>8. QED
    BY <1>2, <2>1, <2>2, <2>3, <2>4, <2>5, <2>6, <2>7 DEF WorkerNext
<1>3. CASE DeviceNext
  BY <1>3 DEF DeviceNext, DeviceFetch, DeviceReturn, PoolTypes
<1>4. CASE Rest
  BY <1>4 DEF Rest, vars, deviceVars
<1>5. QED
  BY <1>1, <1>2, <1>3, <1>4 DEF Next

(* Every variable stays in its range.  The pool never overflows its array  *)
(* of VIOSND_RENDER_IO_POOL_SIZE entries, although blocks come back to it  *)
(* beside those a new pool was filled with.                                *)
THEOREM TypeCorrect == Spec => []TypeOK
<1>1. Init => Places /\ Flags /\ DeviceTypes
  BY DEF Init, Places, Flags, DeviceTypes, States, ClientPlaces, WorkerPlaces
<1>2. Places /\ Flags /\ DeviceTypes /\ Accounts /\ [Next]_vars
        => Places' /\ Flags' /\ DeviceTypes'
  <2> SUFFICES ASSUME Places, Flags, DeviceTypes, Accounts, [Next]_vars
               PROVE  Places' /\ Flags' /\ DeviceTypes'
    OBVIOUS
  <2>1. CASE UNCHANGED vars \/ Rest \/ DeviceNext
    <3>1. /\ UNCHANGED <<state, goal, old, client, worker>>
          /\ UNCHANGED <<thread, stop_event, freed, buffer, attempted, fallback, joined,
                         status, pcm>>
      BY <2>1 DEF Rest, DeviceNext, DeviceFetch, DeviceReturn, vars, streamVars,
         objectVars, modeVars, deviceVars, callVars, workerVars
    <3>2. DeviceTypes'
      BY <2>1, DeviceTyped, UntouchedTypes DEF Next, Accounts, vars, deviceVars
    <3>3. QED
      BY <3>1, <3>2, UntouchedTypes
  <2>2. QED
    BY <2>1, ClientPlaced, WorkerPlaced, ClientFlags, WorkerFlags, DeviceTyped
    DEF Next, Accounts
<1>3. /\ Init => faults \in Scenarios
      /\ faults \in Scenarios /\ [Next]_vars => (faults \in Scenarios)'
  BY DEF Init, Next, Rest, vars
<1>4. Places /\ Flags /\ DeviceTypes /\ Accounts /\ Held /\ faults \in Scenarios
        => TypeOK
  BY DEF Places, Flags, DeviceTypes, Accounts, PoolTypes, Held, HoldersCounted,
     Client, Worker, TypeOK
<1>5. QED
  BY <1>1, <1>2, <1>3, <1>4, AccountsAlways, HeldAlways, PTL DEF Spec

(* A block is in the pool or on the ring, never both, and its memory is    *)
(* live exactly as long, and m_OutstandingWrites never exceeds the ring's, *)
(* whatever fails and however SetState, the worker and the device          *)
(* interleave (ReclaimRenderPackets, CancelRenderWrites,                   *)
(* AllocateRenderIoPool, FreeRenderIoPool).                                *)
THEOREM BlocksSafe == Spec => []BlocksInv
<1>1. Accounts => BlocksAccounted /\ CounterIsCovered
  BY DEF Accounts
<1>2. QED
  BY <1>1, AccountsAlways, TypeCorrect, PTL DEF BlocksInv

-----------------------------------------------------------------------------
(* What a call finds, and leaves, while every command is carried out.      *)

(* There are packets for the preroll, and the TX ring has room for it.     *)
PrerollFits == Preroll <= PoolSize /\ Preroll <= RingRoom

(* The stream has no worker and holds no block; it may be on its way down. *)
Alone  == thread = FALSE /\ worker = "none"
AtRest == \/ client = "idle" /\ state # "RUN"
          \/ client \in {"configure", "allocate", "unmap", "drop", "gone"}

Resting ==
  AtRest => /\ state # "RUN" /\ Alone /\ pcm = FALSE
            /\ allocated = {} /\ outstanding = 0

(* There are enough blocks to post the preroll, and all that were posted   *)
(* are counted until the device may return one.                            *)
Stocked == buffer = TRUE /\ PoolSize <= Cardinality(pool) + Cardinality(posted)
Counted == outstanding = Cardinality(posted)

(* The device answered RELEASE: it has returned whatever it had.           *)
Returned == device = {} /\ used = posted

Launching ==
  /\ client \in {"preroll", "start", "launch"} => Alone /\ Stocked
  /\ client \in {"preroll", "start"} => state # "RUN" /\ pcm = FALSE
  /\ client = "preroll" => Counted
  /\ client = "launch" => pcm = TRUE
  /\ client = "withdraw" => Alone

GoingDown ==
  /\ client = "stop" => Alone /\ state # "RUN"
  /\ client \in {"cancel", "detach", "free"} =>
       Alone /\ state # "RUN" /\ pcm = FALSE /\ Returned
  /\ client \in {"detach", "free"} => posted = {}

(* The stream runs, or is waiting for its worker to end.                   *)
Runs == (client = "idle" /\ state = "RUN") \/ client = "join"

Running ==
  Runs =>
    /\ thread = TRUE /\ Stocked
    /\ IF client = "idle" THEN worker # "none" /\ stop_event = FALSE
                          ELSE state # "RUN" /\ stop_event = TRUE
    /\ worker = "none" \/ Switching \/ pcm = TRUE
    /\ worker = "exit" => stop_event = TRUE
    /\ worker = "fb_cancel" => Returned
    /\ worker = "fb_detach" => posted = {}
    /\ worker \in {"fb_cancel", "fb_detach"} => status = TRUE
    /\ worker \in {"fb_configure", "fb_preroll"} => Counted

(* The device has its blocks from the ring, each once.                     *)
OnRing == device \cup used \subseteq posted /\ device \cap used = {}

Order == /\ joined = TRUE /\ client \notin {"rejoin", "close"}
         /\ OnRing /\ Resting /\ Launching /\ GoingDown /\ Running

Ordered == Obeyed => Order

LEMMA Faultless ==
  Obeyed => ~Fault("command") /\ ~Fault("handle") /\ ~Fault("slow") /\ ~Fault("mutex")
  BY DEF Obeyed, Fault

(* Everything on the used ring goes to the pool, as far as it has places.  *)
LEMMA ReclaimsAll ==
  ASSUME Obeyed, Accounts, OnRing, ReclaimRenderPackets
  PROVE  /\ posted' = posted \ used /\ used' = {} /\ UNCHANGED <<pcm, device>> /\ OnRing'
         /\ PoolSize <= Cardinality(pool) + Cardinality(posted)
              => PoolSize <= Cardinality(pool') + Cardinality(posted')
<1>1. PICK K \in SUBSET used : Settle(used, K) /\ used' = {} /\ UNCHANGED <<pcm, device>>
  BY Faultless DEF ReclaimRenderPackets
<1>2. posted' = posted \ used /\ pool' = pool \cup K
  BY <1>1 DEF Settle
<1>3. /\ pool \subseteq Ios /\ posted \subseteq Ios /\ used \subseteq posted /\ pool \cap K = {}
  BY <1>1 DEF Accounts, PoolTypes, BlocksAccounted, OnRing
<1>4. /\ Cardinality(pool) \in Nat /\ Cardinality(posted) \in Nat
      /\ Cardinality(used) \in Nat /\ Cardinality(K) \in Nat
  BY <1>1, <1>3, Finite
<1>5. Cardinality(pool \cup K) = Cardinality(pool) + Cardinality(K)
  <2>1. K \subseteq Ios
    BY <1>3
  <2>2. Cardinality(pool \cup K) = Cardinality(pool) + Cardinality(K) - Cardinality(pool \cap K)
    BY <1>3, <2>1, Finite, FS_Union
  <2>3. Cardinality(pool \cap K) = 0
    BY <1>3, FS_EmptySet
  <2>4. QED
    BY <1>4, <2>2, <2>3
<1>6. Cardinality(posted \ used) = Cardinality(posted) - Cardinality(used)
  <2>1. Cardinality(posted \ used) = Cardinality(posted) - Cardinality(posted \cap used)
    BY <1>3, Finite, FS_Difference
  <2>2. posted \cap used = used
    BY <1>3
  <2>3. QED
    BY <2>1, <2>2
<1>7. K = used \/ Cardinality(pool) + Cardinality(K) = PoolSize
  BY <1>1 DEF Settle
<1>8. Cardinality(posted \ used) \in Nat
  BY <1>3, Finite
<1>9. PoolSize <= Cardinality(pool) + Cardinality(posted)
        => PoolSize <= Cardinality(pool') + Cardinality(posted')
  BY <1>2, <1>4, <1>5, <1>6, <1>7, <1>8, RenderStreamAssumption
<1>10. OnRing'
  BY <1>1, <1>2 DEF OnRing
<1>11. QED
  BY <1>1, <1>2, <1>9, <1>10

(* There is nothing to take back when nothing is on the ring.              *)
LEMMA DetachesNone ==
  ASSUME Accounts, posted = {}, DetachUnused
  PROVE  /\ posted' = {} /\ outstanding' = 0
         /\ UNCHANGED <<pool, allocated, device, used, pcm>>
<1>1. PICK D \in SUBSET posted, K \in SUBSET posted : Settle(D, K) /\ UNCHANGED deviceVars
  BY DEF DetachUnused
<1>2. D = {} /\ K = {} /\ Cardinality({}) = 0
  BY <1>1, FS_EmptySet
<1>3. outstanding = 0
  BY <1>2 DEF Accounts, PoolTypes, CounterIsCovered
<1>4. QED
  BY <1>1, <1>2, <1>3 DEF Settle, Fewer, deviceVars

LEMMA SubmitsOne ==
  ASSUME Accounts, OnRing, Submit
  PROVE  /\ outstanding' = outstanding + 1
         /\ Cardinality(posted') = Cardinality(posted) + 1
         /\ Cardinality(pool') = Cardinality(pool) - 1
         /\ Cardinality(pool) \in Nat /\ Cardinality(posted) \in Nat
         /\ UNCHANGED <<pcm, device, used>> /\ OnRing'
<1>1. PICK io \in pool : pool' = pool \ {io} /\ posted' = posted \cup {io}
  BY DEF Submit
<1>2. io \notin posted /\ io \in Ios
  BY DEF Accounts, BlocksAccounted, PoolTypes
<1>3. /\ Cardinality(pool') = Cardinality(pool) - 1
      /\ Cardinality(posted') = Cardinality(posted) + 1
      /\ Cardinality(pool) \in Nat /\ Cardinality(posted) \in Nat
  BY <1>1, <1>2, Finite, FS_AddElement, FS_RemoveElement DEF Accounts, PoolTypes
<1>4. UNCHANGED <<pcm, device, used>> /\ outstanding' = outstanding + 1
  BY DEF Submit, deviceVars
<1>5. OnRing'
  BY <1>1, <1>4 DEF OnRing
<1>6. QED
  BY <1>3, <1>4, <1>5

LEMMA SubmitsStocked ==
  ASSUME Accounts, OnRing, Submit, Stocked, UNCHANGED buffer PROVE Stocked'
<1>1. /\ Cardinality(posted') = Cardinality(posted) + 1
      /\ Cardinality(pool') = Cardinality(pool) - 1
      /\ Cardinality(pool) \in Nat /\ Cardinality(posted) \in Nat
  BY SubmitsOne
<1>2. QED
  BY <1>1, RenderStreamAssumption DEF Stocked

(* The preroll never wants for a block or for room.                        *)
LEMMA PrerollSubmits ==
  ASSUME PrerollFits, Obeyed, Accounts, Stocked, Counted, outstanding < Preroll
  PROVE  ~SubmitFails
<1>1. Cardinality(pool) \in Nat /\ Cardinality(posted) \in Nat /\ Cardinality({}) = 0
  BY Finite, FS_EmptySet DEF Accounts, PoolTypes
<1>2. Cardinality(posted) < RingRoom
  BY <1>1, RenderStreamAssumption DEF PrerollFits, Counted
<1>3. pool # {}
  <2>1. Cardinality(pool) # 0
    BY <1>1, RenderStreamAssumption DEF PrerollFits, Counted, Stocked
  <2>2. QED
    BY <1>1, <2>1
<1>4. QED
  BY <1>1, <1>2, <1>3, Faultless, RenderStreamAssumption DEF SubmitFails, Stocked

LEMMA AllocatesAll ==
  ASSUME Accounts, AllocateRenderIoPool
  PROVE  /\ pool # {} \/ buffer
         /\ UNCHANGED <<posted, outstanding>>
         /\ \/ UNCHANGED poolVars
            \/ Cardinality(pool') = PoolSize
         /\ PoolSize <= Cardinality(pool) + Cardinality(posted)
              => PoolSize <= Cardinality(pool') + Cardinality(posted')
         /\ pool = {} => Cardinality(pool') = PoolSize
<1>1. Cardinality(posted) \in Nat
  BY Finite DEF Accounts, PoolTypes
<1>2. QED
  BY <1>1, RenderStreamAssumption DEF AllocateRenderIoPool, poolVars

-----------------------------------------------------------------------------
LEMMA ClientOrder ==
  ASSUME PrerollFits, Obeyed, Accounts, Turns, Order, ~Undefined, ClientNext
  PROVE  Order'
<1> USE Faultless DEF Order, AtRest, Resting, Alone, Launching, GoingDown, Runs, Running
<1>0. /\ ~Fault("command") /\ ~Fault("handle") /\ ~Fault("slow") /\ ~Fault("mutex")
      /\ allocated = pool \cup posted /\ outstanding \in Nat
      /\ outstanding <= Cardinality(posted) /\ Cardinality({}) = 0
  BY FS_EmptySet DEF Accounts, PoolTypes, BlocksAccounted, CounterIsCovered
<1>1. CASE SetStateRun
  BY <1>0, <1>1 DEF SetStateRun, poolVars, deviceVars, workerVars, OnRing, objectVars
<1>2. CASE Configure
  BY <1>0, <1>2 DEF Configure, poolVars, deviceVars, workerVars, OnRing, objectVars
<1>3. CASE Allocate
  <2>1. /\ UNCHANGED <<state, thread, worker, pcm, device, used, joined, buffer, old>>
        /\ client = "allocate" /\ pool = {} /\ posted = {} /\ outstanding = 0
        /\ state # "RUN" /\ Alone /\ pcm = FALSE
    BY <1>0, <1>3 DEF Allocate, objectVars, deviceVars, workerVars
  <2>2. CASE AllocateRenderIoPool /\ client' = "preroll"
    <3>1. /\ buffer /\ Cardinality(pool') = PoolSize /\ UNCHANGED <<posted, outstanding>>
      BY <2>1, <2>2, AllocatesAll
    <3>2. Stocked'
      BY <1>0, <2>1, <3>1, RenderStreamAssumption DEF Stocked
    <3>3. Counted' /\ OnRing'
      BY <1>0, <2>1, <3>1 DEF Counted, OnRing
    <3>4. QED
      BY <2>1, <2>2, <3>2, <3>3
  <2>3. CASE AllocationFails /\ client' = "cancel"
    <3>1. UNCHANGED <<posted, outstanding>>
      BY <2>3 DEF AllocationFails
    <3>2. Returned' /\ OnRing'
      BY <2>1, <3>1 DEF Returned, OnRing
    <3>3. QED
      BY <2>1, <2>3, <3>2
  <2>4. QED
    BY <1>3, <2>2, <2>3 DEF Allocate
<1>4. CASE PrerollPacket
  <2>1. /\ UNCHANGED <<state, thread, worker, joined, buffer>>
        /\ client = "preroll" /\ outstanding < Preroll /\ Stocked /\ Counted
    BY <1>4 DEF PrerollPacket, objectVars, workerVars
  <2>2. Submit /\ UNCHANGED client
    BY <1>4, <2>1, PrerollSubmits DEF PrerollPacket
  <2>3. Stocked' /\ Counted' /\ OnRing' /\ UNCHANGED pcm
    BY <2>1, <2>2, SubmitsStocked, SubmitsOne DEF Counted
  <2>4. QED
    BY <2>1, <2>2, <2>3
<1>5. CASE Prerolled
  BY <1>0, <1>5 DEF Prerolled, poolVars, deviceVars, workerVars, OnRing, objectVars, Stocked
<1>6. CASE Start
  BY <1>0, <1>6 DEF Start, Started, NotStarted, poolVars, workerVars, OnRing, objectVars, Stocked
<1>7. CASE Launch
  <2>1. /\ client = "launch" /\ client' = "idle" /\ thread' = TRUE /\ stop_event' = FALSE
        /\ worker' = "wait" /\ AllocateRenderIoPool /\ state = "RUN"
        /\ UNCHANGED <<state, buffer, joined, pcm, device, used>>
    BY <1>7 DEF Launch, Return, deviceVars, Turns
  <2>2. Stocked' /\ OnRing'
    BY <2>1, AllocatesAll DEF Stocked, OnRing
  <2>3. QED
    BY <2>1, <2>2 DEF Switching
<1>8. CASE LaunchFails
  <2>1. /\ client' = "withdraw" /\ UNCHANGED <<state, thread, joined, worker, device, used, posted>>
        /\ client = "launch"
    BY <1>0, <1>8 DEF LaunchFails, deviceVars, AllocateRenderIoPool, AllocationFails, poolVars
  <2>2. QED
    BY <2>1 DEF OnRing
<1>9. CASE Withdraw
  <2>1. /\ Released /\ client' = "cancel" /\ client = "withdraw" /\ state' # "RUN"
        /\ UNCHANGED <<thread, joined, worker, posted>>
    BY <1>0, <1>9 DEF Withdraw, NotReleased, workerVars, poolVars, Turns, Starting
  <2>2. QED
    BY <2>1 DEF Released, Returned, OnRing
<1>10. CASE SetStateDown
  <2>1. /\ state = "RUN" /\ client = "idle" /\ client' = "join" /\ stop_event' = TRUE
        /\ state' # "RUN" /\ joined' = TRUE
        /\ UNCHANGED <<thread, buffer, pool, posted, outstanding, pcm, device, used, worker, status>>
    BY <1>10 DEF SetStateDown, objectVars, poolVars, deviceVars, workerVars
  <2>2. QED
    BY <2>1 DEF OnRing, Stocked, Counted, Returned, Switching
<1>11. CASE SetStateOther
  <2>1. /\ client = "idle" /\ client' = "idle" /\ (state = "RUN" <=> state' = "RUN")
        /\ UNCHANGED <<thread, stop_event, buffer, allocated, pool, posted, outstanding>>
        /\ UNCHANGED <<pcm, device, used, joined, worker, status>>
    BY <1>11 DEF SetStateOther, objectVars, poolVars, deviceVars, callVars, workerVars
  <2>2. QED
    BY <2>1 DEF OnRing, Stocked, Counted, Returned, Switching
<1>12. CASE Join
  <2>1. /\ client = "join" /\ client' = "stop" /\ worker = "none" /\ thread' = FALSE
        /\ joined' = TRUE /\ UNCHANGED <<state, worker, posted, device, used>>
    BY <1>12 DEF Join, AfterJoin, FreeRenderIoPool, deviceVars, workerVars
  <2>2. QED
    BY <2>1 DEF OnRing
<1>13. CASE JoinTimesOut
  BY <1>0, <1>13 DEF JoinTimesOut
<1>14. CASE StopAndRelease
  <2>1. /\ Released /\ client' = "cancel" /\ client = "stop"
        /\ UNCHANGED <<state, thread, joined, worker, posted>>
    BY <1>0, <1>14 DEF StopAndRelease, NotReleased, workerVars, poolVars
  <2>2. QED
    BY <2>1 DEF Released, Returned, OnRing
<1>15. CASE Cancel
  <2>1. /\ client = "cancel" /\ client' = "detach" /\ Returned
        /\ UNCHANGED <<state, thread, joined, worker>>
    BY <1>15 DEF Cancel, workerVars
  <2>2. posted' = {} /\ used' = {} /\ UNCHANGED <<pcm, device>> /\ OnRing'
    BY <1>15, <2>1, ReclaimsAll DEF Cancel, Returned
  <2>3. QED
    BY <2>1, <2>2 DEF Returned
<1>16. CASE Detach
  <2>1. /\ client = "detach" /\ client' = "free" /\ Returned /\ posted = {}
        /\ UNCHANGED <<state, thread, joined, worker>>
    BY <1>16 DEF Detach, workerVars
  <2>2. posted' = {} /\ UNCHANGED <<pcm, device, used>>
    BY <1>16, <2>1, DetachesNone DEF Detach
  <2>3. QED
    BY <2>1, <2>2 DEF Returned, OnRing
<1>17. CASE Finish
  <2>1. /\ client = "free" /\ client' = "idle" /\ Returned /\ posted = {}
        /\ FreePool(outstanding) /\ outstanding' \in {0, outstanding}
        /\ UNCHANGED <<thread, joined, worker, posted, pcm, device, used>>
        /\ state' # "RUN"
    BY <1>0, <1>17 DEF Finish, Failed, Return, deviceVars, workerVars, Turns, Cleaning
  <2>2. outstanding = 0 /\ allocated' = {}
    BY <1>0, <2>1 DEF FreePool
  <2>3. QED
    BY <2>1, <2>2 DEF OnRing
<1>18. CASE AllocateAudioBuffer \/ Unmap
  <2>1. /\ client = "idle" /\ state # "RUN" /\ client' \in {"idle", "unmap"}
        /\ UNCHANGED <<state, thread, joined, worker, allocated, posted, outstanding>>
        /\ UNCHANGED <<pcm, device, used>>
    BY <1>18 DEF AllocateAudioBuffer, Unmap, Stopped, poolVars, deviceVars, callVars, workerVars
  <2>2. QED
    BY <2>1 DEF OnRing
<1>19. CASE FreeAudioBuffer
  <2>1. /\ client = "unmap" /\ client' = "idle" /\ outstanding' = 0
        /\ FreePool(outstanding)
        /\ UNCHANGED <<state, thread, joined, worker, posted, pcm, device, used>>
    BY <1>19 DEF FreeAudioBuffer, deviceVars, workerVars
  <2>2. allocated' = {}
    BY <2>1 DEF FreePool
  <2>3. QED
    BY <2>1, <2>2 DEF OnRing
<1>20. CASE Close
  <2>1. /\ client = "idle" /\ state # "RUN" /\ client' = "drop"
        /\ UNCHANGED <<state, thread, joined, worker, allocated, posted, outstanding>>
        /\ UNCHANGED <<pcm, device, used>>
    BY <1>20 DEF Close, Stopped, poolVars, deviceVars, workerVars
  <2>2. QED
    BY <2>1 DEF OnRing
<1>21. CASE Drop
  <2>1. /\ client = "drop" /\ client' = "gone" /\ thread' \in {thread, FALSE}
        /\ UNCHANGED <<state, joined, worker, posted, pcm, device, used>>
        /\ outstanding' \in {outstanding, 0}
        /\ FreePool(outstanding') \/ UNCHANGED allocated
    BY <1>21 DEF Drop, Dereference, poolVars, deviceVars, workerVars
  <2>2. allocated' = {}
    BY <2>1 DEF FreePool
  <2>3. QED
    BY <2>1, <2>2 DEF OnRing
<1>22. QED
  BY <1>1, <1>2, <1>3, <1>4, <1>5, <1>6, <1>7, <1>8, <1>9, <1>10, <1>11, <1>12, <1>13, <1>14,
     <1>15, <1>16, <1>17, <1>18, <1>19, <1>20, <1>21
  DEF ClientNext

LEMMA WorkerOrder ==
  ASSUME PrerollFits, Obeyed, Accounts, client \in ClientPlaces, Held, Order, ~Undefined,
         WorkerNext
  PROVE  Order'
<1> USE DEF WorkerGoes, streamVars, callVars, objectVars, modeVars
<1>0. /\ ~Fault("command") /\ ~Fault("handle") /\ ~Fault("slow") /\ ~Fault("mutex")
      /\ Cardinality({}) = 0 /\ outstanding \in Nat /\ outstanding <= Cardinality(posted)
  BY Faultless, FS_EmptySet DEF Accounts, PoolTypes, CounterIsCovered
<1>1. worker # "none"
  BY DEF WorkerNext, Wake, Reclaim, MaybeSwitchRenderFallback, SwitchStop, SwitchCancel,
     SwitchDetach, SwitchConfigure, SwitchPreroll, SwitchStart, Wanted, SubmitPacket, SubmitDone,
     Exit
<1>2. Runs
  BY <1>1 DEF Order, AtRest, Resting, Alone, Launching, GoingDown, Runs, ClientPlaces
<1>3. /\ thread = TRUE /\ Stocked /\ OnRing
      /\ IF client = "idle" THEN worker # "none" /\ stop_event = FALSE
                            ELSE state # "RUN" /\ stop_event = TRUE
      /\ worker = "none" \/ Switching \/ pcm = TRUE
      /\ worker = "exit" => stop_event = TRUE
      /\ worker = "fb_cancel" => Returned
      /\ worker = "fb_detach" => posted = {}
      /\ worker \in {"fb_cancel", "fb_detach"} => status = TRUE
      /\ worker \in {"fb_configure", "fb_preroll"} => Counted
  BY <1>2 DEF Order, Running
<1>4. ASSUME UNCHANGED <<client, state, thread, stop_event, joined>>, Stocked', OnRing',
             worker' = "none" => client # "idle",
             worker' = "none" \/ Switching' \/ pcm' = TRUE,
             worker' = "exit" => stop_event = TRUE,
             worker' = "fb_cancel" => Returned',
             worker' = "fb_detach" => posted' = {},
             worker' \in {"fb_cancel", "fb_detach"} => status' = TRUE,
             worker' \in {"fb_configure", "fb_preroll"} => Counted'
      PROVE  Order'
  BY <1>2, <1>3, <1>4 DEF Order, AtRest, Resting, Launching, GoingDown, Runs, Running
<1>5. CASE Wake \/ MaybeSwitchRenderFallback \/ Wanted \/ SubmitDone
  <2>1. /\ UNCHANGED <<client, state, thread, stop_event, joined, buffer, pool, posted,
                       device, used, pcm>>
        /\ worker \in {"wait", "monitor", "submit", "post"}
        /\ worker' \in {"wait", "reclaim", "submit", "post", "fb_stop", "exit"}
        /\ worker' = "exit" => stop_event
    BY <1>5 DEF Wake, MaybeSwitchRenderFallback, Wanted, SubmitDone, poolVars, deviceVars
  <2>2. Stocked' /\ OnRing' /\ pcm' = TRUE
    BY <1>3, <2>1 DEF Stocked, OnRing, Switching
  <2>3. worker' = "exit" => stop_event = TRUE
    BY <1>2, <1>3, <2>1
  <2>4. QED
    BY <1>4, <2>1, <2>2, <2>3
<1>6. CASE Reclaim \/ SwitchCancel
  <2>1. /\ UNCHANGED <<client, state, thread, stop_event, joined, buffer, status>>
        /\ \/ worker = "reclaim" /\ worker' = "monitor"
           \/ worker = "fb_cancel" /\ worker' = "fb_detach"
        /\ ReclaimRenderPackets
    BY <1>6 DEF Reclaim, SwitchCancel
  <2>2. posted' = posted \ used /\ UNCHANGED <<pcm, device>> /\ OnRing' /\ Stocked'
    BY <1>3, <2>1, ReclaimsAll DEF Stocked
  <2>3. worker = "reclaim" => pcm' = TRUE
    BY <1>3, <2>2 DEF Switching
  <2>4. worker = "fb_cancel" => posted' = {} /\ status' = TRUE
    BY <1>3, <2>1, <2>2 DEF Returned
  <2>5. QED
    BY <1>4, <2>1, <2>2, <2>3, <2>4 DEF Switching
<1>7. CASE SwitchStop
  <2>1. /\ UNCHANGED <<client, state, thread, stop_event, joined, buffer, pool, posted>>
        /\ worker' = "fb_cancel" /\ Released /\ status' = TRUE
    BY <1>0, <1>7 DEF SwitchStop, NotReleased, poolVars
  <2>2. Stocked' /\ OnRing' /\ Returned'
    BY <1>3, <2>1 DEF Stocked, OnRing, Returned, Released
  <2>3. QED
    BY <1>4, <2>1, <2>2 DEF Switching
<1>8. CASE SwitchDetach
  <2>1. /\ UNCHANGED <<client, state, thread, stop_event, joined, buffer>>
        /\ worker = "fb_detach" /\ worker' = "fb_configure" /\ DetachUnused
    BY <1>3, <1>8 DEF SwitchDetach
  <2>2. /\ posted = {} /\ posted' = {} /\ outstanding' = 0
        /\ UNCHANGED <<pool, device, used, pcm>>
    BY <1>3, <2>1, DetachesNone
  <2>3. Stocked' /\ OnRing' /\ Counted'
    BY <1>0, <1>3, <2>1, <2>2 DEF Stocked, OnRing, Counted
  <2>4. QED
    BY <1>4, <2>1, <2>3 DEF Switching
<1>9. CASE SwitchConfigure
  <2>1. /\ UNCHANGED <<client, state, thread, stop_event, joined, buffer, pool, posted>>
        /\ UNCHANGED <<outstanding, device, used>>
        /\ worker = "fb_configure" /\ worker' = "fb_preroll"
    BY <1>0, <1>9 DEF SwitchConfigure, poolVars, deviceVars
  <2>2. Stocked' /\ OnRing' /\ Counted'
    BY <1>3, <2>1 DEF Stocked, OnRing, Counted
  <2>3. QED
    BY <1>4, <2>1, <2>2 DEF Switching
<1>10. CASE SwitchPreroll
  <2>1. UNCHANGED <<client, state, thread, stop_event, joined, buffer>> /\ worker = "fb_preroll"
    BY <1>10 DEF SwitchPreroll
  <2>2. CASE outstanding < Preroll
    <3>1. Submit /\ worker' = worker
      <4>1. ~SubmitFails /\ ~(outstanding >= Preroll)
        BY <1>0, <1>3, <2>1, <2>2, PrerollSubmits, RenderStreamAssumption
      <4>2. QED
        BY <1>10, <4>1 DEF SwitchPreroll
    <3>2. Stocked' /\ Counted' /\ OnRing'
      BY <1>3, <2>1, <3>1, SubmitsStocked, SubmitsOne DEF Counted
    <3>3. QED
      BY <1>4, <2>1, <3>1, <3>2 DEF Switching
  <2>3. CASE ~(outstanding < Preroll)
    <3>1. worker' = "fb_start" /\ UNCHANGED <<pool, posted, outstanding, device, used>>
      BY <1>10, <2>3 DEF SwitchPreroll, poolVars, deviceVars
    <3>2. Stocked' /\ OnRing'
      BY <1>3, <2>1, <3>1 DEF Stocked, OnRing
    <3>3. QED
      BY <1>4, <2>1, <3>1, <3>2 DEF Switching
  <2>4. QED
    BY <2>2, <2>3
<1>11. CASE SwitchStart
  <2>1. /\ UNCHANGED <<client, state, thread, stop_event, joined, buffer, pool, posted>>
        /\ UNCHANGED <<device, used>> /\ pcm' = TRUE /\ worker' = "submit"
    BY <1>0, <1>11 DEF SwitchStart, Started, NotStarted, poolVars
  <2>2. Stocked' /\ OnRing'
    BY <1>3, <2>1 DEF Stocked, OnRing
  <2>3. QED
    BY <1>4, <2>1, <2>2
<1>12. CASE SubmitPacket
  <2>1. /\ UNCHANGED <<client, state, thread, stop_event, joined, buffer>>
        /\ worker = "post" /\ worker' = "submit" /\ Submit
    BY <1>12 DEF SubmitPacket
  <2>2. Stocked' /\ OnRing' /\ pcm' = TRUE
    BY <1>3, <2>1, SubmitsStocked, SubmitsOne DEF Switching
  <2>3. QED
    BY <1>4, <2>1, <2>2
<1>13. CASE Exit
  <2>1. /\ UNCHANGED <<client, state, stop_event, joined>> /\ worker = "exit" /\ worker' = "none"
        /\ Dereference
    BY <1>13 DEF Exit
  <2>2. client # "idle" /\ client # "gone"
    BY <1>2, <1>3, <2>1 DEF Runs
  <2>3. refs = 2
    BY <2>1, <2>2 DEF Held, HoldersCounted, Client, Worker
  <2>4. UNCHANGED <<thread, buffer, pool, posted, device, used>>
    BY <2>1, <2>3 DEF Dereference, poolVars, deviceVars
  <2>5. Stocked' /\ OnRing'
    BY <1>3, <2>4 DEF Stocked, OnRing
  <2>6. QED
    BY <1>4, <2>1, <2>2, <2>4, <2>5
<1>14. QED
  BY <1>5, <1>6, <1>7, <1>8, <1>9, <1>10, <1>11, <1>12, <1>13 DEF WorkerNext

(* The device fetches only what the ring has, and returns what it fetched. *)
LEMMA DeviceOrder == ASSUME Order, DeviceNext PROVE Order'
<1>1. /\ UNCHANGED <<client, state, thread, stop_event, joined, goal, old, buffer, worker>>
      /\ UNCHANGED <<status, pcm, allocated, pool, posted, outstanding>>
  BY DEF DeviceNext, DeviceFetch, DeviceReturn, streamVars, objectVars, callVars, poolVars,
     workerVars
<1>2. OnRing'
  BY DEF DeviceNext, DeviceFetch, DeviceReturn, poolVars, Order, OnRing
<1>3. Returned => Returned'
  BY DEF DeviceNext, DeviceFetch, DeviceReturn, poolVars, Returned
<1>4. QED
  BY <1>1, <1>2, <1>3 DEF Order, AtRest, Resting, Alone, Launching, GoingDown, Runs, Running,
     Stocked, Counted, Switching

LEMMA OrderedAlways == ASSUME PrerollFits PROVE Spec => []Ordered
<1>1. Init => Ordered
  <2> SUFFICES ASSUME Init, Obeyed PROVE Order
    BY DEF Ordered
  <2>1. /\ joined = TRUE /\ client = "idle" /\ state = "STOP" /\ thread = FALSE
        /\ worker = "none" /\ pcm = FALSE /\ allocated = {} /\ outstanding = 0
        /\ device = {} /\ used = {} /\ posted = {}
    BY DEF Init
  <2>2. QED
    BY <2>1 DEF Order, OnRing, AtRest, Resting, Alone, Launching, GoingDown, Runs, Running
<1>2. Accounts /\ Held /\ Turns /\ TypeOK /\ Ordered /\ [Next]_vars => Ordered'
  <2> SUFFICES ASSUME Accounts, Held, Turns, TypeOK, Ordered, [Next]_vars, Obeyed'
               PROVE  Order'
    BY DEF Ordered
  <2>1. Obeyed /\ Order
    BY DEF Next, Rest, vars, Obeyed, Ordered
  <2>2. CASE Rest \/ UNCHANGED vars
    <3>1. UNCHANGED <<client, state, thread, stop_event, joined, goal, old, buffer, worker,
                      status, pcm, allocated, pool, posted, outstanding, device, used>>
      BY <2>2 DEF Rest, vars, objectVars, poolVars, deviceVars, callVars, workerVars
    <3>2. QED
      BY <2>1, <3>1 DEF Order, OnRing, AtRest, Resting, Alone, Launching, GoingDown, Runs,
         Running, Stocked, Counted, Returned, Switching
  <2>3. CASE ~Undefined /\ ClientNext
    BY <2>1, <2>3, ClientOrder
  <2>4. CASE ~Undefined /\ WorkerNext
    BY <2>1, <2>4, WorkerOrder DEF TypeOK
  <2>5. CASE DeviceNext
    BY <2>1, <2>5, DeviceOrder
  <2>6. QED
    BY <2>2, <2>3, <2>4, <2>5 DEF Next
<1>3. QED
  BY <1>1, <1>2, AccountsAlways, HeldAlways, TurnsAlways, TypeCorrect, PTL DEF Spec

(* Between two calls of SetState the stream, its worker and the device     *)
(* agree whether the stream runs, and a stream that does not run keeps no  *)
(* block and counts no write: SetState undoes whatever a start that failed *)
(* for want of memory or of a thread had done, and its STOP and RELEASE    *)
(* bring back what the device had.                                         *)
THEOREM RestHolds == ASSUME PrerollFits PROVE Spec => []RestInv
<1>1. Ordered => RestInv
  BY DEF Ordered, Order, RestInv, AgreeAtRest, CleanAtRest, AtRest, Resting, Alone, Runs, Running
<1>2. QED
  BY <1>1, OrderedAlways, PTL

(* CancelRenderWrites takes no block off the TX ring that the device has:  *)
(* it is called after the RELEASE that made the device return them all, or *)
(* when none had been posted.                                              *)
THEOREM RingRespected == ASSUME PrerollFits PROVE Spec => []NoStray
<1>1. Ordered => NoStray
  BY DEF Ordered, Order, OnRing, NoStray, Stray
<1>2. QED
  BY <1>1, OrderedAlways, PTL
====

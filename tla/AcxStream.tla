----------------------------- MODULE AcxStream ------------------------------
(***************************************************************************)
(* One stream of the ACX variant of the driver (ViosndAcxCircuit.cpp): the *)
(* stream callbacks of the framework, which runs one of them at a time;    *)
(* SetRenderPacket, which a client may call beside them; the interrupt's   *)
(* DPC, which drains the queue on another processor, and which stands for  *)
(* the other stream's callbacks, too, as they drain both queues; and the   *)
(* device.  All four meet at the periods, the queue of ready packets and   *)
(* the ring, each of which is locked for one access at a time.             *)
(*                                                                         *)
(* What a lock section does is one step, and so is each access outside the *)
(* locks that another thread's step can come before or after.  No          *)
(* execution is followed once freed memory is in use (Undefined).  The     *)
(* ring has room for all the periods; the framework allocates the RT       *)
(* packets of a stream that has no periods, and a client gives it packets  *)
(* neither while it is released nor after it is gone.                      *)
(***************************************************************************)
EXTENDS Naturals, Sequences, FiniteSets, SequencesExt

CONSTANTS
  PeriodCount,  (* what ViosndClampPeriodCount makes of PacketCount         *)
  PacketCount,  (* the RT packets, and RenderReadyCapacity                  *)
  MaxPackets    (* bound: the packets that are looked at                    *)

ASSUME AcxStreamAssumption ==
  /\ PeriodCount \in Nat \ {0}
  /\ PacketCount \in Nat \ {0}
  /\ MaxPackets \in Nat

VARIABLES
  stream,       (* Device->RenderStream or CaptureStream is this one        *)
  capture,      (* Capture                                                  *)
  prepared,     (* Prepared                                                 *)
  running,      (* Running                                                  *)
  packets,      (* PacketBuffers # NULL                                     *)
  periods,      (* Periods # NULL                                           *)
  inflight,     (* the periods with InFlight                                *)
  number,       (* Periods[i].PacketNumber                                  *)
  ready,        (* RenderReadyQueue, from RenderReadyHead on                *)
  pumping,      (* RenderPumpActive                                         *)
  completed,    (* PacketsCompleted                                         *)
  next_capture, (* NextCapturePacket                                        *)
  ring,         (* the periods the device has                               *)
  used,         (* the periods it gave back, oldest first                   *)
  at,           (* where each thread is                                     *)
  back,         (* where it goes on after draining or pumping               *)
  hand,         (* the period it got from the ring                          *)
  packet,       (* the packet it peeked at                                  *)
  higher,       (* the outcome of its comparison with PacketsCompleted      *)
  callback,     (* the stream callback that runs                            *)
  given,        (* the next packet of the client                            *)
  expected,     (* history: the next packet to be played                    *)
  returned,     (* history: one more than the newest packet given back      *)
  turn,         (* i, in Run's loop over the periods                        *)
  early,        (* history: read periods that came back before Running      *)
  marks         (* history: see Marks                                       *)

(* What the code does not guard against and the properties name: "forced": *)
(* the wait for the device to be idle ended with periods in flight.        *)
(* "inside": it ended while the DPC or a client was in the middle of it.   *)
(* "torn": the head of the queue changed under a pump.  "turned": a pump   *)
(* was left to another one that may have seen the queue empty.  "reused":  *)
(* a period was submitted again while its packet number was being read.    *)
(* "crossed": two threads were at PacketsCompleted.                        *)
Marks == {"forced", "inside", "torn", "turned", "reused", "crossed"}

statusVars == <<stream, capture, prepared, running, packets, callback>>
memoryVars == <<periods, inflight, number>>
ringVars   == <<ring, used>>
queueVars  == <<ready, given, expected>>
countVars  == <<completed, returned>>
readVars   == <<next_capture, turn, early>>
localVars  == <<back, hand, packet, higher>>
vars == <<statusVars, memoryVars, ringVars, queueVars, countVars, readVars, pumping,
          at, localVars, marks>>

Threads  == {"callback", "dpc", "client"}
Drainers == {"callback", "dpc"}
Periods  == 1 .. PeriodCount
NoPeriod == 0

Init ==
  /\ stream = TRUE /\ capture \in BOOLEAN
  /\ prepared = FALSE /\ running = FALSE /\ packets = FALSE
  /\ periods = FALSE /\ inflight = {} /\ number = [p \in Periods |-> 0]
  /\ ready = <<>> /\ pumping = FALSE
  /\ completed = 0 /\ next_capture = 0
  /\ ring = {} /\ used = <<>>
  /\ at = [t \in Threads |-> "idle"] /\ back = [t \in Threads |-> "idle"]
  /\ hand = [t \in Drainers |-> NoPeriod] /\ packet = [t \in Threads |-> 0]
  /\ higher = [t \in Drainers |-> FALSE]
  /\ callback = "none"
  /\ given = 0 /\ expected = 0 /\ returned = 0 /\ turn = 0 /\ early = {} /\ marks = {}

-----------------------------------------------------------------------------
Goes(t, from, to) == at[t] = from /\ at' = [at EXCEPT ![t] = to]

Marked(m, happens) == marks' = IF happens THEN marks \cup {m} ELSE marks

(* What another thread is doing with period p, or with the queue.          *)
InHand(p)      == \E t \in Drainers : hand[t] = p
Pumping(t)     == at[t] \in {"submit", "pop", "drop"}
Inside(t)      == at[t] # "idle"

(* A mark that no longer matters is dropped, unless somebody is inside.    *)
Forget(S) ==
  marks' = IF Inside("dpc") \/ Inside("client") THEN marks ELSE marks \ S

OnTheRing == ring \cup ToSet(used)

(* A period goes on the ring under packet number n.                        *)
Submit(p, n) ==
  /\ number'   = [number EXCEPT ![p] = n]
  /\ inflight' = inflight \cup {p}
  /\ ring'     = ring \cup {p}
  /\ UNCHANGED <<periods, used>>

-----------------------------------------------------------------------------
(* ViosndDrainRenderQueue and ViosndDrainCaptureQueue.                     *)

(* Under the lock: get_buf, and the period is not in flight any more.      *)
Get(t) ==
  /\ used # <<>>
  /\ Goes(t, "get", "look")
  /\ hand'     = [hand EXCEPT ![t] = Head(used)]
  /\ inflight' = inflight \ {Head(used)}
  /\ used'     = Tail(used)
  /\ returned' = IF number[Head(used)] >= returned THEN number[Head(used)] + 1
                 ELSE returned
  /\ UNCHANGED <<statusVars, periods, number, ring, queueVars, completed, readVars,
                 pumping, back, packet, higher, marks>>

GetNothing(t) ==
  /\ used = <<>>
  /\ Goes(t, "get", IF capture THEN back[t] ELSE "claim")
  /\ UNCHANGED <<statusVars, memoryVars, ringVars, queueVars, countVars, readVars,
                 pumping, localVars, marks>>

(* Without the lock: is the period's packet past PacketsCompleted?         *)
Look(t) ==
  /\ Goes(t, "look", "mark")
  /\ higher' = [higher EXCEPT ![t] = number[hand[t]] + 1 > completed]
  /\ Marked("crossed", \E u \in Drainers \ {t} : hand[u] # NoPeriod)
  /\ UNCHANGED <<statusVars, memoryVars, ringVars, queueVars, countVars, readVars,
                 pumping, back, hand, packet>>

(* Mistaken: it counts the periods, not the packets.                       *)
Mut_Mark_Counts(t) ==
  /\ Goes(t, "mark", IF capture THEN "ask" ELSE "get")
  /\ completed' = completed + 1
  /\ hand'      = IF capture THEN hand ELSE [hand EXCEPT ![t] = NoPeriod]
  /\ higher'    = [higher EXCEPT ![t] = FALSE]
  /\ UNCHANGED <<statusVars, memoryVars, ringVars, queueVars, returned, readVars,
                 pumping, back, packet, marks>>

(* Mistaken: the packet given back last is taken for the newest.           *)
Mut_Mark_Newest(t) ==
  /\ Goes(t, "mark", IF capture THEN "ask" ELSE "get")
  /\ completed' = number[hand[t]] + 1
  /\ hand'      = IF capture THEN hand ELSE [hand EXCEPT ![t] = NoPeriod]
  /\ higher'    = [higher EXCEPT ![t] = FALSE]
  /\ UNCHANGED <<statusVars, memoryVars, ringVars, queueVars, returned, readVars,
                 pumping, back, packet, marks>>

(* It is counted and reported.                                             *)
Mark(t) ==
  /\ Goes(t, "mark", IF capture THEN "ask" ELSE "get")
  /\ completed' = IF higher[t] THEN number[hand[t]] + 1 ELSE completed
  /\ hand'      = IF capture THEN hand ELSE [hand EXCEPT ![t] = NoPeriod]
  /\ higher'    = [higher EXCEPT ![t] = FALSE]
  /\ UNCHANGED <<statusVars, memoryVars, ringVars, queueVars, returned, readVars,
                 pumping, back, packet, marks>>

(* A capture stream that runs goes on to submit it again.                  *)
Ask(t) ==
  /\ Goes(t, "ask", IF running THEN "refill" ELSE "get")
  /\ hand'  = IF running THEN hand ELSE [hand EXCEPT ![t] = NoPeriod]
  /\ early' = IF running THEN early ELSE early \cup ({hand[t]} \ inflight)
  /\ UNCHANGED <<statusVars, memoryVars, ringVars, queueVars, countVars, next_capture,
                 turn, pumping, back, packet, higher, marks>>

(* ViosndSubmitCapturePeriod; STATUS_DEVICE_BUSY when it is in flight.     *)
Refill(t) ==
  /\ hand[t] \notin inflight
  /\ Goes(t, "refill", "bump")
  /\ Submit(hand[t], next_capture)
  /\ hand' = [hand EXCEPT ![t] = NoPeriod]
  /\ UNCHANGED <<statusVars, queueVars, countVars, readVars, pumping, back, packet,
                 higher, marks>>

RefillBusy(t) ==
  /\ hand[t] \in inflight
  /\ Goes(t, "refill", "get")
  /\ hand' = [hand EXCEPT ![t] = NoPeriod]
  /\ UNCHANGED <<statusVars, memoryVars, ringVars, queueVars, countVars, readVars,
                 pumping, back, packet, higher, marks>>

(* NextCapturePacket++.                                                    *)
Bump(t) ==
  /\ Goes(t, "bump", "get")
  /\ next_capture' = next_capture + 1
  /\ UNCHANGED <<statusVars, memoryVars, ringVars, queueVars, countVars, turn, early,
                 pumping, localVars, marks>>

Drain == \E t \in Drainers : \/ Get(t) \/ GetNothing(t) \/ Look(t) \/ Mark(t)
                             \/ Ask(t) \/ Refill(t) \/ RefillBusy(t) \/ Bump(t)

-----------------------------------------------------------------------------
(* ViosndPumpRenderQueue: whoever finds it active leaves it to the other.  *)
Claim(t) ==
  /\ prepared /\ ~pumping
  /\ Goes(t, "claim", "peek")
  /\ pumping' = TRUE
  /\ marks'   = marks \ {"turned"}
  /\ UNCHANGED <<statusVars, memoryVars, ringVars, queueVars, countVars, readVars,
                 localVars>>

ClaimNot(t) ==
  /\ ~prepared \/ pumping
  /\ Goes(t, "claim", back[t])
  /\ Marked("turned", prepared)
  /\ UNCHANGED <<statusVars, memoryVars, ringVars, queueVars, countVars, readVars,
                 pumping, localVars>>

(* ViosndPeekRenderPacket.                                                 *)
Peek(t) ==
  /\ ready # <<>>
  /\ Goes(t, "peek", "submit")
  /\ packet' = [packet EXCEPT ![t] = Head(ready)]
  /\ UNCHANGED <<statusVars, memoryVars, ringVars, queueVars, countVars, readVars,
                 pumping, back, hand, higher, marks>>

PeekNothing(t) ==
  /\ ready = <<>>
  /\ Goes(t, "peek", "yield")
  /\ UNCHANGED <<statusVars, memoryVars, ringVars, queueVars, countVars, readVars,
                 pumping, localVars, marks>>

(* ViosndSubmitRenderPacket: the first period that is not in flight.       *)
Free  == Periods \ inflight
First == CHOOSE p \in Free : \A q \in Free : p <= q

SubmitRenderPacket(t) ==
  /\ periods /\ packets /\ Free # {}
  /\ Goes(t, "submit", "pop")
  /\ Submit(First, packet[t])
  /\ expected' = packet[t] + 1
  /\ Marked("reused", InHand(First))
  /\ UNCHANGED <<statusVars, ready, given, countVars, readVars, pumping, localVars>>

(* STATUS_DEVICE_BUSY ends the pump; any other failure drops the packet.   *)
SubmitFails(t) ==
  /\ Free = {} \/ ~periods \/ ~packets
  /\ Goes(t, "submit", IF periods /\ packets THEN "yield" ELSE "drop")
  /\ packet' = IF periods /\ packets THEN [packet EXCEPT ![t] = 0] ELSE packet
  /\ UNCHANGED <<statusVars, memoryVars, ringVars, queueVars, countVars, readVars,
                 pumping, back, hand, higher, marks>>

(* ViosndPopRenderPacket takes the head away, whichever that is by now.    *)
Pop(t) ==
  /\ at[t] \in {"pop", "drop"}
  /\ Goes(t, at[t], IF at[t] = "pop" THEN "peek" ELSE "yield")
  /\ ready'  = IF ready = <<>> THEN ready ELSE Tail(ready)
  /\ packet' = [packet EXCEPT ![t] = 0]
  /\ expected' = IF at[t] = "drop" /\ ready # <<>> THEN Head(ready) + 1 ELSE expected
  /\ UNCHANGED <<statusVars, memoryVars, ringVars, given, countVars, readVars, pumping,
                 back, hand, higher, marks>>

Yield(t) ==
  /\ Goes(t, "yield", back[t])
  /\ pumping' = FALSE
  /\ UNCHANGED <<statusVars, memoryVars, ringVars, queueVars, countVars, readVars,
                 localVars, marks>>

Pump == \E t \in Threads : \/ Claim(t) \/ ClaimNot(t) \/ Peek(t) \/ PeekNothing(t)
                           \/ SubmitRenderPacket(t) \/ SubmitFails(t) \/ Pop(t)
                           \/ Yield(t)

-----------------------------------------------------------------------------
(* ViosndQueueRenderPacket drops the oldest packet when the queue is full. *)
Full      == Len(ready) = PacketCount
Queued(p) == Append(IF Full THEN Tail(ready) ELSE ready, p)

(* The client: ViosndEvtStreamSetRenderPacket.                             *)
SetRenderPacket ==
  /\ ~capture /\ stream /\ packets
  /\ callback # "release"
  /\ given < MaxPackets
  /\ Goes("client", "idle", "queued")
  /\ ready'    = Queued(given)
  /\ expected' = IF Full /\ expected <= Head(ready) THEN Head(ready) + 1 ELSE expected
  /\ given'    = given + 1
  /\ Marked("torn", Full /\ \E t \in Threads : Pumping(t))
  /\ UNCHANGED <<statusVars, memoryVars, ringVars, countVars, readVars, pumping,
                 localVars>>

(* It pumps if the stream runs.                                            *)
SetRenderPacketPumps ==
  /\ Goes("client", "queued", IF running THEN "claim" ELSE "idle")
  /\ UNCHANGED <<statusVars, memoryVars, ringVars, queueVars, countVars, readVars,
                 pumping, localVars, marks>>

(* The DPC: ViosndAcxDrainQueues, when there is a stream.                  *)
InterruptDpc ==
  /\ stream
  /\ Goes("dpc", "idle", "get")
  /\ UNCHANGED <<statusVars, memoryVars, ringVars, queueVars, countVars, readVars,
                 pumping, localVars, marks>>

(* The device (external) gives any period back, at any time.               *)
DeviceReturns ==
  /\ \E p \in ring : /\ number[p] < MaxPackets
                     /\ ring' = ring \ {p}
                     /\ used' = Append(used, p)
  /\ UNCHANGED <<statusVars, memoryVars, queueVars, countVars, readVars, pumping, at,
                 localVars, marks>>

-----------------------------------------------------------------------------
(* The stream callbacks.                                                   *)
Calls(c) == callback = "none" /\ stream /\ callback' = c

Step(from, to) == Goes("callback", from, to)

(* A callback returns.                                                     *)
Returns(from) == Step(from, "idle") /\ callback' = "none"

(* ViosndEvtStreamFreeRtPackets, and what ViosndEvtStreamAllocateRtPackets *)
(* starts with, and ends with when there is not enough memory.             *)
FreeRtPacketStorage ==
  /\ callback = "none" /\ stream /\ ~periods
  /\ ready' = <<>> /\ expected' = given
  /\ IF \E t \in Threads : Pumping(t) THEN Marked("torn", ready # <<>>)
                                    ELSE Forget({"torn"})
  /\ UNCHANGED <<stream, capture, prepared, running, callback, memoryVars, ringVars,
                 given, countVars, readVars, pumping, at, localVars>>

FreeRtPackets     == packets' = FALSE /\ FreeRtPacketStorage
AllocateRtPackets == packets' = TRUE /\ FreeRtPacketStorage

(* ViosndPrepareStreamPeriods, unless the periods are there.               *)
PrepareStreamPeriods ==
  /\ periods'  = TRUE
  /\ inflight' = IF periods THEN inflight ELSE {}
  /\ number'   = IF periods THEN number ELSE [p \in Periods |-> 0]

FreeStreamPeriods == periods' = FALSE /\ UNCHANGED <<inflight, number>>

HasInFlight == inflight # {}

(* ViosndEvtStreamPrepareHardware and ViosndEvtStreamRun of a stream that  *)
(* is not prepared: ViosndConfigurePcmStream.  Without memory for the      *)
(* periods nothing changes.                                                *)
Configure(c) ==
  /\ Calls(c) /\ packets /\ ~prepared /\ ~running
  /\ Step("idle", "params")
  /\ PrepareStreamPeriods
  /\ Forget(IF periods THEN {} ELSE {"forced", "inside"})
  /\ UNCHANGED <<stream, capture, prepared, running, packets, ringVars, queueVars,
                 countVars, readVars, pumping, localVars>>

SetParams ==
  /\ Step("params", "prepare")
  /\ UNCHANGED <<statusVars, memoryVars, ringVars, queueVars, countVars, readVars,
                 pumping, localVars, marks>>

(* PREPARE was answered.                                                   *)
Prepared ==
  /\ Step("prepare", "reset")
  /\ prepared' = TRUE
  /\ returned' = IF hand["dpc"] = NoPeriod THEN 0 ELSE number[hand["dpc"]] + 1
  /\ early' = {}
  /\ IF hand["dpc"] = NoPeriod THEN Forget({"reused", "crossed"})
                               ELSE Marked("crossed", TRUE)
  /\ UNCHANGED <<stream, capture, running, packets, callback, memoryVars, ringVars,
                 queueVars, completed, next_capture, turn, pumping, localVars>>

(* The counters start anew, and Run goes on.                               *)
Reset ==
  /\ at["callback"] = "reset"
  /\ completed' = 0 /\ next_capture' = 0
  /\ turn' = IF callback = "run" /\ capture THEN 1 ELSE 0
  /\ Marked("crossed", returned > 0 \/ hand["dpc"] # NoPeriod)
  /\ IF callback = "run"
     THEN /\ Step("reset", IF capture THEN "fill" ELSE "claim")
          /\ back' = [back EXCEPT !["callback"] = "start"]
          /\ UNCHANGED callback
     ELSE Returns("reset") /\ UNCHANGED back
  /\ UNCHANGED <<stream, capture, prepared, running, packets, memoryVars, ringVars,
                 queueVars, returned, early, pumping, hand, packet, higher>>

(* SET_PARAMS or PREPARE failed: only PrepareHardware frees the periods.   *)
ConfigureFails ==
  /\ at["callback"] \in {"params", "prepare"}
  /\ Returns(at["callback"])
  /\ IF callback = "run" THEN UNCHANGED memoryVars ELSE FreeStreamPeriods
  /\ UNCHANGED <<stream, capture, prepared, running, packets, ringVars, queueVars,
                 countVars, readVars, pumping, localVars, marks>>

(* ViosndEvtStreamRun of a prepared stream.                                *)
Run ==
  /\ Calls("run") /\ prepared /\ ~running
  /\ Step("idle", IF capture THEN "fill" ELSE "claim")
  /\ back'  = [back EXCEPT !["callback"] = "start"]
  /\ turn' = IF capture THEN 1 ELSE 0
  /\ early' = {}
  /\ UNCHANGED <<stream, capture, prepared, running, packets, memoryVars, ringVars,
                 queueVars, countVars, next_capture, pumping, hand, packet, higher,
                 marks>>

(* The loop of Run over the periods of a capture stream, which passes over *)
(* those in flight.                                                        *)
FillPeriod ==
  /\ turn \in Periods \ inflight
  /\ Step("fill", "fill")
  /\ Submit(turn, next_capture)
  /\ next_capture' = next_capture + 1
  /\ turn'  = turn + 1
  /\ early' = early \ {turn}
  /\ Marked("reused", InHand(turn))
  /\ UNCHANGED <<statusVars, queueVars, countVars, pumping, localVars>>

(* Mistaken: the loop ends one period early.                               *)
Mut_FillNot ==
  /\ turn \notin Periods \ inflight \/ turn = PeriodCount
  /\ Step("fill", IF turn >= PeriodCount THEN "start" ELSE "fill")
  /\ turn' = IF turn >= PeriodCount THEN 0 ELSE turn + 1
  /\ UNCHANGED <<statusVars, memoryVars, ringVars, queueVars, countVars, next_capture,
                 early, pumping, localVars, marks>>

FillNot ==
  /\ turn \notin Periods \ inflight
  /\ Step("fill", IF turn > PeriodCount THEN "start" ELSE "fill")
  /\ turn' = IF turn > PeriodCount THEN 0 ELSE turn + 1
  /\ UNCHANGED <<statusVars, memoryVars, ringVars, queueVars, countVars, next_capture,
                 early, pumping, localVars, marks>>

(* Mistaken: the packets queued before START are left to the next one.     *)
Mut_Start ==
  /\ Step("start", "return")
  /\ running' = TRUE
  /\ back' = [back EXCEPT !["callback"] = "return"]
  /\ UNCHANGED <<stream, capture, prepared, packets, callback, memoryVars, ringVars,
                 queueVars, countVars, readVars, pumping, hand, packet, higher, marks>>

(* START was answered; a render stream pumps once more, as a packet may    *)
(* have been queued while it did not run.                                  *)
Start ==
  /\ Step("start", IF capture THEN "return" ELSE "claim")
  /\ running' = TRUE
  /\ back' = [back EXCEPT !["callback"] = "return"]
  /\ UNCHANGED <<stream, capture, prepared, packets, callback, memoryVars, ringVars,
                 queueVars, countVars, readVars, pumping, hand, packet, higher, marks>>

StartFails ==
  /\ Step("start", "return")
  /\ UNCHANGED <<statusVars, memoryVars, ringVars, queueVars, countVars, readVars,
                 pumping, localVars, marks>>

(* ViosndEvtStreamPause, ViosndEvtStreamReleaseHardware: ViosndStopStream  *)
(* has nothing to stop in a stream that is not prepared.                   *)
Stop(c) ==
  /\ Calls(c)
  /\ Step("idle", IF prepared THEN "stop" ELSE "get")
  /\ running' = FALSE
  /\ back' = [back EXCEPT !["callback"] = "last"]
  /\ UNCHANGED <<stream, capture, prepared, packets, memoryVars, ringVars, queueVars,
                 countVars, readVars, pumping, hand, packet, higher, marks>>

(* STOP was answered, whatever the answer: ViosndClearRenderQueue, then    *)
(* the RELEASE command, if any, and the wait.                              *)
ClearRenderQueue ==
  /\ Step("stop", IF callback = "release" THEN "release" ELSE "get")
  /\ ready' = <<>> /\ expected' = IF ready = <<>> THEN expected ELSE given
  /\ Marked("torn", ready # <<>> /\ \E t \in Threads : Pumping(t))
  /\ back' = [back EXCEPT !["callback"] = "check"]
  /\ UNCHANGED <<statusVars, memoryVars, ringVars, given, countVars, readVars, pumping,
                 hand, packet, higher>>

(* Mistaken: a stream that was released is taken to be idle.               *)
Mut_Release ==
  /\ Step("release", "last")
  /\ prepared' = FALSE
  /\ UNCHANGED <<stream, capture, running, packets, callback, memoryVars, ringVars,
                 queueVars, countVars, readVars, pumping, localVars, marks>>

Release ==
  /\ Step("release", "get")
  /\ UNCHANGED <<statusVars, memoryVars, ringVars, queueVars, countVars, readVars,
                 pumping, localVars, marks>>

(* ViosndWaitForStreamIdle drains the queue until nothing is in flight, or *)
(* until its time is up; the queues are then drained once more.            *)
CheckAgain ==
  /\ HasInFlight
  /\ Step("check", "get")
  /\ UNCHANGED <<statusVars, memoryVars, ringVars, queueVars, countVars, readVars,
                 pumping, localVars, marks>>

Stopped ==
  /\ Step("check", "get")
  /\ prepared' = (callback = "pause")
  /\ back' = [back EXCEPT !["callback"] = "last"]
  /\ marks' = IF callback = "pause" THEN marks
              ELSE marks \cup (IF HasInFlight THEN {"forced"} ELSE {})
                         \cup (IF Inside("dpc") \/ Inside("client") THEN {"inside"} ELSE {})
  /\ UNCHANGED <<stream, capture, running, packets, callback, memoryVars, ringVars,
                 queueVars, countVars, readVars, pumping, hand, packet, higher>>

(* ReleaseHardware frees the periods.                                      *)
Done ==
  /\ at["callback"] \in {"last", "return"}
  /\ Returns(at["callback"])
  /\ IF callback = "release" THEN FreeStreamPeriods ELSE UNCHANGED memoryVars
  /\ back' = [back EXCEPT !["callback"] = "idle"]
  /\ UNCHANGED <<stream, capture, prepared, running, packets, ringVars, queueVars,
                 countVars, readVars, pumping, hand, packet, higher, marks>>

(* ViosndEvtStreamCleanup, of a stream that was released, and the creation *)
(* of another one (ViosndEvtCircuitCreateStream).                          *)
Cleanup ==
  /\ Calls("none") /\ ~prepared /\ at["client"] = "idle"
  /\ stream' = FALSE /\ FreeStreamPeriods
  /\ UNCHANGED <<capture, prepared, running, packets, ringVars, queueVars, countVars,
                 readVars, pumping, at, localVars, marks>>

CreateStream ==
  /\ ~stream
  /\ stream' = TRUE /\ capture' \in BOOLEAN
  /\ prepared' = FALSE /\ running' = FALSE /\ packets' = FALSE
  /\ periods' = FALSE /\ inflight' = {} /\ number' = [p \in Periods |-> 0]
  /\ ready' = <<>> /\ pumping' = FALSE
  /\ completed' = 0 /\ next_capture' = 0 /\ turn' = 0
  /\ given' = 0 /\ expected' = 0 /\ returned' = 0 /\ early' = {} /\ marks' = {}
  /\ UNCHANGED <<callback, ringVars, at, localVars>>

CallbackNext ==
  \/ FreeRtPackets \/ AllocateRtPackets
  \/ Configure("prepare") \/ Configure("run") \/ SetParams \/ Prepared \/ Reset
  \/ ConfigureFails \/ Run \/ FillPeriod \/ FillNot \/ Start \/ StartFails
  \/ Stop("pause") \/ Stop("release") \/ ClearRenderQueue \/ Release \/ CheckAgain
  \/ Stopped \/ Done \/ Cleanup \/ CreateStream

-----------------------------------------------------------------------------
(* The device, or a thread, is at memory that was freed.                   *)
Stray    == ~periods /\ OnTheRing # {}
Dangling == ~periods /\ \E t \in Drainers : hand[t] # NoPeriod
Outlived == ~stream /\ Inside("dpc")

Undefined == Stray \/ Dangling \/ Outlived

Next == \/ ~Undefined /\ (\/ CallbackNext \/ Drain \/ Pump \/ SetRenderPacket
                           \/ SetRenderPacketPumps \/ InterruptDpc \/ DeviceReturns)
        \/ Undefined /\ UNCHANGED vars

Spec == Init /\ [][Next]_vars

-----------------------------------------------------------------------------
CallbackPlaces == {"idle", "params", "prepare", "reset", "fill", "start", "stop", "release",
                   "check", "last", "return"}
DrainPlaces    == {"get", "look", "mark", "ask", "refill", "bump"}
PumpPlaces     == {"claim", "peek", "submit", "pop", "drop", "yield"}

(* The type invariant; the queue of ready packets never outgrows its array.*)
TypeOK ==
  /\ {stream, capture, prepared, running, packets, periods, pumping} \subseteq BOOLEAN
  /\ {inflight, ring, early} \subseteq SUBSET Periods
  /\ number \in [Periods -> Nat]
  /\ used \in Seq(Periods)
  /\ ready \in Seq(0 .. MaxPackets) /\ Len(ready) <= PacketCount
  /\ {completed, next_capture, turn, given, expected, returned} \subseteq Nat
  /\ at["callback"] \in CallbackPlaces \cup DrainPlaces \cup PumpPlaces
  /\ at["dpc"] \in {"idle"} \cup DrainPlaces \cup PumpPlaces
  /\ at["client"] \in {"idle", "queued"} \cup PumpPlaces
  /\ hand \in [Drainers -> Periods \cup {NoPeriod}]
  /\ callback \in {"none", "prepare", "run", "pause", "release"}
  /\ marks \subseteq Marks

(* A period has InFlight exactly while the ring has it, once: neither is a *)
(* period submitted that the device still has, nor is one lost.            *)
InFlightIsOnTheRing ==
  periods => /\ inflight = OnTheRing
             /\ ring \cap ToSet(used) = {}
             /\ Len(used) = Cardinality(ToSet(used))

(* Memory is freed under the device or under a thread only if the wait for *)
(* the stream to be idle was cut short, or found it idle while the DPC or  *)
(* a client was between two of its lock sections.                          *)
FreedWhenIdle == Undefined => "forced" \in marks \/ "inside" \in marks \/ Outlived

(* What the drivers of the two queues may rely on about the periods.       *)
PeriodsInv == TypeOK /\ (~Undefined => InFlightIsOnTheRing) /\ FreedWhenIdle

(* The packets are played in the order in which they were given, none of   *)
(* them twice and none left out but those that a full queue, a cleared one *)
(* or a failing submission drops: as long as nobody takes the head of the  *)
(* queue away under a pump, the next one to be played is the head.         *)
Popping == {t \in Threads : at[t] = "pop"}

PlayedInOrder ==
  ("torn" \notin marks /\ ~Undefined) =>
    /\ Cardinality({t \in Threads : at[t] \in PumpPlaces \ {"claim"}}) <= 1
    /\ IF Popping = {}
       THEN ready = <<>> \/ Head(ready) = expected
       ELSE \A t \in Popping : /\ packet[t] + 1 = expected
                               /\ ready # <<>> /\ Head(ready) = packet[t]

(* While a render stream runs, a ready packet is not left lying beside a   *)
(* free period: some thread is on its way to submit it, or will be when    *)
(* the device returns a period, unless a pump was turned away by another   *)
(* one that had already seen the queue empty.                              *)
NoneLeftLying ==
  (~capture /\ running /\ ready # <<>> /\ Free # {} /\ used = <<>>
   /\ \A t \in Threads : ~Inside(t)) => "turned" \in marks

(* What becomes of a packet between SetRenderPacket and the ring.          *)
PumpInv == PlayedInOrder /\ NoneLeftLying

(* A running capture stream keeps all its periods in flight, but for the   *)
(* one that is just being read out; only a period that came back before    *)
(* START was reported is left out, for as long as the stream runs.         *)
KeepsReading ==
  (capture /\ running /\ ~Undefined) =>
    \A p \in Periods : p \in inflight \/ InHand(p) \/ p \in early

(* PacketsCompleted, from which the positions and the packet numbers that  *)
(* the client is told are made, never counts a packet the device has not   *)
(* given back, and at rest counts every one it gave back, once it was      *)
(* reset.  A period that is submitted again while it is read out breaks    *)
(* the former, two threads that count at a time the latter.                *)
CountInv ==
  ("reused" \notin marks /\ at["callback"] # "reset" /\ ~Undefined) =>
    /\ completed <= returned
    /\ ("crossed" \notin marks /\ \A t \in Drainers : hand[t] = NoPeriod)
         => completed = returned

(* The positions never go back while a stream is prepared, from when they  *)
(* were reset on, unless two threads count at a time.                      *)
OnlyForward ==
  [][prepared /\ prepared' /\ "crossed" \notin marks /\ at["callback"] # "reset"
       => completed' >= completed]_vars
=============================================================================

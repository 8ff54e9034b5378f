---------------------------- MODULE CaptureWindow ---------------------------
(***************************************************************************)
(* The packets of a capture stream that runs: the worker numbers the reads *)
(* it submits and, when one completes, copies it into the audio buffer,    *)
(* advances m_PacketNumber and recomputes m_OutstandingWrites, which in a  *)
(* capture stream counts the packets that are ready; the port takes them   *)
(* with GetReadPacket.  Both write m_NextReadPacket and the count, and no  *)
(* lock is held, so the reads and writes of these fields are steps of      *)
(* their own.  CaptureStream has the rest of the stream.                   *)
(*                                                                         *)
(* Where the two threads meet, updates get lost, and a packet may be given *)
(* that is not there, or given again; the history variable met tells when. *)
(* The properties are about what happens between meetings, and in          *)
(* particular that one completion out of the port's way heals the rest.    *)
(*                                                                         *)
(* The device completes reads in order.                                    *)
(***************************************************************************)
EXTENDS PacketNumbers, Sequences, FiniteSets

CONSTANTS
  Target,      (* the most reads in flight                                  *)
  MaxPackets,  (* bound: the packets submitted, past a wrap of the number   *)
  MaxFailed    (* bound: the reads that fail                                *)

ASSUME CaptureWindowAssumption ==
  /\ Target \in 1 .. N
  /\ MaxPackets \in Nat
  /\ MaxFailed \in Nat

VARIABLES
  submitted,  (* the reads submitted: m_NextSubmitPacket without its wrap   *)
  flying,     (* the reads the device has, oldest first                     *)
  failed,     (* history: the packets whose read failed                     *)
  slots,      (* the packet whose sound is in a slot of m_Buffer            *)
  number,     (* m_PacketNumber                                             *)
  next,       (* m_NextReadPacket                                           *)
  ready,      (* m_OutstandingWrites                                        *)
  worker,     (* where ReclaimCapturePackets is, and its registers          *)
  port,       (* where GetReadPacket is, and its registers                  *)
  met,        (* history: the two were at work at the same time, since the  *)
              (* last completion that began while the port was not          *)
  handed      (* history: the last packet given, if they did not meet since *)

readVars   == <<submitted, flying, failed>>
bufferVars == <<slots, number>>
countVars  == <<next, ready>>
vars == <<readVars, bufferVars, countVars, worker, port, met, handed>>

Idle    == [at |-> "idle"]
Nothing == MaxPackets

(* SetState(RUN) has reset the numbers; the audio buffer holds silence.    *)
Init ==
  /\ submitted = 0 /\ flying = <<>> /\ failed = {}
  /\ slots = [s \in 0 .. N - 1 |-> Nothing]
  /\ number = 0 /\ next = 0 /\ ready = 0
  /\ worker = Idle /\ port = Idle
  /\ met = FALSE /\ handed = Nothing

-----------------------------------------------------------------------------
(* The worker.                                                             *)

(* CaptureWorkerLoop submits the next packet.                              *)
SubmitCapturePacket ==
  /\ worker = Idle
  /\ Len(flying) < Target
  /\ submitted < MaxPackets
  /\ flying'    = Append(flying, submitted)
  /\ submitted' = submitted + 1
  /\ UNCHANGED <<failed, bufferVars, countVars, worker, port, met, handed>>

(* A read comes back: its sound is copied to its place in the buffer and   *)
(* m_PacketNumber set, ...                                                 *)
Complete ==
  /\ worker = Idle
  /\ flying # <<>>
  /\ LET p == Wrap(Head(flying))
     IN  /\ slots'  = [slots EXCEPT ![p % N] = Head(flying)]
         /\ number' = Wrap(p + 1)
  /\ flying' = Tail(flying)
  /\ worker' = [at |-> "load"]
  /\ met'    = (port # Idle)
  /\ UNCHANGED <<submitted, failed, countVars, port, handed>>

(* ... neither of which happens when it failed.                            *)
CompleteFails ==
  /\ worker = Idle
  /\ flying # <<>>
  /\ Cardinality(failed) < MaxFailed
  /\ failed' = failed \cup {Head(flying)}
  /\ flying' = Tail(flying)
  /\ UNCHANGED <<submitted, bufferVars, countVars, worker, port, met, handed>>

(* m_OutstandingWrites = m_PacketNumber - m_NextReadPacket;                *)
LoadNext ==
  /\ worker.at = "load"
  /\ worker' = [at |-> "store", ready |-> Minus(number, next)]
  /\ met'    = (met \/ port # Idle)
  /\ UNCHANGED <<readVars, bufferVars, countVars, port, handed>>

(* Mistaken: what no longer fits the buffer stays ready.                   *)
Mut_StoreReady ==
  /\ worker.at = "store"
  /\ ready'  = worker.ready
  /\ worker' = Idle
  /\ met'    = (met \/ port # Idle)
  /\ UNCHANGED <<readVars, bufferVars, next, port, handed>>

StoreReady ==
  /\ worker.at = "store"
  /\ ready'  = worker.ready
  /\ worker' = IF worker.ready > N
               THEN [at |-> "drop", dropped |-> worker.ready - N]
               ELSE Idle
  /\ met'    = (met \/ port # Idle)
  /\ UNCHANGED <<readVars, bufferVars, next, port, handed>>

(* Mistaken: = instead of +=.                                              *)
Mut_Drop ==
  /\ worker.at = "drop"
  /\ worker' = [at |-> "skip", next |-> worker.dropped]
  /\ met'    = (met \/ port # Idle)
  /\ UNCHANGED <<readVars, bufferVars, countVars, port, handed>>

(* m_NextReadPacket += droppedPackets: overwritten before they were taken. *)
Drop ==
  /\ worker.at = "drop"
  /\ worker' = [at |-> "skip", next |-> Wrap(next + worker.dropped)]
  /\ met'    = (met \/ port # Idle)
  /\ UNCHANGED <<readVars, bufferVars, countVars, port, handed>>

Skip ==
  /\ worker.at = "skip"
  /\ next' = worker.next /\ ready' = N
  /\ worker' = Idle
  /\ met' = (met \/ port # Idle)
  /\ UNCHANGED <<readVars, bufferVars, port, handed>>

-----------------------------------------------------------------------------
(* The port: GetReadPacket.                                                *)

PortStep == met' = (met \/ worker # Idle)

(* Mistaken: a call is served although nothing is ready.                   *)
Mut_GetReadPacket ==
  /\ port = Idle
  /\ port' = [at |-> "load"]
  /\ PortStep
  /\ UNCHANGED <<readVars, bufferVars, countVars, worker, handed>>

(* When nothing is ready the call fails with DEVICE_NOT_READY.             *)
GetReadPacket ==
  /\ port = Idle
  /\ ready # 0
  /\ port' = [at |-> "load"]
  /\ PortStep
  /\ UNCHANGED <<readVars, bufferVars, countVars, worker, handed>>

(* *PacketNumber = m_NextReadPacket++;                                     *)
LoadPacket ==
  /\ port.at = "load"
  /\ port' = [at |-> "advance", packet |-> next]
  /\ PortStep
  /\ UNCHANGED <<readVars, bufferVars, countVars, worker, handed>>

Advance ==
  /\ port.at = "advance"
  /\ next' = Wrap(port.packet + 1)
  /\ port' = [at |-> "count", packet |-> port.packet]
  /\ PortStep
  /\ UNCHANGED <<readVars, bufferVars, ready, worker, handed>>

(* m_OutstandingWrites--;                                                  *)
LoadReady ==
  /\ port.at = "count"
  /\ port' = [at |-> "give", packet |-> port.packet, ready |-> Minus(ready, 1)]
  /\ PortStep
  /\ UNCHANGED <<readVars, bufferVars, countVars, worker, handed>>

(* The packets that completed within the last turn of the number and have  *)
(* the number p: none or one.                                              *)
Completed    == 0 .. submitted - Len(flying) - 1
Numbered(p)  == {a \in Completed : Wrap(a) = p /\ a + Modulus \notin Completed}

Give ==
  /\ port.at = "give"
  /\ ready' = port.ready
  /\ port' = Idle
  /\ PortStep
  /\ handed' = IF met' \/ Numbered(port.packet) = {} THEN Nothing
               ELSE CHOOSE a \in Numbered(port.packet) : TRUE
  /\ UNCHANGED <<readVars, bufferVars, next, worker>>

-----------------------------------------------------------------------------
Worker == \/ SubmitCapturePacket \/ Complete \/ CompleteFails
          \/ LoadNext \/ StoreReady \/ Drop \/ Skip

Port == GetReadPacket \/ LoadPacket \/ Advance \/ LoadReady \/ Give

(* Every packet that the bound admits has completed.                       *)
Rest == submitted = MaxPackets /\ flying = <<>> /\ UNCHANGED vars

Next == Worker \/ Port \/ Rest

Spec == Init /\ [][Next]_vars

-----------------------------------------------------------------------------
(* The type invariant; no more reads are in flight than wanted.            *)
TypeOK ==
  /\ submitted \in 0 .. MaxPackets
  /\ flying \in Seq(0 .. MaxPackets - 1) /\ Len(flying) <= Target
  /\ failed \subseteq 0 .. MaxPackets - 1
  /\ slots \in [0 .. N - 1 -> 0 .. MaxPackets]
  /\ {number, next, ready} \subseteq 0 .. Modulus - 1
  /\ worker.at \in {"idle", "load", "store", "drop", "skip"}
  /\ port.at \in {"idle", "load", "advance", "count", "give"}
  /\ met \in BOOLEAN /\ handed \in 0 .. MaxPackets

(* Whatever earlier meetings did to them, after one completion out of the  *)
(* port's way the count and the number of the next packet are right: the   *)
(* ready packets are the last ones captured, no more than the buffer has.  *)
CountsHeal ==
  (worker = Idle /\ port = Idle /\ ~met) => ready = Minus(number, next) /\ ready <= N

(* The window of packets that the two threads keep without a lock.         *)
WindowInv == TypeOK /\ CountsHeal

(* A packet that is given is in the buffer, not yet overwritten, unless    *)
(* the device failed to read it; or it never was captured, which the count *)
(* admits as long as the buffer was not filled once: m_NextReadPacket that *)
(* ran ahead is taken back by a whole buffer, to before the first packet.  *)
GivenIsThere ==
  (port.at = "give" /\ ~met) =>
    \/ \E a \in Numbered(port.packet) : a \in failed \/ slots[port.packet % N] = a
    \/ Numbered(port.packet) = {} /\ number < N

(* No packet is given twice, or before one that is older.                  *)
GivenInOrder ==
  [][(handed' # handed /\ Nothing \notin {handed, handed'}) => handed' > handed]_vars
=============================================================================

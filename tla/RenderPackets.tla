---------------------------- MODULE RenderPackets ----------------------------
(***************************************************************************)
(* What a render stream plays, and where it says it is                     *)
(* (CViosndMiniportWaveRTStream in ViosndWaveRT.cpp): the numbers of the   *)
(* packets the client writes, those the worker hands to the device, the    *)
(* end-of-stream mark, the count of packets played and the clock.          *)
(*                                                                         *)
(* Until its first SetWritePacket the stream plays its buffer in a circle; *)
(* from then on only what was written.  SetWritePacket and the worker      *)
(* share the fields it sets without a lock: each of its assignments is a   *)
(* step.  The client calls one method at a time, and a call that stops the *)
(* stream waits for the worker: RenderStream tells what happens when that  *)
(* fails, and where the blocks go.  A length or a position counts periods, *)
(* the last one of a stream as a whole one.                                *)
(***************************************************************************)
EXTENDS PacketNumbers, Sequences, FiniteSets

CONSTANTS
  Preroll,         (* VIOSND_RENDER_START_PREROLL_PACKETS (2)               *)
  Outstanding,     (* VIOSND_RENDER_TARGET_OUTSTANDING_PACKETS (8)          *)
  Cyclic,          (* VIOSND_RENDER_CYCLIC_OUTSTANDING_PACKETS (2)          *)
  Fallback,        (* VIOSND_RENDER_FALLBACK_OUTSTANDING_PACKETS (2)        *)
  Sources,         (* source packets that fill a fallback period (3)        *)
  MaxPacket,       (* bound: the last packet of a stream                    *)
  MaxClock         (* bound: how far the clock goes                         *)

ASSUME RenderPacketsAssumption ==
  /\ {Preroll, Outstanding, Cyclic, Fallback, Sources} \subseteq Nat \ {0}
  /\ Cyclic <= Outstanding /\ Fallback <= Outstanding
  /\ Modulus >= 4 * N /\ Modulus > 2 * Sources
  /\ {MaxPacket, MaxClock} \subseteq Nat

VARIABLES
  state,       (* m_State                                                   *)
  next_submit, (* m_NextSubmitPacket                                        *)
  last,        (* m_LastOsWritePacket                                       *)
  eos,         (* m_EosPacketNumber                                         *)
  eos_empty,   (* m_EosPacketLength = 0                                     *)
  count,       (* m_PacketNumber                                            *)
  position,    (* m_Position                                                *)
  start,       (* m_RunStartPosition                                        *)
  running,     (* m_RunStartQpc # 0 and m_QpcFrequency > 0                  *)
  elapsed,     (* the time since m_RunStartQpc                              *)
  fallback,    (* m_RenderFallbackActive                                    *)
  attempted,   (* m_RenderFallbackAttempted                                 *)
  tx,          (* the blocks with the device, oldest first                  *)
  loop,        (* where the worker is in RenderWorkerLoop                   *)
  target,      (* its targetOutstanding                                     *)
  packet,      (* the packet it is about to submit, ...                     *)
  cut,         (* ... and what it measured of it                            *)
  client,      (* where the client is in SetWritePacket or SetState         *)
  arg,         (* that call's PacketNumber                                  *)
  written,     (* history: it wrote a packet since the stream was stopped   *)
  first,       (* history: the first one's number                           *)
  sent,        (* history: the written packets that were handed over        *)
  marked,      (* history: the numbers last written with the end mark       *)
  circled,     (* history: packets were played in the circle                *)
  astray       (* history: numbers got mixed up, see Astray                 *)

numberVars  == <<next_submit, last, eos, eos_empty>>
playedVars  == <<count, position>>
clockVars   == <<start, running, elapsed>>
modeVars    == <<fallback, attempted>>
workerVars  == <<loop, target, packet, cut>>
clientVars  == <<client, arg>>
historyVars == <<written, first, sent, marked, circled, astray>>
packetsVars == <<state, numberVars, playedVars, clockVars, modeVars, tx, workerVars,
                 clientVars, historyVars>>

NoPacket == Modulus - 1                   (* MAXULONG: none, or preroll     *)

-----------------------------------------------------------------------------
(* ViosndPacketNumberLessOrEqual: the difference as a signed number.       *)
LessOrEqual(p, q) == Minus(p, q) = 0 \/ 2 * Minus(p, q) >= Modulus

(* ViosndHasWritableRenderPacket.                                          *)
HasWritable == last # NoPacket /\ LessOrEqual(next_submit, last)

(* The three functions ...TargetOutstandingPackets.                        *)
Least(a, b)  == IF a < b THEN a ELSE b

(* Mistaken: two packets of the buffer are kept back.                      *)
Mut_AtMost(most) == IF N <= 1 THEN N ELSE Least(N - 2, most)

AtMost(most) == IF N <= 1 THEN N ELSE Least(N - 1, most)
TargetOutstanding == AtMost(IF fallback THEN Fallback
                            ELSE IF last = NoPacket THEN Cyclic ELSE Outstanding)

(* GetRenderClockPosition.                                                 *)
ClockPosition == IF running THEN start + elapsed ELSE position

(* A block: its packet's number, how many periods of the buffer it stands  *)
(* for, the last packet in it, and how much of that is played.             *)
Cuts == {"whole", "part", "nothing"}
Block(p, n, q, c) == [number |-> p, source |-> n, upto |-> q, cut |-> c]
Silence   == Block(NoPacket, 1, NoPacket, "whole")
Prerolled == [i \in 1 .. Preroll |-> Silence]

(* The client forgets what it wrote and what it was told.                  *)
Forget ==
  /\ written' = FALSE /\ first' = NoPacket /\ sent' = <<>>
  /\ marked' = {} /\ circled' = FALSE

PacketsInit ==
  /\ state = "STOP"
  /\ next_submit = 0 /\ last = NoPacket /\ eos = NoPacket /\ eos_empty = TRUE
  /\ count = 0 /\ position = 0
  /\ start = 0 /\ running = FALSE /\ elapsed = 0
  /\ fallback = FALSE /\ attempted = FALSE
  /\ tx = <<>>
  /\ loop = "none" /\ target = 0 /\ packet = NoPacket /\ cut = "whole"
  /\ client = "idle" /\ arg = NoPacket
  /\ written = FALSE /\ first = NoPacket /\ sent = <<>> /\ marked = {}
  /\ circled = FALSE /\ astray = FALSE

-----------------------------------------------------------------------------
(* The blocks that come back.                                              *)

(* What a block that was played adds to m_Position: the buffer's packets   *)
(* it stands for in the fallback format, else its own one period.          *)
SourcePeriods(b) == IF fallback THEN b.source ELSE 1

(* Mistaken: the silence of the preroll counts.                            *)
Mut_Played(k, E) == 1 .. k \ E

(* Those of the first k blocks that were played, when those in E come back *)
(* with an error: packets of the buffer, not the preroll's silence.        *)
Played(k, E) == {i \in 1 .. k \ E : tx[i].number # NoPacket}

(* The periods that those blocks add to m_Position.                        *)
PeriodsPlayed(k, E) ==
  {period \in Played(k, E) \X (1 .. Sources) : period[2] <= SourcePeriods(tx[period[1]])}

(* ReclaimRenderPackets: the first k blocks, until the used ring is empty  *)
(* or the TX mutex is not had.                                             *)
ReclaimRenderPackets(k, E) ==
  /\ count'    = Plus(count, Cardinality(Played(k, E)))
  /\ position' = position + Cardinality(PeriodsPlayed(k, E))

(* CancelRenderWrites: what RELEASE returned is reclaimed, the rest is     *)
(* detached from the ring and not counted.                                 *)
CancelRenderWrites ==
  \E k \in 0 .. Len(tx) : ReclaimRenderPackets(k, {})

-----------------------------------------------------------------------------
(* The client.                                                             *)

(* SetState(RUN): the clock goes on from m_Position.  When it fails, what  *)
(* was queued is cancelled.                                                *)
SetStateRun ==
  /\ client = "idle" /\ state # "RUN"
  /\ fallback' = FALSE /\ attempted' = FALSE
  /\ \/ /\ state' = "RUN" /\ loop' = "wait"
        /\ tx' = Prerolled
        /\ start' = position /\ running' = TRUE /\ elapsed' = 0
     \/ UNCHANGED <<state, loop, tx, clockVars>>
  /\ UNCHANGED <<numberVars, playedVars, target, packet, cut, clientVars, historyVars>>

(* SetState to PAUSE or STOP from RUN: the state first, ...                *)
SetStateDown ==
  /\ client = "idle" /\ state = "RUN"
  /\ state' \in {"PAUSE", "STOP"}
  /\ client' = "down"
  /\ UNCHANGED <<numberVars, playedVars, clockVars, modeVars, tx, workerVars, arg,
                 historyVars>>

(* Mistaken: the position stays at what the device has played.             *)
Mut_Settle == UNCHANGED position

(* m_Position = GetRenderClockPosition().                                  *)
Settle == position' = ClockPosition

(* What STOP does to everything else, and FreeAudioBuffer too.             *)
Reset ==
  /\ next_submit' = 0 /\ last' = NoPacket
  /\ eos' = NoPacket /\ eos_empty' = TRUE
  /\ count' = 0 /\ position' = 0
  /\ fallback' = FALSE /\ attempted' = FALSE

(* ... then, when the worker has ended, the device is stopped and the      *)
(* blocks are taken back.  The position becomes the clock's, before a STOP *)
(* resets it with the rest.                                                *)
Down ==
  /\ client = "down" /\ loop = "wait"
  /\ loop' = "none" /\ client' = "idle"
  /\ start' = 0 /\ running' = FALSE /\ elapsed' = 0
  /\ tx' = <<>>
  /\ IF state = "STOP"
     THEN Reset /\ Forget
     ELSE /\ \E k \in 0 .. Len(tx) : count' = Plus(count, Cardinality(Played(k, {})))
          /\ Settle
          /\ UNCHANGED <<numberVars, modeVars, written, first, sent, marked, circled>>
  /\ UNCHANGED <<state, target, packet, cut, arg, astray>>

(* From PAUSE to STOP and back: the state and nothing else.  The client    *)
(* takes the STOP for a new beginning all the same.                        *)
SetStateOther ==
  /\ client = "idle" /\ state # "RUN"
  /\ state' \in {"PAUSE", "STOP"} \ {state}
  /\ written' = (written /\ state' = "PAUSE")
  /\ UNCHANGED <<numberVars, playedVars, clockVars, modeVars, tx, workerVars, clientVars,
                 first, sent, marked, circled, astray>>

(* FreeAudioBuffer, and AllocateAudioBuffer right after.                   *)
FreeAudioBuffer ==
  /\ client = "idle" /\ state # "RUN"
  /\ Reset /\ Forget
  /\ UNCHANGED <<state, clockVars, tx, workerVars, clientVars, astray>>

(* The packets the client may write now: the one after its last, or, as    *)
(* its first, the one GetPacketCount says is played now or the next; and   *)
(* into a place of the buffer whose packet GetPacketCount says was played. *)
Offered(p) ==
  /\ IF written THEN p = Plus(last, 1) ELSE p \in {count, Plus(count, 1)}
  /\ LessOrEqual(p, Plus(count, N - 1))

(* Numbers get mixed up when the first SetWritePacket comes while the      *)
(* worker is at a packet of the circle, whose number it will go on from;   *)
(* when it comes after a stop that did not reset the last one's number;    *)
(* and when a packet's number, here or in the circle, is the one that says *)
(* there is none.                                                          *)
Astray(p) ==
  \/ last = NoPacket /\ loop \in {"measure", "post"}
  \/ last # NoPacket /\ ~written
  \/ p = NoPacket

(* SetWritePacket: the next packet to submit, if it is the first one, ...  *)
SetWritePacket ==
  /\ client = "idle"
  /\ \E p \in 0 .. MaxPacket :
       /\ Offered(p)
       /\ next_submit' = IF last = NoPacket THEN p ELSE next_submit
       /\ first' = IF written THEN first ELSE p
       /\ astray' = (astray \/ Astray(p))
       /\ arg' = p
  /\ client' = "last" /\ written' = TRUE
  /\ UNCHANGED <<state, last, eos, eos_empty, playedVars, clockVars, modeVars, tx,
                 workerVars, sent, marked, circled>>

(* ... the last packet written, which the worker sees at once, ...         *)
SetLastWritten ==
  /\ client = "last"
  /\ last' = arg
  /\ client' = "eos"
  /\ UNCHANGED <<state, next_submit, eos, eos_empty, playedVars, clockVars, modeVars, tx,
                 workerVars, arg, historyVars>>

(* ... then the end mark, or, if an earlier packet has it, its removal; ...*)
SetEos ==
  /\ client = "eos"
  /\ \/ eos' = arg /\ client' = "length" /\ marked' = marked \cup {arg}
     \/ /\ IF eos # NoPacket /\ LessOrEqual(eos, arg)
           THEN eos' = NoPacket /\ client' = "clear"
           ELSE UNCHANGED eos /\ client' = "idle"
        /\ marked' = marked \ {arg}
  /\ arg' = NoPacket
  /\ UNCHANGED <<state, next_submit, last, eos_empty, playedVars, clockVars, modeVars, tx,
                 workerVars, written, first, sent, circled, astray>>

(* ... and the length that goes with it.                                   *)
SetEosLength ==
  /\ client \in {"length", "clear"}
  /\ eos_empty' \in IF client = "clear" THEN {TRUE} ELSE BOOLEAN
  /\ client' = "idle"
  /\ UNCHANGED <<state, next_submit, last, eos, playedVars, clockVars, modeVars, tx,
                 workerVars, arg, historyVars>>

-----------------------------------------------------------------------------
(* The worker: RenderWorkerLoop.                                           *)

WorkerGoes(from, to) == loop = from /\ loop' = to

clientAll == <<state, client, arg>>

Reclaim ==
  /\ WorkerGoes("wait", "monitor")
  /\ \E k \in 0 .. Len(tx) : \E E \in SUBSET (1 .. k) :
       /\ ReclaimRenderPackets(k, E)
       /\ tx' = SubSeq(tx, k + 1, Len(tx))
  /\ UNCHANGED <<clientAll, numberVars, clockVars, modeVars, target, packet, cut,
                 historyVars>>

(* MaybeSwitchRenderFallback, when it switches nothing; then the target of *)
(* this turn is set.                                                       *)
Monitor ==
  /\ WorkerGoes("monitor", "submit")
  /\ attempted' \in IF state = "RUN" THEN {attempted, TRUE} ELSE {attempted}
  /\ target' = TargetOutstanding
  /\ UNCHANGED <<clientAll, numberVars, playedVars, clockVars, fallback, tx, packet, cut,
                 historyVars>>

(* SwitchRenderToFallback: the writes are cancelled, the stream configured *)
(* again, prerolled and started.  It may fail with the writes cancelled, or*)
(* with the preroll queued.  The clock goes back to what was played: ...   *)
Switch ==
  /\ loop = "monitor" /\ ~attempted /\ state = "RUN"
  /\ attempted' = TRUE
  /\ CancelRenderWrites
  /\ \/ /\ tx' = Prerolled /\ fallback' = TRUE
        /\ start' = position'
        /\ loop' = "restart"
        /\ UNCHANGED target
     \/ /\ \E k \in 0 .. Preroll : tx' = SubSeq(Prerolled, 1, k)
        /\ loop' = "submit" /\ target' = TargetOutstanding
        /\ UNCHANGED <<fallback, start>>
  /\ UNCHANGED <<clientAll, numberVars, running, elapsed, packet, cut, historyVars>>

(* ... its two fields are set one after the other.                         *)
Restart ==
  /\ WorkerGoes("restart", "submit")
  /\ elapsed' = 0
  /\ target' = TargetOutstanding
  /\ UNCHANGED <<clientAll, numberVars, playedVars, start, running, modeVars, tx, packet,
                 cut, historyVars>>

(* The submit loop: a packet that was written, which may have the end      *)
(* mark; or, until one was written, the next packet of the circle.         *)
Choose ==
  /\ loop = "submit" /\ state = "RUN" /\ Len(tx) < target
  /\ packet' = next_submit /\ cut' = "whole"
  /\ \/ /\ HasWritable
        /\ loop' = IF eos = next_submit THEN "measure" ELSE "post"
        /\ UNCHANGED <<circled, astray>>
     \/ /\ last = NoPacket /\ next_submit <= MaxPacket
        /\ loop' = "post"
        /\ circled' = TRUE
        /\ astray' = (astray \/ written \/ Minus(NoPacket, next_submit) < Sources)
  /\ UNCHANGED <<clientAll, numberVars, playedVars, clockVars, modeVars, tx, target,
                 written, first, sent, marked>>

(* m_EosPacketLength, read after m_EosPacketNumber.                        *)
Measure ==
  /\ WorkerGoes("measure", "post")
  /\ cut' = IF eos_empty THEN "nothing" ELSE "part"
  /\ UNCHANGED <<clientAll, numberVars, playedVars, clockVars, modeVars, tx, target, packet,
                 historyVars>>

(* Mistaken: packets that were not written fill up the fallback period.    *)
Mut_Gathered == 0 .. Sources - 1

(* The packets of the buffer that fill a fallback period: none that was    *)
(* not written, none after the end.                                        *)
Gathered ==
  {i \in 0 .. Sources - 1 : \A j \in 0 .. i :
     /\ last # NoPacket => LessOrEqual(Plus(packet, j), last)
     /\ j < i => Plus(packet, j) # eos}

(* What SubmitRenderPacket submits.                                        *)
FallbackBlock ==
  LET n   == Cardinality(Gathered)
      end == \E i \in Gathered : Plus(packet, i) = eos
  IN Block(packet, IF end /\ eos_empty THEN n - 1 ELSE n, Plus(packet, n - 1),
           IF ~end THEN "whole" ELSE IF eos_empty THEN "nothing" ELSE "part")

Prepared == IF fallback THEN FallbackBlock ELSE Block(packet, 1, packet, cut)

Taken(b) == [i \in 1 .. Minus(b.upto, packet) + 1 |-> Plus(packet, i - 1)]

(* SubmitRenderPacket: a fallback period without a single frame is refused.*)
SubmitRenderPacket ==
  /\ WorkerGoes("post", "submit")
  /\ fallback => Gathered # {} /\ FallbackBlock.source > 0
  /\ tx' = Append(tx, Prepared)
  /\ next_submit' = Plus(Prepared.upto, 1)
  /\ sent' = IF last = NoPacket \/ astray THEN sent ELSE sent \o Taken(Prepared)
  /\ packet' = NoPacket /\ cut' = "whole"
  /\ UNCHANGED <<clientAll, last, eos, eos_empty, playedVars, clockVars, modeVars, target,
                 written, first, marked, circled, astray>>

(* The loop ends because enough is outstanding, no packet is ready or the  *)
(* stream is stopped, or because a submit failed, which may always be.     *)
SubmitDone ==
  /\ loop' = "wait"
  /\ \/ loop = "post"
     \/ /\ loop = "submit"
        /\ \/ state # "RUN" \/ Len(tx) >= target
           \/ ~HasWritable /\ (last # NoPacket \/ next_submit > MaxPacket)
  /\ target' = 0 /\ packet' = NoPacket /\ cut' = "whole"
  /\ UNCHANGED <<clientAll, numberVars, playedVars, clockVars, modeVars, tx, historyVars>>

(* Time passes.                                                            *)
Tick ==
  /\ running /\ ClockPosition < MaxClock
  /\ elapsed' = elapsed + 1
  /\ UNCHANGED <<clientAll, numberVars, playedVars, start, running, modeVars, tx, workerVars,
                 historyVars>>

-----------------------------------------------------------------------------
ClientNext == \/ SetStateRun \/ SetStateDown \/ Down \/ SetStateOther \/ FreeAudioBuffer
              \/ SetWritePacket \/ SetLastWritten \/ SetEos \/ SetEosLength

WorkerNext == \/ Reclaim \/ Monitor \/ Switch \/ Restart
              \/ Choose \/ Measure \/ SubmitRenderPacket \/ SubmitDone

(* Once the numbers are mixed up, the stream is followed no further.       *)
Lost == astray /\ UNCHANGED packetsVars

PacketsNext == \/ ~astray /\ (ClientNext \/ WorkerNext \/ Tick)
        \/ Lost

PacketsSpec == PacketsInit /\ [][PacketsNext]_packetsVars

(* The worker is scheduled; the device returns what it was given, and a    *)
(* submit that is tried again and again works.                             *)
FairSpec ==
  /\ PacketsSpec
  /\ WF_packetsVars(~astray /\ WorkerNext)
  /\ SF_packetsVars(~astray /\ Reclaim /\ Len(tx') < Len(tx))
  /\ SF_packetsVars(~astray /\ SubmitRenderPacket)

-----------------------------------------------------------------------------
(* The type invariant; no more blocks are outstanding than the stream      *)
(* starts with or aims at.                                                 *)
PacketsTypeOK ==
  /\ state \in {"STOP", "PAUSE", "RUN"}
  /\ {next_submit, last, eos, count, packet, arg, first} \subseteq Numbers
  /\ {position, start, elapsed, target} \subseteq Nat
  /\ {eos_empty, running, fallback, attempted, written, circled, astray} \subseteq BOOLEAN
  /\ loop \in {"none", "wait", "monitor", "restart", "submit", "measure", "post"}
  /\ client \in {"idle", "down", "last", "eos", "length", "clear"}
  /\ cut \in Cuts /\ marked \subseteq Numbers
  /\ Len(tx) <= Preroll \/ Len(tx) <= AtMost(Outstanding)
  /\ \A i \in 1 .. Len(tx) :
       tx[i] \in [number : Numbers, source : 0 .. Sources, upto : Numbers, cut : Cuts]

(* The worker hands over what the client wrote: from its first packet on,  *)
(* each once and in order, through pauses, failures and the switch of      *)
(* formats, and never one that it has not written yet.                     *)
HandedInOrder ==
  ~astray =>
    /\ \A i \in 1 .. Len(sent) : sent[i] = Plus(first, i - 1)
    /\ sent # <<>> => LessOrEqual(sent[Len(sent)], last)

(* Only the end of a stream is cut short.                                  *)
OnlyTheEndIsCut ==
  ~astray => \A i \in 1 .. Len(tx) : tx[i].cut # "whole" => tx[i].upto \in marked

(* What is on its way to the device is what the client wrote, in order and *)
(* whole.                                                                  *)
PacketsInv == PacketsTypeOK /\ HandedInOrder /\ OnlyTheEndIsCut

(* A client that keeps to GetPacketCount never writes into the place of a  *)
(* packet that was not handed over yet, unless the buffer was played in a  *)
(* circle before.                                                          *)
NothingOverwritten ==
  (~astray /\ ~circled /\ written /\ client # "last") =>
    Minus(Plus(last, 1), next_submit) <= N

(* The position the client is told (GetPosition, or as its presentation    *)
(* position) goes back only when the stream is reset and where the switch  *)
(* of formats restarts the clock.                                          *)
PositionHolds ==
  [][ClockPosition' >= ClockPosition \/ Reset \/ "restart" \in {loop, loop'}]_packetsVars

(* The end of the stream is empty and alone in its fallback period: it is  *)
(* refused again and again.                                                *)
Refused == fallback /\ eos = next_submit /\ eos_empty

(* What was written is handed over, as long as the stream runs.            *)
Delivered ==
  (state = "RUN" /\ HasWritable /\ ~astray) ~>
    (state # "RUN" \/ ~HasWritable \/ astray \/ Refused)
=============================================================================

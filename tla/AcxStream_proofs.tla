-------------------------- MODULE AcxStream_proofs --------------------------
(***************************************************************************)
(* What holds of a stream of the ACX variant for every number of periods,  *)
(* RT packets and packets: the periods and the ring agree and are freed    *)
(* when nobody uses them (PeriodsHold), ready packets are played in order  *)
(* and not left lying (PumpHolds), a capture stream keeps reading          *)
(* (ReadingHolds), PacketsCompleted counts what the device gave back       *)
(* (CountHolds) and never goes back (ForwardHolds).                        *)
(*                                                                         *)
(* The first three follow from one inductive invariant, IInv.  None is     *)
(* inductive alone: that a period is not lost needs to know which threads  *)
(* have one in hand, that the memory is freed in time where each thread is *)
(* while the stream is not prepared, and the order of the packets that one *)
(* thread pumps at a time and that the queue has the packets up to the     *)
(* newest without a gap.  The last two follow from CountsInv, which is     *)
(* inductive next to IInv: a count is right when the packet number a       *)
(* thread read is that of the packet given back and nobody counted since,  *)
(* and a period submitted anew under its eyes has a number that is not     *)
(* behind PacketsCompleted.  Every step but the one of an undefined state  *)
(* is taken with the memory intact; IInv and CountsInv hold in the state   *)
(* it leads to, the undefined ones included.                               *)
(***************************************************************************)
EXTENDS AcxStream, FiniteSetTheorems, SequenceTheorems, WellFoundedInduction, TLAPS

-----------------------------------------------------------------------------
(* The inductive invariant.                                                *)
InPump  == {"peek", "submit", "pop", "drop", "yield"}
Working == DrainPlaces \cup PumpPlaces

(* The types, with the domains that TypeOK leaves to the actions.          *)
Types ==
  /\ stream \in BOOLEAN /\ capture \in BOOLEAN /\ prepared \in BOOLEAN
  /\ running \in BOOLEAN /\ packets \in BOOLEAN /\ periods \in BOOLEAN
  /\ pumping \in BOOLEAN
  /\ inflight \subseteq Periods /\ ring \subseteq Periods /\ early \subseteq Periods
  /\ number \in [Periods -> Nat] /\ used \in Seq(Periods)
  /\ ready \in Seq(0 .. MaxPackets) /\ Len(ready) <= PacketCount
  /\ completed \in Nat /\ next_capture \in Nat /\ turn \in Nat /\ returned \in Nat
  /\ given \in 0 .. MaxPackets /\ expected \in Nat
  /\ hand \in [Drainers -> Periods \cup {NoPeriod}]
  /\ packet \in [Threads -> 0 .. MaxPackets] /\ higher \in [Drainers -> BOOLEAN]
  /\ callback \in {"none", "prepare", "run", "pause", "release"}
  /\ marks \subseteq Marks

(* Where each thread can be.                                               *)
Places ==
  /\ at \in [Threads -> CallbackPlaces \cup Working \cup {"queued"}]
  /\ back \in [Threads -> CallbackPlaces]
  /\ at["callback"] \in CallbackPlaces \cup Working
  /\ at["dpc"] \in {"idle"} \cup Working
  /\ at["client"] \in {"idle", "queued"} \cup PumpPlaces
  /\ back["dpc"] = "idle" /\ back["client"] = "idle"

(* What the place of the callback says about the status of the stream, and *)
(* where it goes on after draining or pumping.                             *)
CallbackAt ==
  /\ callback = "none" <=> at["callback"] = "idle"
  /\ at["callback"] \in {"params", "prepare"} =>
       ~prepared /\ ~running /\ periods /\ callback \in {"prepare", "run"}
  /\ at["callback"] \in {"reset", "fill", "start"} =>
       prepared /\ ~running /\ callback \in {"prepare", "run"}
  /\ at["callback"] \in {"fill", "start", "return"} => callback = "run"
  /\ at["callback"] \in {"stop", "release", "check"} => prepared
  /\ at["callback"] \in {"stop", "release", "check", "last"} =>
       ~running /\ callback \in {"pause", "release"}
  /\ at["callback"] \in {"release", "check"} => back["callback"] = "check"
  /\ at["callback"] = "last" /\ callback = "release" => ~prepared
  /\ at["callback"] \in InPump => prepared
  /\ at["callback"] \in Working =>
       \/ /\ ~capture /\ callback = "run" /\ prepared
          /\ back["callback"] \in {"start", "return"}
          /\ back["callback"] = "start" => ~running
       \/ /\ callback \in {"pause", "release"} /\ ~running /\ prepared
          /\ back["callback"] = "check"
       \/ /\ callback \in {"pause", "release"} /\ ~running
          /\ back["callback"] = "last" /\ (callback = "release" => ~prepared)

(* A running stream is prepared, a prepared one has periods, and one that  *)
(* has periods has packets; of a stream that is gone nothing is left.      *)
Status ==
  /\ running => prepared
  /\ prepared => periods
  /\ periods => packets
  /\ ~stream => ~periods /\ callback = "none" /\ at["client"] = "idle"

(* A drainer has a period from get_buf until it is done with it.           *)
Hands ==
  \A t \in Drainers : hand[t] # NoPeriod <=> at[t] \in {"look", "mark", "ask", "refill"}

(* RenderPumpActive is the lock of the pump.                               *)
Pumps ==
  /\ \A t \in Threads : at[t] \in InPump => pumping
  /\ \A t, u \in Threads : at[t] \in InPump /\ at[u] \in InPump => t = u

(* InFlight and the ring agree.                                            *)
Distinct(s) == \A i, j \in DOMAIN s : s[i] = s[j] => i = j

Ring ==
  /\ Distinct(used)
  /\ periods => inflight = OnTheRing /\ ring \cap ToSet(used) = {}

(* While a stream is not prepared nobody uses its periods, if the wait for *)
(* it to be idle was not cut short.                                        *)
Clean == "forced" \notin marks /\ "inside" \notin marks

Settled ==
  (Clean /\ ~prepared) =>
    /\ OnTheRing = {} /\ \A t \in Drainers : hand[t] = NoPeriod
    /\ at["dpc"] \in {"idle", "get", "claim"}
    /\ at["client"] \in {"idle", "queued", "claim"}

(* The loop of Run leaves no period behind it that is not being read.      *)
Covered(p) == p \in inflight \/ InHand(p) \/ p \in early

Reading ==
  capture =>
    /\ running \/ at["callback"] = "start" => \A p \in Periods : Covered(p)
    /\ at["callback"] = "fill" => turn > 0 /\ \A p \in Periods : p < turn => Covered(p)

(* The queue has the packets up to the newest one given, without a gap.    *)
UpTo(s, n) ==
  Len(s) <= n /\ \A i \in 1 .. Len(s) : s[i] + Len(s) + 1 = n + i

Consecutive == UpTo(ready, given)

(* The next packet to be played is the head, in a pump the one it has.     *)
HeadIsNext ==
  "torn" \notin marks =>
    /\ Popping = {} => expected + Len(ready) = given
    /\ \A t \in Threads :
         at[t] \in {"submit", "drop"} => ready # <<>> /\ packet[t] = expected
    /\ \A t \in Threads :
         at[t] = "pop" => /\ ready # <<>> /\ packet[t] + 1 = expected
                          /\ packet[t] + Len(ready) = given

(* A thread that will look at the queue again.                             *)
OnTheWay == {"queued", "get", "look", "mark", "claim", "peek", "submit", "pop"}

SomeoneComes ==
  (~capture /\ running /\ ready # <<>> /\ Free # {} /\ used = <<>> /\ "turned" \notin marks)
    => \E t \in Threads : at[t] \in OnTheWay

IInv == /\ Types /\ Places /\ CallbackAt /\ Status /\ Hands /\ Pumps /\ Ring /\ Settled
        /\ Reading /\ Consecutive /\ HeadIsNext /\ SomeoneComes

Steps == \/ CallbackNext \/ Drain \/ Pump \/ SetRenderPacket \/ SetRenderPacketPumps
         \/ InterruptDpc \/ DeviceReturns

-----------------------------------------------------------------------------
(* Sets of numbers, and queues.  The least element of a set is found by    *)
(* way of the initial segments, as finite sets are well-founded.           *)
LEMMA HasLeast ==
  ASSUME NEW S, S \subseteq Nat, S # {}
  PROVE  \E p \in S : \A q \in S : p <= q
<1> DEFINE T == {1 .. p : p \in S}
<1>1. T \subseteq FiniteSubsetsOf(Nat) /\ T # {}
  <2>1. \A p \in S : IsFiniteSet(1 .. p) /\ 1 .. p \subseteq Nat
    BY FS_Interval
  <2>2. QED
    BY <2>1, Zenon DEF FiniteSubsetsOf
<1>2. IsWellFoundedOn(StrictSubsetOrdering(Nat), FiniteSubsetsOf(Nat))
  BY FS_StrictSubsetOrderingWellFounded
<1>3. PICK x \in T : \A y \in T : ~(<<y, x>> \in StrictSubsetOrdering(Nat))
  <2> HIDE DEF T
  <2> QED
    BY <1>1, <1>2, WFMin, Zenon
<1>4. PICK p \in S : x = 1 .. p
  OBVIOUS
<1>5. ASSUME NEW q \in S, q < p PROVE FALSE
  <2>1. 1 .. q \subseteq 1 .. p /\ p \in 1 .. p /\ p \notin 1 .. q
    BY <1>5
  <2>2. 1 .. q \in SUBSET Nat /\ 1 .. p \in SUBSET Nat /\ 1 .. q # 1 .. p
    BY <2>1
  <2>3. <<1 .. q, 1 .. p>> \in StrictSubsetOrdering(Nat)
    BY <2>1, <2>2 DEF StrictSubsetOrdering
  <2>4. QED
    BY <1>3, <1>4, <1>5, <2>3, Zenon
<1>6. QED
  BY <1>5

(* ViosndSubmitRenderPacket finds a free period when there is one.         *)
LEMMA FirstIsFree ==
  ASSUME inflight \subseteq Periods, Free # {}
  PROVE  First \in Free /\ First \in Periods
<1>1. Free \subseteq Nat /\ Free \subseteq Periods
  BY AcxStreamAssumption DEF Free, Periods
<1>2. \E p \in Free : \A q \in Free : p <= q
  BY <1>1, HasLeast, Zenon
<1>3. QED
  BY <1>1, <1>2, Zenon DEF First

(* The head and the tail of a queue.                                       *)
LEMMA HeadAndTail ==
  ASSUME NEW S, NEW s \in Seq(S), s # <<>>
  PROVE  /\ Head(s) \in S /\ Tail(s) \in Seq(S)
         /\ Len(s) \in Nat \ {0} /\ Len(Tail(s)) = Len(s) - 1
         /\ Head(s) = s[1] /\ \A i \in 1 .. Len(s) - 1 : Tail(s)[i] = s[i + 1]
<1>1. Len(s) \in Nat \ {0}
  BY EmptySeq
<1>2. QED
  BY <1>1, HeadTailProperties

(* Taking the head off a queue with nothing twice, and adding to it.       *)
LEMMA HeadGoes ==
  ASSUME NEW S, NEW s \in Seq(S), s # <<>>, Distinct(s)
  PROVE  /\ Distinct(Tail(s)) /\ Head(s) \in ToSet(s)
         /\ ToSet(Tail(s)) = ToSet(s) \ {Head(s)}
<1>1. /\ Len(s) \in Nat \ {0} /\ Len(Tail(s)) = Len(s) - 1 /\ Head(s) = s[1]
      /\ \A i \in 1 .. Len(s) - 1 : Tail(s)[i] = s[i + 1]
  BY HeadAndTail
<1>2. DOMAIN s = 1 .. Len(s) /\ DOMAIN Tail(s) = 1 .. Len(s) - 1
  BY <1>1, HeadAndTail, LenProperties
<1>3. Distinct(Tail(s))
  BY <1>1, <1>2 DEF Distinct
<1>4. ToSet(Tail(s)) \subseteq ToSet(s) \ {Head(s)}
  <2>1. ASSUME NEW i \in DOMAIN Tail(s) PROVE Tail(s)[i] \in ToSet(s) /\ Tail(s)[i] #
      Head(s)
    <3>1. Tail(s)[i] = s[i + 1] /\ i + 1 \in DOMAIN s /\ 1 \in DOMAIN s /\ i + 1 # 1
      BY <1>1, <1>2
    <3>2. QED
      BY <1>1, <3>1 DEF Distinct, ToSet
  <2>2. QED
    BY <2>1 DEF ToSet
<1>5. ToSet(s) \ {Head(s)} \subseteq ToSet(Tail(s))
  <2>1. ASSUME NEW i \in DOMAIN s, s[i] # Head(s) PROVE s[i] \in ToSet(Tail(s))
    <3>1. i - 1 \in DOMAIN Tail(s) /\ Tail(s)[i - 1] = s[i]
      BY <1>1, <1>2, <2>1
    <3>2. QED
      BY <3>1 DEF ToSet
  <2>2. QED
    BY <2>1 DEF ToSet
<1>6. Head(s) \in ToSet(s)
  BY <1>1, <1>2 DEF ToSet
<1>7. QED
  BY <1>3, <1>4, <1>5, <1>6

(* Nothing is twice in a queue that something new is appended to.          *)
LEMMA OneMore ==
  ASSUME NEW S, NEW s \in Seq(S), NEW p \in S, Distinct(s), p \notin ToSet(s)
  PROVE  /\ Distinct(Append(s, p)) /\ ToSet(Append(s, p)) = ToSet(s) \cup {p}
<1> DEFINE a == Append(s, p)
<1>1. /\ Len(s) \in Nat /\ DOMAIN s = 1 .. Len(s) /\ DOMAIN a = 1 .. Len(s) + 1
      /\ a[Len(s) + 1] = p /\ \A i \in 1 .. Len(s) : a[i] = s[i]
  BY LenProperties, AppendProperties
<1> HIDE DEF a
<1>2. Distinct(a)
  BY <1>1 DEF Distinct, ToSet
<1>3. ToSet(a) = ToSet(s) \cup {p}
  <2>1. ASSUME NEW i \in DOMAIN a PROVE a[i] \in ToSet(s) \cup {p}
    BY <1>1 DEF ToSet
  <2>2. ASSUME NEW i \in DOMAIN s PROVE s[i] \in ToSet(a)
    BY <1>1 DEF ToSet
  <2>3. p \in ToSet(a)
    BY <1>1 DEF ToSet
  <2>4. QED
    BY <2>1, <2>2, <2>3 DEF ToSet
<1>4. QED
  BY <1>2, <1>3 DEF a

(* Taking the oldest packet away and adding the next one leave no gap.     *)
LEMMA UpToTail ==
  ASSUME NEW S, S \subseteq Nat, NEW s \in Seq(S), s # <<>>, NEW n \in Nat, UpTo(s, n)
  PROVE  /\ UpTo(Tail(s), n) /\ Head(s) \in Nat /\ Head(s) + Len(s) = n
         /\ (Head(s) + 1) + Len(s) = n + 1
         /\ Len(s) \in Nat \ {0} /\ Len(Tail(s)) = Len(s) - 1
<1> DEFINE k == Len(s)
<1>1. /\ k \in Nat \ {0} /\ Len(Tail(s)) = k - 1 /\ Head(s) = s[1]
      /\ \A i \in 1 .. k - 1 : Tail(s)[i] = s[i + 1]
  BY HeadAndTail
<1>2. \A i \in 1 .. k : s[i] \in Nat /\ s[i] + k + 1 = n + i
  BY <1>1, ElementOfSeq, Zenon DEF UpTo
<1>3. k <= n
  BY DEF UpTo
<1> HIDE DEF k
<1>4. s[1] \in Nat /\ s[1] + k = n /\ (s[1] + 1) + k = n + 1
  BY <1>1, <1>2
<1>5. ASSUME NEW i \in 1 .. k - 1 PROVE Tail(s)[i] + (k - 1) + 1 = n + i
  <2>1. i + 1 \in 1 .. k /\ Tail(s)[i] = s[i + 1]
    BY <1>1
  <2>2. s[i + 1] \in Nat /\ s[i + 1] + k + 1 = n + (i + 1)
    BY <1>2, <2>1
  <2>3. QED
    BY <1>1, <2>1, <2>2
<1>6. UpTo(Tail(s), n)
  BY <1>1, <1>3, <1>5 DEF UpTo
<1>7. QED
  BY <1>1, <1>4, <1>6 DEF k

(* The next packet is appended without a gap.                              *)
LEMMA UpToAppend ==
  ASSUME NEW S, S \subseteq Nat, NEW s \in Seq(S), NEW n \in S, UpTo(s, n)
  PROVE  UpTo(Append(s, n), n + 1) /\ Len(Append(s, n)) = Len(s) + 1
<1> DEFINE k == Len(s)
           a == Append(s, n)
<1>1. /\ k \in Nat /\ Len(a) = k + 1 /\ a[k + 1] = n /\ \A i \in 1 .. k : a[i] = s[i]
  BY LenProperties, AppendProperties
<1>2. \A i \in 1 .. k : s[i] \in Nat /\ s[i] + k + 1 = n + i
  BY <1>1, ElementOfSeq, Zenon DEF UpTo
<1>3. k <= n /\ n \in Nat
  BY DEF UpTo
<1> HIDE DEF k, a
<1>4. ASSUME NEW i \in 1 .. k + 1 PROVE a[i] + (k + 1) + 1 = (n + 1) + i
  <2>1. CASE i = k + 1
    BY <1>1, <1>3, <2>1
  <2>2. CASE i \in 1 .. k
    BY <1>1, <1>2, <1>3, <2>2
  <2>3. QED
    BY <1>1, <2>1, <2>2
<1>5. UpTo(a, n + 1)
  BY <1>1, <1>3, <1>4 DEF UpTo
<1>6. QED
  BY <1>1, <1>5 DEF k, a

(* No packet is missing in an empty queue.                                 *)
LEMMA NoneUpTo == \A n \in Nat : UpTo(<<>>, n)
  BY EmptySeq DEF UpTo

(* The sums that a step of the pump leaves as they were.                   *)
LEMMA OneUp ==
  \A m, l, n \in Nat : m + l = n => (m + 1) + (l - 1) = n /\ (m + 1) + l = n + 1
  OBVIOUS

-----------------------------------------------------------------------------
(* Every step preserves the types.                                         *)
LEMMA TypesStep ==
  ASSUME IInv, ~Undefined, Steps PROVE Types'
<1> USE AcxStreamAssumption DEF IInv, Types, Hands, Threads, Drainers, Periods, NoPeriod,
    Marks,
        Goes, Marked, Forget, statusVars, memoryVars, ringVars, queueVars, countVars,
        readVars, localVars
<1>1. ASSUME NEW t \in Drainers, Get(t) PROVE Types'
  <2>1. used \in Seq(Periods) /\ used # <<>>
    BY <1>1 DEF Get
  <2>2. Head(used) \in Periods /\ Tail(used) \in Seq(Periods)
    BY <2>1, HeadAndTail, Zenon
  <2>3. number[Head(used)] \in Nat
    BY <2>2, Zenon
  <2> DEFINE k == number[Head(used)]
  <2>4. returned' \in Nat
    <3>1. returned' = IF k >= returned THEN k + 1 ELSE returned
      BY <1>1 DEF Get
    <3>2. returned \in Nat
      OBVIOUS
    <3>3. k \in Nat
      BY <2>3
    <3> HIDE DEF k
    <3>4. QED
      BY <3>1, <3>2, <3>3
  <2>5. inflight' \subseteq Periods /\ hand' \in [Drainers -> Periods \cup {NoPeriod}]
    BY <1>1, <2>2, Zenon DEF Get
  <2>6. used' \in Seq(Periods)
    BY <1>1, <2>2 DEF Get
  <2>7. UNCHANGED <<statusVars, periods, number, ring, queueVars, completed, readVars,
      pumping,
                    back, packet, higher, marks>>
    BY <1>1 DEF Get
  <2>8. QED
    BY <2>4, <2>5, <2>6, <2>7, Zenon
<1>2. ASSUME NEW t \in Drainers, GetNothing(t) PROVE Types'
  BY <1>2 DEF GetNothing
<1>3. ASSUME NEW t \in Drainers, Look(t) PROVE Types'
  <2>1. higher' \in [Drainers -> BOOLEAN]
    <3>1. (number[hand[t]] + 1 > completed) \in BOOLEAN
      BY <1>3 DEF Look
    <3> DEFINE h == number[hand[t]] + 1 > completed
    <3>2. higher' = [higher EXCEPT ![t] = h]
      BY <1>3 DEF Look
    <3> HIDE DEF h
    <3>3. QED
      BY <3>1, <3>2, Zenon DEF h
  <2>2. marks' \subseteq Marks
    BY <1>3 DEF Look
  <2>3. UNCHANGED <<statusVars, memoryVars, ringVars, queueVars, countVars, readVars,
                 pumping, back, hand, packet>>
    BY <1>3 DEF Look
  <2>4. QED
    BY <2>1, <2>2, <2>3, SMTT(30)
<1>4. ASSUME NEW t \in Drainers, Mark(t) PROVE Types'
  <2>1. hand[t] \in Periods
    BY <1>4, Zenon DEF Mark
  <2>2. completed' \in Nat
    BY <1>4, <2>1 DEF Mark
  <2>3. QED
    BY <1>4, <2>1, <2>2, Zenon DEF Mark
<1>5. ASSUME NEW t \in Drainers, Ask(t) PROVE Types'
  <2>1. hand[t] \in Periods
    BY <1>5, Zenon DEF Ask
  <2>2. early' \subseteq Periods
    BY <1>5, <2>1, Zenon DEF Ask
  <2>3. QED
    BY <1>5, <2>1, <2>2, Zenon DEF Ask
<1>6. ASSUME NEW t \in Drainers, Refill(t) PROVE Types'
  <2>1. hand[t] \in Periods
    BY <1>6 DEF Refill, Submit
  <2>2. QED
    BY <1>6, <2>1, Zenon DEF Refill, Submit
<1>7. ASSUME NEW t \in Drainers, RefillBusy(t) PROVE Types'
  BY <1>7, Zenon DEF RefillBusy
<1>8. ASSUME NEW t \in Drainers, Bump(t) PROVE Types'
  BY <1>8 DEF Bump
<1>9. ASSUME NEW t \in Threads, Claim(t) PROVE Types'
  BY <1>9, Zenon DEF Claim
<1>10. ASSUME NEW t \in Threads, ClaimNot(t) PROVE Types'
  BY <1>10 DEF ClaimNot
<1>11. ASSUME NEW t \in Threads, Peek(t) PROVE Types'
  <2>1. ready \in Seq(0 .. MaxPackets) /\ ready # <<>>
    BY <1>11 DEF Peek
  <2>2. Head(ready) \in 0 .. MaxPackets
    BY <2>1, HeadAndTail, Zenon
  <2>3. QED
    BY <1>11, <2>2, Zenon DEF Peek
<1>12. ASSUME NEW t \in Threads, PeekNothing(t) PROVE Types'
  BY <1>12 DEF PeekNothing
<1>13. ASSUME NEW t \in Threads, SubmitRenderPacket(t) PROVE Types'
  <2>1. First \in Periods
    BY <1>13, FirstIsFree, Zenon DEF SubmitRenderPacket
  <2>2. /\ number' \in [Periods -> Nat] /\ inflight' \subseteq Periods
        /\ ring' \subseteq Periods /\ UNCHANGED <<periods, used>>
    <3>1. /\ number' = [number EXCEPT ![First] = packet[t]] /\ packet[t] \in Nat
          /\ inflight' = inflight \cup {First} /\ ring' = ring \cup {First}
          /\ UNCHANGED <<periods, used>>
      BY <1>13 DEF SubmitRenderPacket, Submit
    <3>2. QED
      BY <2>1, <3>1, Zenon
  <2>3. expected' \in Nat /\ marks' \subseteq Marks
    BY <1>13 DEF SubmitRenderPacket
  <2>4. QED
    BY <1>13, <2>2, <2>3, Zenon DEF SubmitRenderPacket
<1>14. ASSUME NEW t \in Threads, SubmitFails(t) PROVE Types'
  BY <1>14, SMTT(30) DEF SubmitFails, Free
<1>15. ASSUME NEW t \in Threads, Pop(t) PROVE Types'
  <2>1. ready \in Seq(0 .. MaxPackets)
    OBVIOUS
  <2>2. ASSUME ready # <<>>
        PROVE  /\ Head(ready) \in 0 .. MaxPackets /\ Len(Tail(ready)) = Len(ready) - 1
               /\ Tail(ready) \in Seq(0 .. MaxPackets) /\ Len(ready) \in Nat
    BY <2>1, <2>2, HeadAndTail, Zenon
  <2>3. ready' \in Seq(0 .. MaxPackets) /\ Len(ready') <= PacketCount /\ expected' \in Nat
    <3>1. CASE ready = <<>>
      BY <1>15, <3>1 DEF Pop
    <3>2. CASE ready # <<>>
      BY <1>15, <2>2, <3>2, SMTT(30) DEF Pop
    <3>3. QED
      BY <3>1, <3>2
  <2>4. packet' \in [Threads -> 0 .. MaxPackets]
    BY <1>15 DEF Pop
  <2>5. UNCHANGED <<statusVars, memoryVars, ringVars, given, countVars, readVars, pumping,
                    back, hand, higher, marks>>
    BY <1>15 DEF Pop
  <2>6. QED
    BY <2>3, <2>4, <2>5, Zenon
<1>16. ASSUME NEW t \in Threads, Yield(t) PROVE Types'
  BY <1>16, Zenon DEF Yield
<1>17. CASE SetRenderPacket
  <2>1. ready \in Seq(0 .. MaxPackets) /\ Len(ready) \in Nat /\ Len(ready) <= PacketCount
    BY LenProperties
  <2>2. ASSUME ready # <<>>
        PROVE  /\ Head(ready) \in 0 .. MaxPackets /\ Len(Tail(ready)) = Len(ready) - 1
               /\ Tail(ready) \in Seq(0 .. MaxPackets)
    BY <2>1, <2>2, HeadAndTail, Zenon
  <2>3. Full => ready # <<>>
    BY EmptySeq DEF Full
  <2> DEFINE rest == IF Full THEN Tail(ready) ELSE ready
  <2>4. rest \in Seq(0 .. MaxPackets) /\ Len(rest) < PacketCount
    <3>1. CASE Full
      BY <2>1, <2>2, <2>3, <3>1 DEF Full
    <3>2. CASE ~Full
      BY <2>1, <3>2 DEF Full
    <3>3. QED
      BY <3>1, <3>2
  <2>5. ready' = Append(rest, given) /\ given \in 0 .. MaxPackets
    BY <1>17 DEF SetRenderPacket, Queued
  <2>6. ready' \in Seq(0 .. MaxPackets) /\ Len(ready') = Len(rest) + 1
    <3> HIDE DEF rest
    <3> QED
      BY <2>4, <2>5, AppendProperties
  <2>7. Len(ready') <= PacketCount
    BY <2>4, <2>6, LenProperties
  <2>8. expected' \in Nat /\ given' \in 0 .. MaxPackets
    <3>1. /\ given' = given + 1 /\ given < MaxPackets
          /\ expected' = IF Full /\ expected <= Head(ready) THEN Head(ready) + 1 ELSE expected
      BY <1>17, Zenon DEF SetRenderPacket
    <3>2. Full => Head(ready) + 1 \in Nat
      BY <2>2, <2>3
    <3>3. given' \in 0 .. MaxPackets
      BY <3>1
    <3>4. expected \in Nat
      OBVIOUS
    <3>5. expected' \in Nat
      BY <3>1, <3>2, <3>4, Zenon
    <3>6. QED
      BY <3>3, <3>5, Zenon
  <2>9. QED
    BY <1>17, <2>6, <2>7, <2>8, Zenon DEF SetRenderPacket
<1>18. CASE SetRenderPacketPumps
  BY <1>18 DEF SetRenderPacketPumps
<1>19. CASE InterruptDpc
  BY <1>19 DEF InterruptDpc
<1>20. CASE DeviceReturns
  BY <1>20, SMTT(30) DEF DeviceReturns
<1>21. CASE FreeRtPackets
  <2>1. marks' \subseteq Marks /\ ready' = <<>> /\ expected' = given /\ packets' \in BOOLEAN
    BY <1>21, Zenon DEF FreeRtPackets, FreeRtPacketStorage
  <2>2. ready' \in Seq(0 .. MaxPackets) /\ Len(ready') <= PacketCount
    BY <2>1, EmptySeq
  <2>3. QED
    BY <1>21, <2>1, <2>2, SMTT(30) DEF FreeRtPackets, FreeRtPacketStorage
<1>22. CASE AllocateRtPackets
  <2>1. marks' \subseteq Marks /\ ready' = <<>> /\ expected' = given /\ packets' \in BOOLEAN
    BY <1>22, Zenon DEF AllocateRtPackets, FreeRtPacketStorage
  <2>2. ready' \in Seq(0 .. MaxPackets) /\ Len(ready') <= PacketCount
    BY <2>1, EmptySeq
  <2>3. QED
    BY <1>22, <2>1, <2>2, SMTT(30) DEF AllocateRtPackets, FreeRtPacketStorage
<1>23. ASSUME NEW c \in {"prepare", "run"}, Configure(c) PROVE Types'
  BY <1>23, Zenon DEF Configure, Calls, Step, PrepareStreamPeriods
<1>24. CASE SetParams
  BY <1>24, SMTT(30) DEF SetParams, Step
<1>25. CASE Prepared
  <2>1. returned' \in Nat
    BY <1>25 DEF Prepared, Step
  <2>2. marks' \subseteq Marks
    BY <1>25, Zenon DEF Prepared, Step
  <2>3. QED
    BY <1>25, <2>1, <2>2, Zenon DEF Prepared, Step
<1>26. CASE Reset
  BY <1>26, Zenon DEF Reset, Step, Returns
<1>27. CASE ConfigureFails
  BY <1>27, Zenon DEF ConfigureFails, Step, Returns, FreeStreamPeriods
<1>28. CASE Run
  BY <1>28, Zenon DEF Run, Calls, Step
<1>29. CASE FillPeriod
  BY <1>29, SMTT(30) DEF FillPeriod, Submit, Step
<1>30. CASE FillNot
  BY <1>30 DEF FillNot, Step
<1>31. CASE Start
  BY <1>31 DEF Start, Step
<1>32. CASE StartFails
  BY <1>32 DEF StartFails, Step
<1>33. ASSUME NEW c \in {"pause", "release"}, Stop(c) PROVE Types'
  BY <1>33, Zenon DEF Stop, Calls, Step
<1>34. CASE ClearRenderQueue
  BY <1>34, SMTT(30) DEF ClearRenderQueue, Step
<1>35. CASE Release
  BY <1>35, SMTT(30) DEF Release, Step
<1>36. CASE CheckAgain
  BY <1>36 DEF CheckAgain, Step, HasInFlight
<1>37. CASE Stopped
  BY <1>37 DEF Stopped, Step, HasInFlight
<1>38. CASE Done
  BY <1>38, Zenon DEF Done, Step, Returns, FreeStreamPeriods
<1>39. CASE Cleanup
  BY <1>39, Zenon DEF Cleanup, Calls, FreeStreamPeriods
<1>40. CASE CreateStream
  <2>1. ready' \in Seq(0 .. MaxPackets) /\ Len(ready') <= PacketCount
    BY <1>40, EmptySeq DEF CreateStream
  <2>2. number' \in [Periods -> Nat]
    BY <1>40 DEF CreateStream
  <2>3. /\ stream' \in BOOLEAN /\ capture' \in BOOLEAN /\ prepared' \in BOOLEAN
        /\ running' \in BOOLEAN /\ packets' \in BOOLEAN /\ periods' \in BOOLEAN
        /\ pumping' \in BOOLEAN
    BY <1>40, Zenon DEF CreateStream
  <2>4. QED
    BY <1>40, <2>1, <2>2, <2>3 DEF CreateStream
<1>41. QED
  BY Zenon, <1>1, <1>2, <1>3, <1>4, <1>5, <1>6, <1>7, <1>8, <1>9, <1>10, <1>11, <1>12, <1>13,
      <1>14, <1>15, <1>16, <1>17, <1>18, <1>19, <1>20, <1>21, <1>22, <1>23, <1>24, <1>25,
          <1>26, <1>27, <1>28, <1>29, <1>30, <1>31, <1>32, <1>33, <1>34, <1>35, <1>36,
              <1>37, <1>38, <1>39, <1>40 DEF Steps, Drain, Pump, CallbackNext

(* Every step preserves the places of the threads.                         *)
LEMMA PlacesStep ==
  ASSUME IInv, ~Undefined, Steps PROVE Places'
<1> USE DEF IInv, Places, CallbackAt, Threads, Drainers, CallbackPlaces, DrainPlaces,
    PumpPlaces, Working, InPump,
        Goes, Marked, Forget, statusVars, memoryVars, ringVars, queueVars, countVars,
        readVars, localVars
<1>1. ASSUME NEW t \in Drainers, Get(t) PROVE Places'
  BY <1>1 DEF Get
<1>2. ASSUME NEW t \in Drainers, GetNothing(t) PROVE Places'
  BY <1>2 DEF GetNothing
<1>3. ASSUME NEW t \in Drainers, Look(t) PROVE Places'
  BY <1>3 DEF Look
<1>4. ASSUME NEW t \in Drainers, Mark(t) PROVE Places'
  BY <1>4 DEF Mark
<1>5. ASSUME NEW t \in Drainers, Ask(t) PROVE Places'
  BY <1>5 DEF Ask
<1>6. ASSUME NEW t \in Drainers, Refill(t) PROVE Places'
  BY <1>6 DEF Refill, Submit
<1>7. ASSUME NEW t \in Drainers, RefillBusy(t) PROVE Places'
  BY <1>7 DEF RefillBusy
<1>8. ASSUME NEW t \in Drainers, Bump(t) PROVE Places'
  BY <1>8 DEF Bump
<1>9. ASSUME NEW t \in Threads, Claim(t) PROVE Places'
  BY <1>9 DEF Claim
<1>10. ASSUME NEW t \in Threads, ClaimNot(t) PROVE Places'
  BY <1>10 DEF ClaimNot
<1>11. ASSUME NEW t \in Threads, Peek(t) PROVE Places'
  BY <1>11 DEF Peek
<1>12. ASSUME NEW t \in Threads, PeekNothing(t) PROVE Places'
  BY <1>12 DEF PeekNothing
<1>13. ASSUME NEW t \in Threads, SubmitRenderPacket(t) PROVE Places'
  BY <1>13 DEF SubmitRenderPacket, Submit, First, Free
<1>14. ASSUME NEW t \in Threads, SubmitFails(t) PROVE Places'
  BY <1>14 DEF SubmitFails, Free
<1>15. ASSUME NEW t \in Threads, Pop(t) PROVE Places'
  BY <1>15 DEF Pop
<1>16. ASSUME NEW t \in Threads, Yield(t) PROVE Places'
  BY <1>16 DEF Yield
<1>17. CASE SetRenderPacket
  BY <1>17 DEF SetRenderPacket, Queued, Full
<1>18. CASE SetRenderPacketPumps
  BY <1>18 DEF SetRenderPacketPumps
<1>19. CASE InterruptDpc
  BY <1>19 DEF InterruptDpc
<1>20. CASE DeviceReturns
  BY <1>20 DEF DeviceReturns
<1>21. CASE FreeRtPackets
  BY <1>21 DEF FreeRtPackets, FreeRtPacketStorage
<1>22. CASE AllocateRtPackets
  BY <1>22 DEF AllocateRtPackets, FreeRtPacketStorage
<1>23. ASSUME NEW c \in {"prepare", "run"}, Configure(c) PROVE Places'
  BY <1>23 DEF Configure, Calls, Step, PrepareStreamPeriods
<1>24. CASE SetParams
  BY <1>24 DEF SetParams, Step
<1>25. CASE Prepared
  BY <1>25 DEF Prepared, Step
<1>26. CASE Reset
  BY <1>26 DEF Reset, Step, Returns
<1>27. CASE ConfigureFails
  BY <1>27 DEF ConfigureFails, Step, Returns, FreeStreamPeriods
<1>28. CASE Run
  BY <1>28 DEF Run, Calls, Step
<1>29. CASE FillPeriod
  BY <1>29 DEF FillPeriod, Submit, Step
<1>30. CASE FillNot
  BY <1>30 DEF FillNot, Step
<1>31. CASE Start
  BY <1>31 DEF Start, Step
<1>32. CASE StartFails
  BY <1>32 DEF StartFails, Step
<1>33. ASSUME NEW c \in {"pause", "release"}, Stop(c) PROVE Places'
  BY <1>33 DEF Stop, Calls, Step
<1>34. CASE ClearRenderQueue
  BY <1>34 DEF ClearRenderQueue, Step
<1>35. CASE Release
  BY <1>35 DEF Release, Step
<1>36. CASE CheckAgain
  BY <1>36 DEF CheckAgain, Step, HasInFlight
<1>37. CASE Stopped
  BY <1>37 DEF Stopped, Step, HasInFlight
<1>38. CASE Done
  BY <1>38 DEF Done, Step, Returns, FreeStreamPeriods
<1>39. CASE Cleanup
  BY <1>39 DEF Cleanup, Calls, FreeStreamPeriods
<1>40. CASE CreateStream
  BY <1>40 DEF CreateStream
<1>41. QED
  BY <1>1, <1>2, <1>3, <1>4, <1>5, <1>6, <1>7, <1>8, <1>9, <1>10, <1>11, <1>12, <1>13,
      <1>14, <1>15, <1>16, <1>17, <1>18, <1>19, <1>20, <1>21, <1>22, <1>23, <1>24, <1>25,
          <1>26, <1>27, <1>28, <1>29, <1>30, <1>31, <1>32, <1>33, <1>34, <1>35, <1>36,
              <1>37, <1>38, <1>39, <1>40 DEF Steps, Drain, Pump, CallbackNext

(* Every step preserves what the callback's place says.                    *)
LEMMA CallbackAtStep ==
  ASSUME IInv, ~Undefined, Steps PROVE CallbackAt'
<1> USE DEF IInv, Places, CallbackAt, Status, Threads, Drainers, CallbackPlaces,
    DrainPlaces, PumpPlaces, Working, InPump,
        Goes, Marked, Forget, statusVars, memoryVars, ringVars, queueVars, countVars,
        readVars, localVars
<1>1. ASSUME NEW t \in Drainers, Get(t) PROVE CallbackAt'
  BY <1>1 DEF Get
<1>2. ASSUME NEW t \in Drainers, GetNothing(t) PROVE CallbackAt'
  BY <1>2 DEF GetNothing
<1>3. ASSUME NEW t \in Drainers, Look(t) PROVE CallbackAt'
  BY <1>3 DEF Look
<1>4. ASSUME NEW t \in Drainers, Mark(t) PROVE CallbackAt'
  BY <1>4 DEF Mark
<1>5. ASSUME NEW t \in Drainers, Ask(t) PROVE CallbackAt'
  BY <1>5 DEF Ask
<1>6. ASSUME NEW t \in Drainers, Refill(t) PROVE CallbackAt'
  BY <1>6 DEF Refill, Submit
<1>7. ASSUME NEW t \in Drainers, RefillBusy(t) PROVE CallbackAt'
  BY <1>7 DEF RefillBusy
<1>8. ASSUME NEW t \in Drainers, Bump(t) PROVE CallbackAt'
  BY <1>8 DEF Bump
<1>9. ASSUME NEW t \in Threads, Claim(t) PROVE CallbackAt'
  BY <1>9 DEF Claim
<1>10. ASSUME NEW t \in Threads, ClaimNot(t) PROVE CallbackAt'
  BY <1>10 DEF ClaimNot
<1>11. ASSUME NEW t \in Threads, Peek(t) PROVE CallbackAt'
  BY <1>11 DEF Peek
<1>12. ASSUME NEW t \in Threads, PeekNothing(t) PROVE CallbackAt'
  BY <1>12 DEF PeekNothing
<1>13. ASSUME NEW t \in Threads, SubmitRenderPacket(t) PROVE CallbackAt'
  BY <1>13 DEF SubmitRenderPacket, Submit, First, Free
<1>14. ASSUME NEW t \in Threads, SubmitFails(t) PROVE CallbackAt'
  BY <1>14 DEF SubmitFails, Free
<1>15. ASSUME NEW t \in Threads, Pop(t) PROVE CallbackAt'
  BY <1>15 DEF Pop
<1>16. ASSUME NEW t \in Threads, Yield(t) PROVE CallbackAt'
  BY <1>16 DEF Yield
<1>17. CASE SetRenderPacket
  BY <1>17 DEF SetRenderPacket, Queued, Full
<1>18. CASE SetRenderPacketPumps
  BY <1>18 DEF SetRenderPacketPumps
<1>19. CASE InterruptDpc
  BY <1>19 DEF InterruptDpc
<1>20. CASE DeviceReturns
  BY <1>20 DEF DeviceReturns
<1>21. CASE FreeRtPackets
  BY <1>21 DEF FreeRtPackets, FreeRtPacketStorage
<1>22. CASE AllocateRtPackets
  BY <1>22 DEF AllocateRtPackets, FreeRtPacketStorage
<1>23. ASSUME NEW c \in {"prepare", "run"}, Configure(c) PROVE CallbackAt'
  BY <1>23 DEF Configure, Calls, Step, PrepareStreamPeriods
<1>24. CASE SetParams
  BY <1>24 DEF SetParams, Step
<1>25. CASE Prepared
  BY <1>25 DEF Prepared, Step
<1>26. CASE Reset
  BY <1>26 DEF Reset, Step, Returns
<1>27. CASE ConfigureFails
  BY <1>27 DEF ConfigureFails, Step, Returns, FreeStreamPeriods
<1>28. CASE Run
  BY <1>28 DEF Run, Calls, Step
<1>29. CASE FillPeriod
  BY <1>29 DEF FillPeriod, Submit, Step
<1>30. CASE FillNot
  BY <1>30 DEF FillNot, Step
<1>31. CASE Start
  BY <1>31 DEF Start, Step
<1>32. CASE StartFails
  BY <1>32 DEF StartFails, Step
<1>33. ASSUME NEW c \in {"pause", "release"}, Stop(c) PROVE CallbackAt'
  BY <1>33 DEF Stop, Calls, Step
<1>34. CASE ClearRenderQueue
  BY <1>34 DEF ClearRenderQueue, Step
<1>35. CASE Release
  BY <1>35 DEF Release, Step
<1>36. CASE CheckAgain
  BY <1>36 DEF CheckAgain, Step, HasInFlight
<1>37. CASE Stopped
  BY <1>37, Zenon DEF Stopped, Step, HasInFlight
<1>38. CASE Done
  BY <1>38 DEF Done, Step, Returns, FreeStreamPeriods
<1>39. CASE Cleanup
  BY <1>39 DEF Cleanup, Calls, FreeStreamPeriods
<1>40. CASE CreateStream
  BY <1>40 DEF CreateStream
<1>41. QED
  BY <1>1, <1>2, <1>3, <1>4, <1>5, <1>6, <1>7, <1>8, <1>9, <1>10, <1>11, <1>12, <1>13,
      <1>14, <1>15, <1>16, <1>17, <1>18, <1>19, <1>20, <1>21, <1>22, <1>23, <1>24, <1>25,
          <1>26, <1>27, <1>28, <1>29, <1>30, <1>31, <1>32, <1>33, <1>34, <1>35, <1>36,
              <1>37, <1>38, <1>39, <1>40 DEF Steps, Drain, Pump, CallbackNext

(* Every step preserves the status of the stream.                          *)
LEMMA StatusStep ==
  ASSUME IInv, ~Undefined, Steps PROVE Status'
<1> USE DEF IInv, Places, CallbackAt, Status, Threads, Drainers, CallbackPlaces,
    DrainPlaces, PumpPlaces, Working, InPump,
        Goes, Marked, Forget, statusVars, memoryVars, ringVars, queueVars, countVars,
        readVars, localVars
<1>1. ASSUME NEW t \in Drainers, Get(t) PROVE Status'
  BY <1>1 DEF Get
<1>2. ASSUME NEW t \in Drainers, GetNothing(t) PROVE Status'
  BY <1>2 DEF GetNothing
<1>3. ASSUME NEW t \in Drainers, Look(t) PROVE Status'
  BY <1>3 DEF Look
<1>4. ASSUME NEW t \in Drainers, Mark(t) PROVE Status'
  BY <1>4 DEF Mark
<1>5. ASSUME NEW t \in Drainers, Ask(t) PROVE Status'
  BY <1>5 DEF Ask
<1>6. ASSUME NEW t \in Drainers, Refill(t) PROVE Status'
  BY <1>6 DEF Refill, Submit
<1>7. ASSUME NEW t \in Drainers, RefillBusy(t) PROVE Status'
  BY <1>7 DEF RefillBusy
<1>8. ASSUME NEW t \in Drainers, Bump(t) PROVE Status'
  BY <1>8 DEF Bump
<1>9. ASSUME NEW t \in Threads, Claim(t) PROVE Status'
  BY <1>9 DEF Claim
<1>10. ASSUME NEW t \in Threads, ClaimNot(t) PROVE Status'
  BY <1>10 DEF ClaimNot
<1>11. ASSUME NEW t \in Threads, Peek(t) PROVE Status'
  BY <1>11 DEF Peek
<1>12. ASSUME NEW t \in Threads, PeekNothing(t) PROVE Status'
  BY <1>12 DEF PeekNothing
<1>13. ASSUME NEW t \in Threads, SubmitRenderPacket(t) PROVE Status'
  BY <1>13 DEF SubmitRenderPacket, Submit, First, Free
<1>14. ASSUME NEW t \in Threads, SubmitFails(t) PROVE Status'
  BY <1>14 DEF SubmitFails, Free
<1>15. ASSUME NEW t \in Threads, Pop(t) PROVE Status'
  BY <1>15 DEF Pop
<1>16. ASSUME NEW t \in Threads, Yield(t) PROVE Status'
  BY <1>16 DEF Yield
<1>17. CASE SetRenderPacket
  BY <1>17 DEF SetRenderPacket, Queued, Full
<1>18. CASE SetRenderPacketPumps
  BY <1>18 DEF SetRenderPacketPumps
<1>19. CASE InterruptDpc
  BY <1>19 DEF InterruptDpc
<1>20. CASE DeviceReturns
  BY <1>20 DEF DeviceReturns
<1>21. CASE FreeRtPackets
  BY <1>21 DEF FreeRtPackets, FreeRtPacketStorage
<1>22. CASE AllocateRtPackets
  BY <1>22 DEF AllocateRtPackets, FreeRtPacketStorage
<1>23. ASSUME NEW c \in {"prepare", "run"}, Configure(c) PROVE Status'
  BY <1>23 DEF Configure, Calls, Step, PrepareStreamPeriods
<1>24. CASE SetParams
  BY <1>24 DEF SetParams, Step
<1>25. CASE Prepared
  BY <1>25 DEF Prepared, Step
<1>26. CASE Reset
  BY <1>26 DEF Reset, Step, Returns
<1>27. CASE ConfigureFails
  BY <1>27 DEF ConfigureFails, Step, Returns, FreeStreamPeriods
<1>28. CASE Run
  BY <1>28 DEF Run, Calls, Step
<1>29. CASE FillPeriod
  BY <1>29 DEF FillPeriod, Submit, Step
<1>30. CASE FillNot
  BY <1>30 DEF FillNot, Step
<1>31. CASE Start
  BY <1>31 DEF Start, Step
<1>32. CASE StartFails
  BY <1>32 DEF StartFails, Step
<1>33. ASSUME NEW c \in {"pause", "release"}, Stop(c) PROVE Status'
  BY <1>33 DEF Stop, Calls, Step
<1>34. CASE ClearRenderQueue
  BY <1>34 DEF ClearRenderQueue, Step
<1>35. CASE Release
  BY <1>35 DEF Release, Step
<1>36. CASE CheckAgain
  BY <1>36 DEF CheckAgain, Step, HasInFlight
<1>37. CASE Stopped
  BY <1>37 DEF Stopped, Step, HasInFlight
<1>38. CASE Done
  BY <1>38 DEF Done, Step, Returns, FreeStreamPeriods
<1>39. CASE Cleanup
  BY <1>39 DEF Cleanup, Calls, FreeStreamPeriods
<1>40. CASE CreateStream
  BY <1>40 DEF CreateStream
<1>41. QED
  BY <1>1, <1>2, <1>3, <1>4, <1>5, <1>6, <1>7, <1>8, <1>9, <1>10, <1>11, <1>12, <1>13,
      <1>14, <1>15, <1>16, <1>17, <1>18, <1>19, <1>20, <1>21, <1>22, <1>23, <1>24, <1>25,
          <1>26, <1>27, <1>28, <1>29, <1>30, <1>31, <1>32, <1>33, <1>34, <1>35, <1>36,
              <1>37, <1>38, <1>39, <1>40 DEF Steps, Drain, Pump, CallbackNext

(* Every step preserves who has a period.                                  *)
LEMMA HandsStep ==
  ASSUME IInv, ~Undefined, Steps PROVE Hands'
<1> USE DEF IInv, Types, Places, Hands, Periods, NoPeriod, Threads, Drainers,
    CallbackPlaces, DrainPlaces, PumpPlaces, Working, InPump,
        Goes, Marked, Forget, statusVars, memoryVars, ringVars, queueVars, countVars,
        readVars, localVars
<1>1. ASSUME NEW t \in Drainers, Get(t) PROVE Hands'
  <2>1. Head(used) \in Periods
    BY <1>1, HeadTailProperties, Zenon DEF Get
  <2>2. QED
    BY <1>1, <2>1, SMTT(30) DEF Get
<1>2. ASSUME NEW t \in Drainers, GetNothing(t) PROVE Hands'
  BY <1>2 DEF GetNothing
<1>3. ASSUME NEW t \in Drainers, Look(t) PROVE Hands'
  BY <1>3 DEF Look
<1>4. ASSUME NEW t \in Drainers, Mark(t) PROVE Hands'
  BY <1>4 DEF Mark
<1>5. ASSUME NEW t \in Drainers, Ask(t) PROVE Hands'
  BY <1>5 DEF Ask
<1>6. ASSUME NEW t \in Drainers, Refill(t) PROVE Hands'
  BY <1>6 DEF Refill, Submit
<1>7. ASSUME NEW t \in Drainers, RefillBusy(t) PROVE Hands'
  BY <1>7 DEF RefillBusy
<1>8. ASSUME NEW t \in Drainers, Bump(t) PROVE Hands'
  BY <1>8 DEF Bump
<1>9. ASSUME NEW t \in Threads, Claim(t) PROVE Hands'
  BY <1>9 DEF Claim
<1>10. ASSUME NEW t \in Threads, ClaimNot(t) PROVE Hands'
  BY <1>10 DEF ClaimNot
<1>11. ASSUME NEW t \in Threads, Peek(t) PROVE Hands'
  BY <1>11 DEF Peek
<1>12. ASSUME NEW t \in Threads, PeekNothing(t) PROVE Hands'
  BY <1>12 DEF PeekNothing
<1>13. ASSUME NEW t \in Threads, SubmitRenderPacket(t) PROVE Hands'
  BY <1>13, Zenon DEF SubmitRenderPacket, Submit, First, Free
<1>14. ASSUME NEW t \in Threads, SubmitFails(t) PROVE Hands'
  BY <1>14 DEF SubmitFails, Free
<1>15. ASSUME NEW t \in Threads, Pop(t) PROVE Hands'
  BY <1>15 DEF Pop
<1>16. ASSUME NEW t \in Threads, Yield(t) PROVE Hands'
  BY <1>16 DEF Yield
<1>17. CASE SetRenderPacket
  BY <1>17 DEF SetRenderPacket, Queued, Full
<1>18. CASE SetRenderPacketPumps
  BY <1>18 DEF SetRenderPacketPumps
<1>19. CASE InterruptDpc
  BY <1>19 DEF InterruptDpc
<1>20. CASE DeviceReturns
  BY <1>20 DEF DeviceReturns
<1>21. CASE FreeRtPackets
  BY <1>21 DEF FreeRtPackets, FreeRtPacketStorage
<1>22. CASE AllocateRtPackets
  BY <1>22 DEF AllocateRtPackets, FreeRtPacketStorage
<1>23. ASSUME NEW c \in {"prepare", "run"}, Configure(c) PROVE Hands'
  BY <1>23 DEF Configure, Calls, Step, PrepareStreamPeriods
<1>24. CASE SetParams
  BY <1>24 DEF SetParams, Step
<1>25. CASE Prepared
  BY <1>25 DEF Prepared, Step
<1>26. CASE Reset
  BY <1>26 DEF Reset, Step, Returns
<1>27. CASE ConfigureFails
  BY <1>27 DEF ConfigureFails, Step, Returns, FreeStreamPeriods
<1>28. CASE Run
  BY <1>28 DEF Run, Calls, Step
<1>29. CASE FillPeriod
  BY <1>29 DEF FillPeriod, Submit, Step
<1>30. CASE FillNot
  BY <1>30 DEF FillNot, Step
<1>31. CASE Start
  BY <1>31 DEF Start, Step
<1>32. CASE StartFails
  BY <1>32 DEF StartFails, Step
<1>33. ASSUME NEW c \in {"pause", "release"}, Stop(c) PROVE Hands'
  BY <1>33 DEF Stop, Calls, Step
<1>34. CASE ClearRenderQueue
  BY <1>34 DEF ClearRenderQueue, Step
<1>35. CASE Release
  BY <1>35 DEF Release, Step
<1>36. CASE CheckAgain
  BY <1>36 DEF CheckAgain, Step, HasInFlight
<1>37. CASE Stopped
  BY <1>37 DEF Stopped, Step, HasInFlight
<1>38. CASE Done
  BY <1>38 DEF Done, Step, Returns, FreeStreamPeriods
<1>39. CASE Cleanup
  BY <1>39 DEF Cleanup, Calls, FreeStreamPeriods
<1>40. CASE CreateStream
  BY <1>40 DEF CreateStream
<1>41. QED
  BY <1>1, <1>2, <1>3, <1>4, <1>5, <1>6, <1>7, <1>8, <1>9, <1>10, <1>11, <1>12, <1>13,
      <1>14, <1>15, <1>16, <1>17, <1>18, <1>19, <1>20, <1>21, <1>22, <1>23, <1>24, <1>25,
          <1>26, <1>27, <1>28, <1>29, <1>30, <1>31, <1>32, <1>33, <1>34, <1>35, <1>36,
              <1>37, <1>38, <1>39, <1>40 DEF Steps, Drain, Pump, CallbackNext

(* Every step leaves at most one thread in the pump.                       *)
LEMMA PumpsStep ==
  ASSUME IInv, ~Undefined, Steps PROVE Pumps'
<1> USE DEF IInv, Places, CallbackAt, Status, Pumps, Threads, Drainers, CallbackPlaces,
    DrainPlaces, PumpPlaces, Working, InPump,
        Goes, Marked, Forget, statusVars, memoryVars, ringVars, queueVars, countVars,
        readVars, localVars
<1>1. ASSUME NEW t \in Drainers, Get(t) PROVE Pumps'
  BY <1>1 DEF Get
<1>2. ASSUME NEW t \in Drainers, GetNothing(t) PROVE Pumps'
  BY <1>2 DEF GetNothing
<1>3. ASSUME NEW t \in Drainers, Look(t) PROVE Pumps'
  BY <1>3 DEF Look
<1>4. ASSUME NEW t \in Drainers, Mark(t) PROVE Pumps'
  BY <1>4 DEF Mark
<1>5. ASSUME NEW t \in Drainers, Ask(t) PROVE Pumps'
  BY <1>5 DEF Ask
<1>6. ASSUME NEW t \in Drainers, Refill(t) PROVE Pumps'
  BY <1>6 DEF Refill, Submit
<1>7. ASSUME NEW t \in Drainers, RefillBusy(t) PROVE Pumps'
  BY <1>7 DEF RefillBusy
<1>8. ASSUME NEW t \in Drainers, Bump(t) PROVE Pumps'
  BY <1>8 DEF Bump
<1>9. ASSUME NEW t \in Threads, Claim(t) PROVE Pumps'
  BY <1>9 DEF Claim
<1>10. ASSUME NEW t \in Threads, ClaimNot(t) PROVE Pumps'
  BY <1>10 DEF ClaimNot
<1>11. ASSUME NEW t \in Threads, Peek(t) PROVE Pumps'
  BY <1>11 DEF Peek
<1>12. ASSUME NEW t \in Threads, PeekNothing(t) PROVE Pumps'
  BY <1>12 DEF PeekNothing
<1>13. ASSUME NEW t \in Threads, SubmitRenderPacket(t) PROVE Pumps'
  BY <1>13 DEF SubmitRenderPacket
<1>14. ASSUME NEW t \in Threads, SubmitFails(t) PROVE Pumps'
  BY <1>14 DEF SubmitFails, Free
<1>15. ASSUME NEW t \in Threads, Pop(t) PROVE Pumps'
  BY <1>15 DEF Pop
<1>16. ASSUME NEW t \in Threads, Yield(t) PROVE Pumps'
  BY <1>16 DEF Yield
<1>17. CASE SetRenderPacket
  BY <1>17 DEF SetRenderPacket, Queued, Full
<1>18. CASE SetRenderPacketPumps
  BY <1>18 DEF SetRenderPacketPumps
<1>19. CASE InterruptDpc
  BY <1>19 DEF InterruptDpc
<1>20. CASE DeviceReturns
  BY <1>20 DEF DeviceReturns
<1>21. CASE FreeRtPackets
  BY <1>21 DEF FreeRtPackets, FreeRtPacketStorage
<1>22. CASE AllocateRtPackets
  BY <1>22 DEF AllocateRtPackets, FreeRtPacketStorage
<1>23. ASSUME NEW c \in {"prepare", "run"}, Configure(c) PROVE Pumps'
  BY <1>23 DEF Configure, Calls, Step, PrepareStreamPeriods
<1>24. CASE SetParams
  BY <1>24 DEF SetParams, Step
<1>25. CASE Prepared
  BY <1>25 DEF Prepared, Step
<1>26. CASE Reset
  BY <1>26 DEF Reset, Step, Returns
<1>27. CASE ConfigureFails
  BY <1>27 DEF ConfigureFails, Step, Returns, FreeStreamPeriods
<1>28. CASE Run
  BY <1>28 DEF Run, Calls, Step
<1>29. CASE FillPeriod
  BY <1>29 DEF FillPeriod, Submit, Step
<1>30. CASE FillNot
  BY <1>30 DEF FillNot, Step
<1>31. CASE Start
  BY <1>31 DEF Start, Step
<1>32. CASE StartFails
  BY <1>32 DEF StartFails, Step
<1>33. ASSUME NEW c \in {"pause", "release"}, Stop(c) PROVE Pumps'
  BY <1>33 DEF Stop, Calls, Step
<1>34. CASE ClearRenderQueue
  BY <1>34 DEF ClearRenderQueue, Step
<1>35. CASE Release
  BY <1>35 DEF Release, Step
<1>36. CASE CheckAgain
  BY <1>36 DEF CheckAgain, Step, HasInFlight
<1>37. CASE Stopped
  BY <1>37 DEF Stopped, Step, HasInFlight
<1>38. CASE Done
  BY <1>38 DEF Done, Step, Returns, FreeStreamPeriods
<1>39. CASE Cleanup
  BY <1>39 DEF Cleanup, Calls, FreeStreamPeriods
<1>40. CASE CreateStream
  BY <1>40 DEF CreateStream, Undefined, Outlived, Inside
<1>41. QED
  BY <1>1, <1>2, <1>3, <1>4, <1>5, <1>6, <1>7, <1>8, <1>9, <1>10, <1>11, <1>12, <1>13,
      <1>14, <1>15, <1>16, <1>17, <1>18, <1>19, <1>20, <1>21, <1>22, <1>23, <1>24, <1>25,
          <1>26, <1>27, <1>28, <1>29, <1>30, <1>31, <1>32, <1>33, <1>34, <1>35, <1>36,
              <1>37, <1>38, <1>39, <1>40 DEF Steps, Drain, Pump, CallbackNext

(* Every step keeps InFlight and the ring in agreement.                    *)
LEMMA RingStep ==
  ASSUME IInv, ~Undefined, Steps PROVE Ring'
<1> USE DEF IInv, Types, Ring, Status, Hands, OnTheRing, Threads, Drainers, Undefined,
    Stray, Dangling,
        Goes, Marked, Forget, statusVars, memoryVars, ringVars, queueVars, countVars,
        readVars, localVars
<1>1. ASSUME NEW t \in Drainers, 
             GetNothing(t) \/ Look(t) \/ Mark(t) \/ Ask(t) \/ Refill(t) \/ RefillBusy(t)
      PROVE  Ring'
  BY <1>1, SMTT(30) DEF GetNothing, Look, Mark, Ask, Refill, Submit, RefillBusy
<1>2. ASSUME NEW t \in Drainers, Bump(t) PROVE Ring'
  BY <1>2 DEF Bump
<1>3. ASSUME NEW t \in Drainers, Get(t) PROVE Ring'
  <2>1. used \in Seq(Periods) /\ used # <<>> /\ Distinct(used)
    BY <1>3 DEF Get
  <2>2. /\ Distinct(Tail(used)) /\ Head(used) \in ToSet(used)
        /\ ToSet(Tail(used)) = ToSet(used) \ {Head(used)}
    BY <2>1, HeadGoes
  <2>3. QED
    BY <1>3, <2>2 DEF Get
<1>4. ASSUME NEW t \in Threads, 
             Claim(t) \/ ClaimNot(t) \/ Peek(t) \/ PeekNothing(t) \/ SubmitFails(t) \/
             Pop(t)
      PROVE  Ring'
  BY <1>4 DEF Claim, ClaimNot, Peek, PeekNothing, SubmitFails, Free, Pop
<1>5. ASSUME NEW t \in Threads, Yield(t) PROVE Ring'
  BY <1>5 DEF Yield
<1>6. ASSUME NEW t \in Threads, SubmitRenderPacket(t) PROVE Ring'
  <2>1. First \in Periods \ inflight
    BY <1>6, FirstIsFree DEF SubmitRenderPacket, Free
  <2>2. QED
    BY <1>6, <2>1 DEF SubmitRenderPacket, Submit
<1>7. CASE SetRenderPacket \/ SetRenderPacketPumps \/ InterruptDpc
  BY <1>7 DEF SetRenderPacket, Queued, Full, SetRenderPacketPumps, InterruptDpc
<1>8. CASE DeviceReturns
  <2>1. PICK p \in ring : ring' = ring \ {p} /\ used' = Append(used, p)
    BY <1>8 DEF DeviceReturns
  <2>2. periods
    BY <2>1 DEF Undefined, Stray
  <2>3. used \in Seq(Periods) /\ p \in Periods /\ Distinct(used) /\ p \notin ToSet(used)
    BY <2>1, <2>2
  <2>4. Distinct(used') /\ ToSet(used') = ToSet(used) \cup {p}
    BY <2>1, <2>3, OneMore
  <2>5. UNCHANGED <<periods, inflight>>
    BY <1>8 DEF DeviceReturns
  <2>6. QED
    BY <2>1, <2>2, <2>3, <2>4, <2>5
<1>9. CASE FreeRtPackets \/ AllocateRtPackets \/ SetParams \/ Prepared \/ Reset \/
           ConfigureFails
  BY <1>9 DEF FreeRtPackets, FreeRtPacketStorage, AllocateRtPackets, SetParams, Step,
      Prepared, Reset, Returns, ConfigureFails, FreeStreamPeriods
<1>10. CASE Run \/ FillPeriod \/ FillNot \/ Start \/ StartFails \/ ClearRenderQueue
  BY <1>10 DEF Run, Calls, Step, FillPeriod, Submit, FillNot, Start, StartFails,
      ClearRenderQueue
<1>11. CASE Release \/ CheckAgain \/ Stopped \/ Done \/ Cleanup \/ CreateStream
  BY <1>11 DEF Release, Step, CheckAgain, HasInFlight, Stopped, Done, Returns,
      FreeStreamPeriods, Cleanup, Calls, CreateStream
<1>12. ASSUME NEW c \in {"prepare", "run"}, Configure(c) PROVE Ring'
  BY <1>12 DEF Configure, Calls, Step, PrepareStreamPeriods
<1>13. ASSUME NEW c \in {"pause", "release"}, Stop(c) PROVE Ring'
  BY <1>13 DEF Stop, Calls, Step
<1>14. QED
  BY <1>1, <1>2, <1>3, <1>4, <1>5, <1>6, <1>7, <1>8, <1>9, <1>10, <1>11, <1>12, <1>13 DEF
      Steps, Drain, Pump, CallbackNext

(* Every step leaves the periods of an unprepared stream alone.            *)
LEMMA SettledStep ==
  ASSUME IInv, ~Undefined, Steps PROVE Settled'
<1> USE DEF IInv, Types, Places, CallbackAt, Status, Hands, Settled, Clean, Ring,
    OnTheRing, Undefined, Stray, Dangling, Inside, Periods, NoPeriod, Threads, Drainers,
        CallbackPlaces, DrainPlaces, PumpPlaces, Working, InPump,
        Goes, Marked, Forget, statusVars, memoryVars, ringVars, queueVars, countVars,
        readVars, localVars
<1>1. ASSUME NEW t \in Drainers, Get(t) PROVE Settled'
  <2>1. used \in Seq(Periods) /\ used # <<>> /\ Distinct(used)
    BY <1>1 DEF Get
  <2>2. Head(used) \in OnTheRing
    BY <2>1, HeadGoes
  <2>3. ~(Clean /\ ~prepared) /\ UNCHANGED <<marks, prepared>>
    BY <1>1, <2>2 DEF Get
  <2>4. QED
    BY <2>3
<1>2. ASSUME NEW t \in Drainers, GetNothing(t) PROVE Settled'
  BY <1>2 DEF GetNothing
<1>3. ASSUME NEW t \in Drainers, Look(t) PROVE Settled'
  BY <1>3 DEF Look
<1>4. ASSUME NEW t \in Drainers, Mark(t) PROVE Settled'
  BY <1>4 DEF Mark
<1>5. ASSUME NEW t \in Drainers, Ask(t) PROVE Settled'
  BY <1>5 DEF Ask
<1>6. ASSUME NEW t \in Drainers, Refill(t) PROVE Settled'
  BY <1>6 DEF Refill, Submit
<1>7. ASSUME NEW t \in Drainers, RefillBusy(t) PROVE Settled'
  BY <1>7 DEF RefillBusy
<1>8. ASSUME NEW t \in Drainers, Bump(t) PROVE Settled'
  BY <1>8 DEF Bump
<1>9. ASSUME NEW t \in Threads, Claim(t) PROVE Settled'
  BY <1>9 DEF Claim
<1>10. ASSUME NEW t \in Threads, ClaimNot(t) PROVE Settled'
  BY <1>10 DEF ClaimNot
<1>11. ASSUME NEW t \in Threads, Peek(t) PROVE Settled'
  BY <1>11 DEF Peek
<1>12. ASSUME NEW t \in Threads, PeekNothing(t) PROVE Settled'
  BY <1>12 DEF PeekNothing
<1>13. ASSUME NEW t \in Threads, SubmitRenderPacket(t) PROVE Settled'
  <2>1. ~(Clean /\ ~prepared)
    BY <1>13 DEF SubmitRenderPacket
  <2>2. ~(Clean /\ ~prepared)'
    BY <1>13, <2>1 DEF SubmitRenderPacket
  <2>3. QED
    BY <2>2
<1>14. ASSUME NEW t \in Threads, SubmitFails(t) PROVE Settled'
  BY <1>14 DEF SubmitFails, Free
<1>15. ASSUME NEW t \in Threads, Pop(t) PROVE Settled'
  BY <1>15 DEF Pop
<1>16. ASSUME NEW t \in Threads, Yield(t) PROVE Settled'
  BY <1>16 DEF Yield
<1>17. CASE SetRenderPacket
  BY <1>17 DEF SetRenderPacket, Queued, Full
<1>18. CASE SetRenderPacketPumps
  BY <1>18 DEF SetRenderPacketPumps
<1>19. CASE InterruptDpc
  BY <1>19 DEF InterruptDpc
<1>20. CASE DeviceReturns
  <2>1. OnTheRing # {} /\ UNCHANGED <<marks, prepared>>
    BY <1>20 DEF DeviceReturns
  <2>2. QED
    BY <2>1
<1>21. CASE FreeRtPackets
  BY <1>21 DEF FreeRtPackets, FreeRtPacketStorage
<1>22. CASE AllocateRtPackets
  BY <1>22 DEF AllocateRtPackets, FreeRtPacketStorage
<1>23. ASSUME NEW c \in {"prepare", "run"}, Configure(c) PROVE Settled'
  BY <1>23 DEF Configure, Calls, Step, PrepareStreamPeriods
<1>24. CASE SetParams
  BY <1>24 DEF SetParams, Step
<1>25. CASE Prepared
  BY <1>25 DEF Prepared, Step
<1>26. CASE Reset
  BY <1>26 DEF Reset, Step, Returns
<1>27. CASE ConfigureFails
  BY <1>27 DEF ConfigureFails, Step, Returns, FreeStreamPeriods
<1>28. CASE Run
  BY <1>28 DEF Run, Calls, Step
<1>29. CASE FillPeriod
  BY <1>29 DEF FillPeriod, Submit, Step
<1>30. CASE FillNot
  BY <1>30 DEF FillNot, Step
<1>31. CASE Start
  BY <1>31 DEF Start, Step
<1>32. CASE StartFails
  BY <1>32 DEF StartFails, Step
<1>33. ASSUME NEW c \in {"pause", "release"}, Stop(c) PROVE Settled'
  BY <1>33 DEF Stop, Calls, Step
<1>34. CASE ClearRenderQueue
  BY <1>34 DEF ClearRenderQueue, Step
<1>35. CASE Release
  BY <1>35 DEF Release, Step
<1>36. CASE CheckAgain
  BY <1>36 DEF CheckAgain, Step, HasInFlight
<1>37. CASE Stopped
  BY <1>37 DEF Stopped, Step, HasInFlight
<1>38. CASE Done
  BY <1>38 DEF Done, Step, Returns, FreeStreamPeriods
<1>39. CASE Cleanup
  BY <1>39 DEF Cleanup, Calls, FreeStreamPeriods
<1>40. CASE CreateStream
  BY <1>40 DEF CreateStream, Outlived
<1>41. QED
  BY <1>1, <1>2, <1>3, <1>4, <1>5, <1>6, <1>7, <1>8, <1>9, <1>10, <1>11, <1>12, <1>13,
      <1>14, <1>15, <1>16, <1>17, <1>18, <1>19, <1>20, <1>21, <1>22, <1>23, <1>24, <1>25,
          <1>26, <1>27, <1>28, <1>29, <1>30, <1>31, <1>32, <1>33, <1>34, <1>35, <1>36,
              <1>37, <1>38, <1>39, <1>40 DEF Steps, Drain, Pump, CallbackNext

(* Every step keeps the periods of a capture stream covered.               *)
LEMMA ReadingStep ==
  ASSUME IInv, ~Undefined, Steps PROVE Reading'
<1> USE AcxStreamAssumption DEF IInv, Types, Places, CallbackAt, Status, Hands, Reading,
    Covered, InHand, Undefined, Stray, Dangling, Periods, NoPeriod, Threads, Drainers,
        CallbackPlaces, DrainPlaces, PumpPlaces, Working, InPump,
        Goes, Marked, Forget, statusVars, memoryVars, ringVars, queueVars, countVars,
        readVars, localVars
<1>1. ASSUME NEW t \in Drainers, Get(t) PROVE Reading'
  BY <1>1, Zenon DEF Get
<1>2. ASSUME NEW t \in Drainers, GetNothing(t) PROVE Reading'
  BY <1>2 DEF GetNothing
<1>3. ASSUME NEW t \in Drainers, Look(t) PROVE Reading'
  BY <1>3, Zenon DEF Look
<1>4. ASSUME NEW t \in Drainers, Mark(t) PROVE Reading'
  BY <1>4, Zenon DEF Mark
<1>5. ASSUME NEW t \in Drainers, Ask(t) PROVE Reading'
  BY <1>5 DEF Ask
<1>6. ASSUME NEW t \in Drainers, Refill(t) PROVE Reading'
  BY <1>6, SMTT(30) DEF Refill, Submit
<1>7. ASSUME NEW t \in Drainers, RefillBusy(t) PROVE Reading'
  BY <1>7 DEF RefillBusy
<1>8. ASSUME NEW t \in Drainers, Bump(t) PROVE Reading'
  BY <1>8 DEF Bump
<1>9. ASSUME NEW t \in Threads, Claim(t) PROVE Reading'
  BY <1>9 DEF Claim
<1>10. ASSUME NEW t \in Threads, ClaimNot(t) PROVE Reading'
  BY <1>10 DEF ClaimNot
<1>11. ASSUME NEW t \in Threads, Peek(t) PROVE Reading'
  BY <1>11 DEF Peek
<1>12. ASSUME NEW t \in Threads, PeekNothing(t) PROVE Reading'
  BY <1>12 DEF PeekNothing
<1>13. ASSUME NEW t \in Threads, SubmitRenderPacket(t) PROVE Reading'
  BY <1>13, Zenon DEF SubmitRenderPacket, Submit, First, Free
<1>14. ASSUME NEW t \in Threads, SubmitFails(t) PROVE Reading'
  BY <1>14 DEF SubmitFails, Free
<1>15. ASSUME NEW t \in Threads, Pop(t) PROVE Reading'
  BY <1>15 DEF Pop
<1>16. ASSUME NEW t \in Threads, Yield(t) PROVE Reading'
  BY <1>16 DEF Yield
<1>17. CASE SetRenderPacket
  BY <1>17 DEF SetRenderPacket, Queued, Full
<1>18. CASE SetRenderPacketPumps
  BY <1>18 DEF SetRenderPacketPumps
<1>19. CASE InterruptDpc
  BY <1>19 DEF InterruptDpc
<1>20. CASE DeviceReturns
  BY <1>20 DEF DeviceReturns
<1>21. CASE FreeRtPackets
  BY <1>21 DEF FreeRtPackets, FreeRtPacketStorage
<1>22. CASE AllocateRtPackets
  BY <1>22 DEF AllocateRtPackets, FreeRtPacketStorage
<1>23. ASSUME NEW c \in {"prepare", "run"}, Configure(c) PROVE Reading'
  BY <1>23 DEF Configure, Calls, Step, PrepareStreamPeriods
<1>24. CASE SetParams
  BY <1>24 DEF SetParams, Step
<1>25. CASE Prepared
  BY <1>25 DEF Prepared, Step
<1>26. CASE Reset
  BY <1>26 DEF Reset, Step, Returns
<1>27. CASE ConfigureFails
  BY <1>27 DEF ConfigureFails, Step, Returns, FreeStreamPeriods
<1>28. CASE Run
  BY <1>28 DEF Run, Calls, Step
<1>29. CASE FillPeriod
  BY <1>29 DEF FillPeriod, Submit, Step
<1>30. CASE FillNot
  BY <1>30 DEF FillNot, Step
<1>31. CASE Start
  BY <1>31 DEF Start, Step
<1>32. CASE StartFails
  BY <1>32 DEF StartFails, Step
<1>33. ASSUME NEW c \in {"pause", "release"}, Stop(c) PROVE Reading'
  BY <1>33 DEF Stop, Calls, Step
<1>34. CASE ClearRenderQueue
  BY <1>34 DEF ClearRenderQueue, Step
<1>35. CASE Release
  BY <1>35 DEF Release, Step
<1>36. CASE CheckAgain
  BY <1>36 DEF CheckAgain, Step, HasInFlight
<1>37. CASE Stopped
  BY <1>37 DEF Stopped, Step, HasInFlight
<1>38. CASE Done
  BY <1>38 DEF Done, Step, Returns, FreeStreamPeriods
<1>39. CASE Cleanup
  BY <1>39 DEF Cleanup, Calls, FreeStreamPeriods
<1>40. CASE CreateStream
  BY <1>40 DEF CreateStream
<1>41. QED
  BY <1>1, <1>2, <1>3, <1>4, <1>5, <1>6, <1>7, <1>8, <1>9, <1>10, <1>11, <1>12, <1>13,
      <1>14, <1>15, <1>16, <1>17, <1>18, <1>19, <1>20, <1>21, <1>22, <1>23, <1>24, <1>25,
          <1>26, <1>27, <1>28, <1>29, <1>30, <1>31, <1>32, <1>33, <1>34, <1>35, <1>36,
              <1>37, <1>38, <1>39, <1>40 DEF Steps, Drain, Pump, CallbackNext

(* Every step keeps the queue without a gap.                               *)
LEMMA ConsecutiveStep ==
  ASSUME IInv, ~Undefined, Steps PROVE Consecutive'
<1> USE AcxStreamAssumption DEF IInv, Types, Consecutive,
        Goes, Marked, Forget, statusVars, memoryVars, ringVars, queueVars, countVars,
        readVars, localVars
<1>1. ASSUME NEW t \in Drainers, 
             Get(t) \/ GetNothing(t) \/ Look(t) \/ Mark(t) \/ Ask(t) \/ Refill(t)
      PROVE  Consecutive'
  BY <1>1 DEF Get, GetNothing, Look, Mark, Ask, Refill, Submit
<1>2. ASSUME NEW t \in Drainers, 
             RefillBusy(t) \/ Bump(t)
      PROVE  Consecutive'
  BY <1>2 DEF RefillBusy, Bump
<1>3. ASSUME NEW t \in Threads, 
             Claim(t) \/ ClaimNot(t) \/ Peek(t) \/ PeekNothing(t) \/
             SubmitRenderPacket(t) \/ SubmitFails(t)
      PROVE  Consecutive'
  BY <1>3 DEF Claim, ClaimNot, Peek, PeekNothing, SubmitRenderPacket, Submit, First, Free,
      SubmitFails
<1>4. ASSUME NEW t \in Threads, Yield(t) PROVE Consecutive'
  BY <1>4 DEF Yield
<1>5. ASSUME NEW t \in Threads, Pop(t) PROVE Consecutive'
  <2>1. CASE ready = <<>>
    <3>1. UNCHANGED <<ready, given>>
      BY <1>5, <2>1 DEF Pop
    <3>2. QED
      BY <3>1
  <2>2. CASE ready # <<>>
    <3>1. ready' = Tail(ready) /\ given' = given
      BY <1>5, <2>2 DEF Pop
    <3>2. /\ ready \in Seq(0 .. MaxPackets) /\ 0 .. MaxPackets \subseteq Nat
          /\ given \in Nat /\ UpTo(ready, given)
      OBVIOUS
    <3>3. UpTo(Tail(ready), given)
      BY <2>2, <3>2, UpToTail, Zenon
    <3>4. QED
      BY <3>1, <3>3
  <2>3. QED
    BY <2>1, <2>2
<1>6. CASE SetRenderPacketPumps \/ InterruptDpc \/ DeviceReturns
  BY <1>6 DEF SetRenderPacketPumps, InterruptDpc, DeviceReturns
<1>7. CASE SetRenderPacket
  <2> DEFINE rest == IF Full THEN Tail(ready) ELSE ready
  <2>1. /\ ready \in Seq(0 .. MaxPackets) /\ 0 .. MaxPackets \subseteq Nat
        /\ given \in Nat /\ UpTo(ready, given)
    OBVIOUS
  <2>2. rest \in Seq(0 .. MaxPackets) /\ UpTo(rest, given)
    <3>1. CASE Full
      <4>1. ready # <<>>
        BY <3>1, EmptySeq DEF Full
      <4>2. Tail(ready) \in Seq(0 .. MaxPackets) /\ UpTo(Tail(ready), given)
        BY <2>1, <4>1, HeadAndTail, UpToTail, Zenon
      <4>3. QED
        BY <3>1, <4>2
    <3>2. CASE ~Full
      BY <2>1, <3>2
    <3>3. QED
      BY <3>1, <3>2
  <2>3. ready' = Append(rest, given) /\ given' = given + 1 /\ given \in 0 .. MaxPackets
    BY <1>7 DEF SetRenderPacket, Queued
  <2> HIDE DEF rest
  <2>4. UpTo(Append(rest, given), given + 1)
    BY <2>1, <2>2, <2>3, UpToAppend, Zenon
  <2>5. QED
    BY <2>3, <2>4
<1>8. CASE SetParams \/ Prepared \/ Reset \/ ConfigureFails \/ Run \/ FillPeriod
  BY <1>8 DEF SetParams, Step, Prepared, Reset, Returns, ConfigureFails, FreeStreamPeriods,
      Run, Calls, FillPeriod, Submit
<1>9. CASE FillNot \/ Start \/ StartFails \/ Release \/ CheckAgain \/ Stopped
  BY <1>9 DEF FillNot, Step, Start, StartFails, Release, CheckAgain, HasInFlight, Stopped
<1>10. CASE Done \/ Cleanup
  BY <1>10 DEF Done, Step, Returns, FreeStreamPeriods, Cleanup, Calls
<1>11. CASE FreeRtPackets
  <2>1. ready' = <<>> /\ given' \in Nat
    BY <1>11 DEF FreeRtPackets, FreeRtPacketStorage
  <2>2. QED
    BY <2>1, NoneUpTo
<1>12. CASE AllocateRtPackets
  <2>1. ready' = <<>> /\ given' \in Nat
    BY <1>12 DEF AllocateRtPackets, FreeRtPacketStorage
  <2>2. QED
    BY <2>1, NoneUpTo
<1>13. ASSUME NEW c \in {"prepare", "run"}, Configure(c) PROVE Consecutive'
  BY <1>13 DEF Configure, Calls, Step, PrepareStreamPeriods
<1>14. ASSUME NEW c \in {"pause", "release"}, Stop(c) PROVE Consecutive'
  BY <1>14 DEF Stop, Calls, Step
<1>15. CASE ClearRenderQueue
  <2>1. ready' = <<>> /\ given' \in Nat
    BY <1>15 DEF ClearRenderQueue, Step
  <2>2. QED
    BY <2>1, NoneUpTo
<1>16. CASE CreateStream
  <2>1. ready' = <<>> /\ given' \in Nat
    BY <1>16 DEF CreateStream
  <2>2. QED
    BY <2>1, NoneUpTo
<1>17. QED
  BY <1>1, <1>2, <1>3, <1>4, <1>5, <1>6, <1>7, <1>8, <1>9, <1>10, <1>11, <1>12, <1>13,
      <1>14, <1>15, <1>16 DEF Steps, Drain, Pump, CallbackNext

(* Every step keeps the head of the queue the next to be played.           *)
LEMMA HeadIsNextStep ==
  ASSUME IInv, ~Undefined, Steps PROVE HeadIsNext'
<1> USE DEF IInv, Types, Places, CallbackAt, Status, Pumps, HeadIsNext, Popping, Pumping,
    Inside, Threads, Drainers, CallbackPlaces, DrainPlaces, PumpPlaces, Working, InPump,
        Goes, Marked, Forget, statusVars, memoryVars, ringVars, queueVars, countVars,
        readVars, localVars
<1>1. ASSUME NEW t \in Drainers, Get(t) PROVE HeadIsNext'
  BY <1>1, SMTT(30) DEF Get
<1>2. ASSUME NEW t \in Drainers, GetNothing(t) PROVE HeadIsNext'
  BY <1>2 DEF GetNothing
<1>3. ASSUME NEW t \in Drainers, Look(t) PROVE HeadIsNext'
  BY <1>3 DEF Look
<1>4. ASSUME NEW t \in Drainers, Mark(t) PROVE HeadIsNext'
  BY <1>4 DEF Mark
<1>5. ASSUME NEW t \in Drainers, Ask(t) PROVE HeadIsNext'
  BY <1>5 DEF Ask
<1>6. ASSUME NEW t \in Drainers, Refill(t) PROVE HeadIsNext'
  BY <1>6 DEF Refill, Submit
<1>7. ASSUME NEW t \in Drainers, RefillBusy(t) PROVE HeadIsNext'
  BY <1>7 DEF RefillBusy
<1>8. ASSUME NEW t \in Drainers, Bump(t) PROVE HeadIsNext'
  BY <1>8 DEF Bump
<1>9. ASSUME NEW t \in Threads, Claim(t) PROVE HeadIsNext'
  BY <1>9 DEF Claim
<1>10. ASSUME NEW t \in Threads, ClaimNot(t) PROVE HeadIsNext'
  BY <1>10 DEF ClaimNot
<1>11. ASSUME NEW t \in Threads, Peek(t) PROVE HeadIsNext'
  <2>1. /\ ready \in Seq(0 .. MaxPackets) /\ 0 .. MaxPackets \subseteq Nat
        /\ given \in Nat /\ UpTo(ready, given)
    BY DEF Consecutive
  <2>2. ASSUME ready # <<>>
        PROVE  /\ Head(ready) \in Nat /\ Head(ready) + Len(ready) = given
               /\ (Head(ready) + 1) + Len(ready) = given + 1
               /\ Len(ready) \in Nat \ {0} /\ Len(Tail(ready)) = Len(ready) - 1
    BY <2>1, <2>2, UpToTail, Zenon
  <2>3. QED
    BY <1>11, <2>2, SMTT(30) DEF Peek
<1>12. ASSUME NEW t \in Threads, PeekNothing(t) PROVE HeadIsNext'
  BY <1>12 DEF PeekNothing
<1>13. ASSUME NEW t \in Threads, SubmitRenderPacket(t) PROVE HeadIsNext'
  <2>1. Len(ready) \in Nat
    BY LenProperties
  <2>2. QED
    BY <1>13, <2>1, SMTT(30) DEF SubmitRenderPacket
<1>14. ASSUME NEW t \in Threads, SubmitFails(t) PROVE HeadIsNext'
  BY <1>14 DEF SubmitFails, Free
<1>15. ASSUME NEW t \in Threads, Pop(t) PROVE HeadIsNext'
  <2>1. /\ ready \in Seq(0 .. MaxPackets) /\ 0 .. MaxPackets \subseteq Nat
        /\ given \in Nat /\ UpTo(ready, given)
    BY DEF Consecutive
  <2>2. ASSUME ready # <<>>
        PROVE  /\ Head(ready) \in Nat /\ Head(ready) + Len(ready) = given
               /\ (Head(ready) + 1) + Len(ready) = given + 1
               /\ Len(ready) \in Nat \ {0} /\ Len(Tail(ready)) = Len(ready) - 1
    BY <2>1, <2>2, UpToTail, Zenon
  <2>3. CASE ready = <<>>
    BY <1>15, <2>3, EmptySeq DEF Pop
  <2>4. CASE ready # <<>>
    <3>1. \A u \in Threads : at'[u] \notin {"submit", "pop", "drop"}
      BY <1>15 DEF Pop
    <3>2. ASSUME "torn" \notin marks' PROVE expected' + Len(ready') = given'
      <4>1. ready' = Tail(ready) /\ given' = given /\ "torn" \notin marks
        BY <1>15, <2>4, <3>2 DEF Pop
      <4>2. CASE at[t] = "pop"
        <5>1. /\ packet[t] + 1 = expected /\ packet[t] + Len(ready) = given
              /\ expected' = expected
          BY <1>15, <4>1, <4>2 DEF Pop
        <5>2. packet[t] \in Nat /\ Len(ready) \in Nat /\ Len(ready') = Len(ready) - 1
          BY <2>2, <2>4, <4>1
        <5>3. QED
          <6>1. (packet[t] + 1) + (Len(ready) - 1) = given
            BY <2>1, <5>1, <5>2, OneUp, SMTT(20)
          <6>2. QED
            BY <4>1, <5>1, <5>2, <6>1, Zenon
      <4>3. CASE at[t] = "drop"
        <5>1. expected' = Head(ready) + 1
          BY <1>15, <2>4, <4>3 DEF Pop
        <5>2. QED
          BY <2>2, <2>4, <4>1, <5>1, SMTT(30)
      <4>4. QED
        BY <1>15, <4>2, <4>3 DEF Pop
    <3>3. QED
      BY <3>1, <3>2
  <2>5. QED
    BY <2>3, <2>4
<1>16. ASSUME NEW t \in Threads, Yield(t) PROVE HeadIsNext'
  BY <1>16 DEF Yield
<1>17. CASE SetRenderPacket
  <2>1. /\ ready \in Seq(0 .. MaxPackets) /\ 0 .. MaxPackets \subseteq Nat
        /\ given \in Nat /\ UpTo(ready, given)
    BY DEF Consecutive
  <2>2. ASSUME ready # <<>>
        PROVE  /\ Head(ready) \in Nat /\ Head(ready) + Len(ready) = given
               /\ (Head(ready) + 1) + Len(ready) = given + 1
               /\ Len(ready) \in Nat \ {0} /\ Len(Tail(ready)) = Len(ready) - 1
    BY <2>1, <2>2, UpToTail, Zenon
  <2>3. Full => ready # <<>>
    BY AcxStreamAssumption, EmptySeq DEF Full
  <2>4. /\ ready' # <<>> /\ Len(ready') = IF Full THEN Len(ready) ELSE Len(ready) + 1
        /\ Len(ready) \in Nat
    <3> DEFINE rest == IF Full THEN Tail(ready) ELSE ready
    <3>1. rest \in Seq(0 .. MaxPackets)
      BY <2>1, <2>3, HeadAndTail, Zenon
    <3>2. ready' = Append(rest, given) /\ given \in 0 .. MaxPackets
      BY <1>17 DEF SetRenderPacket, Queued
    <3>3. Len(rest) = (IF Full THEN Len(ready) - 1 ELSE Len(ready)) /\ Len(ready) \in Nat
      BY <2>2, <2>3, LenProperties
    <3> HIDE DEF rest
    <3>4. Len(ready') = Len(rest) + 1 /\ ready' # <<>>
      BY <3>1, <3>2, AppendProperties
    <3>5. QED
      BY <3>3, <3>4
  <2>5. /\ at' = [at EXCEPT !["client"] = "queued"] /\ at["client"] = "idle"
        /\ given' = given + 1 /\ packet' = packet
        /\ expected' = IF Full /\ expected <= Head(ready) THEN Head(ready) + 1 ELSE expected
        /\ marks' = IF Full /\ \E t \in Threads : Pumping(t) THEN marks \cup {"torn"} ELSE
            marks
    BY <1>17 DEF SetRenderPacket
  <2>6. CASE Full
    <3>1. ASSUME "torn" \notin marks'
          PROVE  /\ "torn" \notin marks
                 /\ \A u \in Threads : at[u] \notin {"submit", "pop", "drop"}
      BY <2>5, <2>6, <3>1
    <3>2. ASSUME "torn" \notin marks' PROVE expected + Len(ready) = given
      BY <3>1, <3>2
    <3>3. ASSUME "torn" \notin marks' PROVE expected' + Len(ready') = given'
      <4>1. expected = Head(ready)
        BY <2>2, <2>3, <2>6, <3>2, <3>3
      <4>2. expected' = Head(ready) + 1
        BY <2>2, <2>3, <2>5, <2>6, <4>1
      <4>3. Head(ready) \in Nat /\ Len(ready) \in Nat /\ given \in Nat
        BY <2>1, <2>2, <2>3, <2>6
      <4>4. Head(ready) + Len(ready) = given
        BY <2>2, <2>3, <2>6
      <4>5. (Head(ready) + 1) + Len(ready) = given + 1
        BY <2>2, <2>3, <2>6
      <4>6. QED
        BY <2>4, <2>5, <2>6, <4>2, <4>5
    <3>4. ASSUME "torn" \notin marks', NEW u \in Threads
          PROVE  at'[u] \notin {"submit", "pop", "drop"}
      BY <2>5, <3>1, <3>4
    <3>5. QED
      BY <3>3, <3>4
  <2>7. CASE ~Full
    <3>1. marks' = marks /\ expected' = expected /\ Len(ready') = Len(ready) + 1
      BY <2>4, <2>5, <2>7
    <3>2. \A u \in Threads : at'[u] \in InPump => at[u] = at'[u]
      BY <2>5
    <3>3. Popping' = Popping
      BY <2>5
    <3>4. QED
      BY <2>4, <2>5, <3>1, <3>2, <3>3, SMTT(30)
  <2>8. QED
    BY <2>6, <2>7
<1>18. CASE SetRenderPacketPumps
  BY <1>18 DEF SetRenderPacketPumps
<1>19. CASE InterruptDpc
  BY <1>19 DEF InterruptDpc
<1>20. CASE DeviceReturns
  BY <1>20 DEF DeviceReturns
<1>21. CASE FreeRtPackets
  BY <1>21 DEF FreeRtPackets, FreeRtPacketStorage
<1>22. CASE AllocateRtPackets
  BY <1>22 DEF AllocateRtPackets, FreeRtPacketStorage
<1>23. ASSUME NEW c \in {"prepare", "run"}, Configure(c) PROVE HeadIsNext'
  BY <1>23 DEF Configure, Calls, Step, PrepareStreamPeriods
<1>24. CASE SetParams
  BY <1>24 DEF SetParams, Step
<1>25. CASE Prepared
  BY <1>25, Zenon DEF Prepared, Step
<1>26. CASE Reset
  BY <1>26 DEF Reset, Step, Returns
<1>27. CASE ConfigureFails
  BY <1>27 DEF ConfigureFails, Step, Returns, FreeStreamPeriods
<1>28. CASE Run
  BY <1>28 DEF Run, Calls, Step
<1>29. CASE FillPeriod
  BY <1>29 DEF FillPeriod, Submit, Step
<1>30. CASE FillNot
  BY <1>30 DEF FillNot, Step
<1>31. CASE Start
  BY <1>31 DEF Start, Step
<1>32. CASE StartFails
  BY <1>32 DEF StartFails, Step
<1>33. ASSUME NEW c \in {"pause", "release"}, Stop(c) PROVE HeadIsNext'
  BY <1>33 DEF Stop, Calls, Step
<1>34. CASE ClearRenderQueue
  BY <1>34 DEF ClearRenderQueue, Step
<1>35. CASE Release
  BY <1>35 DEF Release, Step
<1>36. CASE CheckAgain
  BY <1>36 DEF CheckAgain, Step, HasInFlight
<1>37. CASE Stopped
  BY <1>37 DEF Stopped, Step, HasInFlight
<1>38. CASE Done
  BY <1>38 DEF Done, Step, Returns, FreeStreamPeriods
<1>39. CASE Cleanup
  BY <1>39 DEF Cleanup, Calls, FreeStreamPeriods
<1>40. CASE CreateStream
  BY <1>40, EmptySeq DEF CreateStream, Undefined, Outlived
<1>41. QED
  BY <1>1, <1>2, <1>3, <1>4, <1>5, <1>6, <1>7, <1>8, <1>9, <1>10, <1>11, <1>12, <1>13,
      <1>14, <1>15, <1>16, <1>17, <1>18, <1>19, <1>20, <1>21, <1>22, <1>23, <1>24, <1>25,
          <1>26, <1>27, <1>28, <1>29, <1>30, <1>31, <1>32, <1>33, <1>34, <1>35, <1>36,
              <1>37, <1>38, <1>39, <1>40 DEF Steps, Drain, Pump, CallbackNext

(* Every step leaves a thread on its way to a ready packet.                *)
LEMMA SomeoneComesStep ==
  ASSUME IInv, ~Undefined, Steps PROVE SomeoneComes'
<1> USE DEF IInv, Places, CallbackAt, Status, SomeoneComes, OnTheWay, Free, Threads,
    Drainers, CallbackPlaces, DrainPlaces, PumpPlaces, Working, InPump,
        Goes, Marked, Forget, statusVars, memoryVars, ringVars, queueVars, countVars,
        readVars, localVars
<1>1. ASSUME NEW t \in Drainers, Get(t) PROVE SomeoneComes'
  BY <1>1 DEF Get
<1>2. ASSUME NEW t \in Drainers, GetNothing(t) PROVE SomeoneComes'
  BY <1>2, Zenon DEF GetNothing
<1>3. ASSUME NEW t \in Drainers, Look(t) PROVE SomeoneComes'
  BY <1>3 DEF Look
<1>4. ASSUME NEW t \in Drainers, Mark(t) PROVE SomeoneComes'
  BY <1>4, Zenon DEF Mark
<1>5. ASSUME NEW t \in Drainers, Ask(t) PROVE SomeoneComes'
  BY <1>5 DEF Ask
<1>6. ASSUME NEW t \in Drainers, Refill(t) PROVE SomeoneComes'
  BY <1>6 DEF Refill, Submit
<1>7. ASSUME NEW t \in Drainers, RefillBusy(t) PROVE SomeoneComes'
  BY <1>7 DEF RefillBusy
<1>8. ASSUME NEW t \in Drainers, Bump(t) PROVE SomeoneComes'
  BY <1>8 DEF Bump
<1>9. ASSUME NEW t \in Threads, Claim(t) PROVE SomeoneComes'
  BY <1>9 DEF Claim
<1>10. ASSUME NEW t \in Threads, ClaimNot(t) PROVE SomeoneComes'
  BY <1>10 DEF ClaimNot
<1>11. ASSUME NEW t \in Threads, Peek(t) PROVE SomeoneComes'
  BY <1>11 DEF Peek
<1>12. ASSUME NEW t \in Threads, PeekNothing(t) PROVE SomeoneComes'
  BY <1>12 DEF PeekNothing
<1>13. ASSUME NEW t \in Threads, SubmitRenderPacket(t) PROVE SomeoneComes'
  BY <1>13 DEF SubmitRenderPacket, Submit, First, Free
<1>14. ASSUME NEW t \in Threads, SubmitFails(t) PROVE SomeoneComes'
  BY <1>14 DEF SubmitFails, Free
<1>15. ASSUME NEW t \in Threads, Pop(t) PROVE SomeoneComes'
  BY <1>15 DEF Pop
<1>16. ASSUME NEW t \in Threads, Yield(t) PROVE SomeoneComes'
  BY <1>16 DEF Yield
<1>17. CASE SetRenderPacket
  BY <1>17 DEF SetRenderPacket, Queued, Full
<1>18. CASE SetRenderPacketPumps
  BY <1>18 DEF SetRenderPacketPumps
<1>19. CASE InterruptDpc
  BY <1>19 DEF InterruptDpc
<1>20. CASE DeviceReturns
  <2>1. PICK p \in ring : used' = Append(used, p)
    BY <1>20 DEF DeviceReturns
  <2>2. used' # <<>>
    BY <2>1, AppendProperties
  <2>3. QED
    BY <2>2
<1>21. CASE FreeRtPackets
  BY <1>21 DEF FreeRtPackets, FreeRtPacketStorage
<1>22. CASE AllocateRtPackets
  BY <1>22 DEF AllocateRtPackets, FreeRtPacketStorage
<1>23. ASSUME NEW c \in {"prepare", "run"}, Configure(c) PROVE SomeoneComes'
  BY <1>23 DEF Configure, Calls, Step, PrepareStreamPeriods
<1>24. CASE SetParams
  BY <1>24 DEF SetParams, Step
<1>25. CASE Prepared
  BY <1>25 DEF Prepared, Step
<1>26. CASE Reset
  BY <1>26 DEF Reset, Step, Returns
<1>27. CASE ConfigureFails
  BY <1>27 DEF ConfigureFails, Step, Returns, FreeStreamPeriods
<1>28. CASE Run
  BY <1>28 DEF Run, Calls, Step
<1>29. CASE FillPeriod
  BY <1>29 DEF FillPeriod, Submit, Step
<1>30. CASE FillNot
  BY <1>30 DEF FillNot, Step
<1>31. CASE Start
  BY <1>31, Zenon DEF Start, Step
<1>32. CASE StartFails
  BY <1>32 DEF StartFails, Step
<1>33. ASSUME NEW c \in {"pause", "release"}, Stop(c) PROVE SomeoneComes'
  BY <1>33 DEF Stop, Calls, Step
<1>34. CASE ClearRenderQueue
  BY <1>34 DEF ClearRenderQueue, Step
<1>35. CASE Release
  BY <1>35 DEF Release, Step
<1>36. CASE CheckAgain
  BY <1>36 DEF CheckAgain, Step, HasInFlight
<1>37. CASE Stopped
  BY <1>37 DEF Stopped, Step, HasInFlight
<1>38. CASE Done
  BY <1>38, Zenon DEF Done, Step, Returns, FreeStreamPeriods
<1>39. CASE Cleanup
  BY <1>39 DEF Cleanup, Calls, FreeStreamPeriods
<1>40. CASE CreateStream
  BY <1>40 DEF CreateStream
<1>41. QED
  BY <1>1, <1>2, <1>3, <1>4, <1>5, <1>6, <1>7, <1>8, <1>9, <1>10, <1>11, <1>12, <1>13,
      <1>14, <1>15, <1>16, <1>17, <1>18, <1>19, <1>20, <1>21, <1>22, <1>23, <1>24, <1>25,
          <1>26, <1>27, <1>28, <1>29, <1>30, <1>31, <1>32, <1>33, <1>34, <1>35, <1>36,
              <1>37, <1>38, <1>39, <1>40 DEF Steps, Drain, Pump, CallbackNext

-----------------------------------------------------------------------------
(* The invariant holds at first, and every step preserves it.              *)
LEMMA InitInv == ASSUME Init PROVE IInv
<1> USE AcxStreamAssumption DEF Init, Threads, Drainers, NoPeriod, CallbackPlaces, DrainPlaces,
        PumpPlaces, Working, InPump
<1>1. Types
  <2>1. /\ ready \in Seq(0 .. MaxPackets) /\ Len(ready) <= PacketCount /\ used \in Seq(Periods)
    BY EmptySeq
  <2>2. /\ stream \in BOOLEAN /\ capture \in BOOLEAN /\ prepared \in BOOLEAN
        /\ running \in BOOLEAN /\ packets \in BOOLEAN /\ periods \in BOOLEAN
        /\ pumping \in BOOLEAN /\ higher \in [Drainers -> BOOLEAN]
    BY Zenon
  <2>3. /\ number \in [Periods -> Nat] /\ hand \in [Drainers -> Periods \cup {NoPeriod}]
        /\ packet \in [Threads -> 0 .. MaxPackets] /\ given \in 0 .. MaxPackets
    OBVIOUS
  <2>4. /\ completed \in Nat /\ next_capture \in Nat /\ turn \in Nat /\ returned \in Nat
        /\ expected \in Nat /\ inflight \subseteq Periods /\ ring \subseteq Periods
        /\ early \subseteq Periods /\ marks \subseteq Marks
    OBVIOUS
  <2>5. callback \in {"none", "prepare", "run", "pause", "release"}
    OBVIOUS
  <2>6. QED
    BY <2>1, <2>2, <2>3, <2>4, <2>5 DEF Types
<1>2. Places /\ CallbackAt /\ Status /\ Hands /\ Pumps
  BY DEF Places, CallbackAt, Status, Hands, Pumps
<1>3. OnTheRing = {} /\ Distinct(used)
  BY DEF OnTheRing, ToSet, Distinct
<1>4. Ring /\ Settled
  BY <1>3 DEF Ring, Settled, OnTheRing
<1>5. Reading /\ SomeoneComes
  BY DEF Reading, SomeoneComes
<1>6. Consecutive /\ HeadIsNext
  BY EmptySeq, NoneUpTo DEF Consecutive, HeadIsNext, Popping
<1>7. QED
  BY <1>1, <1>2, <1>4, <1>5, <1>6 DEF IInv

(* Every step preserves the invariant.                                     *)
LEMMA StepInv == ASSUME IInv, [Next]_vars PROVE IInv'
<1>1. CASE ~Undefined /\ Steps
  BY <1>1, TypesStep, PlacesStep, CallbackAtStep, StatusStep, HandsStep, PumpsStep, RingStep,
     SettledStep, ReadingStep, ConsecutiveStep, HeadIsNextStep, SomeoneComesStep DEF IInv
<1>2. CASE UNCHANGED vars
  <2>1. UNCHANGED <<stream, capture, prepared, running, packets, callback, periods, inflight,
                    number, ring, used, ready, given, expected, completed, returned,
                    next_capture, turn, early, pumping, at, back, hand, packet, higher, marks>>
    BY <1>2 DEF vars, statusVars, memoryVars, ringVars, queueVars, countVars, readVars,
                localVars
  <2>2. (Types /\ Places /\ CallbackAt /\ Status /\ Hands /\ Pumps)'
    BY <2>1 DEF IInv, Types, Places, CallbackAt, Status, Hands, Pumps
  <2>3. (Ring /\ Settled /\ Reading)'
    BY <2>1 DEF IInv, Ring, Settled, Clean, OnTheRing, Reading, Covered, InHand
  <2>4. (Consecutive /\ HeadIsNext /\ SomeoneComes)'
    BY <2>1 DEF IInv, Consecutive, HeadIsNext, Popping, SomeoneComes, Free
  <2>5. QED
    BY <2>2, <2>3, <2>4 DEF IInv
<1>3. QED
  BY <1>1, <1>2 DEF Next, Steps

(* IInv holds in every state a stream can be in, at any number of periods, *)
(* RT packets and packets.                                                 *)
THEOREM Invariance == Spec => []IInv
<1>1. Init => IInv
  BY InitInv
<1>2. IInv /\ [Next]_vars => IInv'
  BY StepInv
<1>3. QED
  BY <1>1, <1>2, PTL DEF Spec

(* A queue with nothing twice is as long as it has entries.                *)
LEMMA AsManyAsEntries ==
  ASSUME NEW S, NEW s \in Seq(S), Distinct(s)
  PROVE  Len(s) = Cardinality(ToSet(s))
<1>1. Len(s) \in Nat /\ s \in [1 .. Len(s) -> S] /\ DOMAIN s = 1 .. Len(s)
  BY LenProperties
<1>2. s \in Bijection(1 .. Len(s), ToSet(s))
  BY <1>1 DEF Distinct, ToSet, Bijection, Injection, IsInjective, Surjection
<1>3. IsFiniteSet(1 .. Len(s)) /\ Cardinality(1 .. Len(s)) = Len(s)
  BY <1>1, FS_Interval
<1>4. QED
  BY <1>2, <1>3, FS_Bijection DEF ExistsBijection

(* InFlight says what the ring has, each period once, and the periods of a *)
(* stream are freed only when neither the device nor a thread has one, but *)
(* when the wait for it to be idle is cut short: what get_buf, the submit  *)
(* functions and ViosndEvtStreamReleaseHardware rely on.                   *)
THEOREM PeriodsHold == Spec => []PeriodsInv
<1>1. ASSUME IInv PROVE PeriodsInv
  <2>1. TypeOK
    BY <1>1 DEF IInv, Types, Places, TypeOK, Working
  <2>2. InFlightIsOnTheRing
    BY <1>1, AsManyAsEntries DEF IInv, Types, Ring, InFlightIsOnTheRing
  <2>3. FreedWhenIdle
    BY <1>1 DEF IInv, Settled, Clean, Status, FreedWhenIdle, Undefined, Stray, Dangling
  <2>4. QED
    BY <2>1, <2>2, <2>3 DEF PeriodsInv
<1>2. QED
  BY <1>1, Invariance, PTL

(* ViosndPumpRenderQueue, entered by a callback, the DPC or a client, one  *)
(* of them at a time, plays the packets in the order in which they were    *)
(* given, and no pump is missing when there is a packet and a free period. *)
THEOREM PumpHolds == Spec => []PumpInv
<1>1. ASSUME IInv PROVE PumpInv
  <2>1. PlayedInOrder
    <3>1. Cardinality({t \in Threads : at[t] \in PumpPlaces \ {"claim"}}) <= 1
      <4> DEFINE P == {t \in Threads : at[t] \in PumpPlaces \ {"claim"}}
      <4>1. \A t, u \in P : t = u
        BY <1>1 DEF IInv, Pumps, InPump, PumpPlaces
      <4>2. CASE P = {}
        BY <4>2, FS_EmptySet
      <4>3. CASE P # {}
        <5>1. PICK t \in P : P = {t}
          BY <4>1, <4>3
        <5>2. QED
          BY <5>1, FS_Singleton
      <4>4. QED
        BY <4>2, <4>3
    <3>2. ASSUME ready # <<>>
          PROVE  Head(ready) \in Nat /\ Head(ready) + Len(ready) = given /\ Len(ready) \in Nat
      <4>1. /\ ready \in Seq(0 .. MaxPackets) /\ 0 .. MaxPackets \subseteq Nat
            /\ given \in Nat /\ UpTo(ready, given)
        BY <1>1 DEF IInv, Types, Consecutive
      <4>2. QED
        BY <3>2, <4>1, UpToTail, Zenon
    <3>3. expected \in Nat /\ packet \in [Threads -> 0 .. MaxPackets]
      BY <1>1 DEF IInv, Types
    <3>4. ASSUME "torn" \notin marks, Popping = {} PROVE ready = <<>> \/ Head(ready) = expected
      <4>1. expected + Len(ready) = given
        BY <1>1, <3>4 DEF IInv, HeadIsNext
      <4>2. QED
        BY <3>2, <3>3, <4>1
    <3>5. ASSUME "torn" \notin marks, NEW t \in Popping
          PROVE  packet[t] + 1 = expected /\ ready # <<>> /\ Head(ready) = packet[t]
      <4>1. packet[t] + 1 = expected /\ ready # <<>> /\ packet[t] + Len(ready) = given
        BY <1>1, <3>5 DEF IInv, HeadIsNext, Popping
      <4>2. packet[t] \in Nat
        BY <3>3 DEF Popping
      <4>3. QED
        BY <3>2, <4>1, <4>2
    <3>6. QED
      BY <3>1, <3>4, <3>5 DEF PlayedInOrder
  <2>2. NoneLeftLying
    BY <1>1 DEF IInv, SomeoneComes, OnTheWay, NoneLeftLying, Inside
  <2>3. QED
    BY <2>1, <2>2 DEF PumpInv
<1>2. QED
  BY <1>1, Invariance, PTL

(* Run's loop and ViosndDrainCaptureQueue between them keep every period   *)
(* of a running capture stream with the device, or about to be.            *)
THEOREM ReadingHolds == Spec => []KeepsReading
<1>1. ASSUME IInv PROVE KeepsReading
  BY <1>1 DEF IInv, Reading, Covered, KeepsReading
<1>2. QED
  BY <1>1, Invariance, PTL

-----------------------------------------------------------------------------
(* What the counts of packets rest on.                                     *)

(* A period that was submitted and is not yet done with, and the packet    *)
(* numbers below x.                                                        *)
Out(p)    == p \in OnTheRing \/ InHand(p)
Behind(x) == completed <= x /\ \A p \in Periods : Out(p) => number[p] < x

(* A render stream is pumped, and a capture stream refills.                *)
ByKind ==
  /\ capture => \A t \in Threads : at[t] \notin PumpPlaces \cup {"queued"}
  /\ ~capture => /\ \A t \in Drainers : at[t] \notin {"ask", "refill", "bump"}
                 /\ at["callback"] # "fill"

(* NextCapturePacket is past every packet number, but for a thread that    *)
(* has yet to count it up; it starts anew when no period is out.           *)
Captured ==
  capture =>
    /\ (periods /\ ~prepared /\ callback # "release") \/ at["callback"] = "reset" =>
         \A p \in Periods : ~Out(p)
    /\ IF \E t \in Drainers : at[t] = "bump" THEN Behind(next_capture + 1)
                                             ELSE Behind(next_capture)

(* The queue's packets come after all that were submitted.                 *)
Rendered ==
  ~capture =>
    /\ \A t \in Threads :
         at[t] \in {"submit", "pop"} => packet[t] < given /\ packet[t] + Len(ready) <= given
    /\ \A t \in Threads : at[t] = "submit" => Behind(packet[t])
    /\ \A t \in Threads : at[t] = "pop" => Behind(packet[t] + 1)
    /\ Popping = {} => Behind(given - Len(ready))

(* A period in a drainer's hand has been given back, and is its alone.     *)
Handed ==
  "reused" \notin marks =>
    \A t \in Drainers : hand[t] # NoPeriod =>
      /\ hand[t] \notin OnTheRing /\ number[hand[t]] < returned
      /\ \A u \in Drainers \ {t} : hand[u] # hand[t]

NotAhead ==
  "reused" \notin marks /\ at["callback"] # "reset" => completed <= returned

(* What a drainer saw of PacketsCompleted is still so when it counts.      *)
Seen ==
  "crossed" \notin marks =>
    \A t \in Drainers : at[t] = "mark" =>
      /\ \A u \in Drainers \ {t} : at[u] \notin {"mark", "ask", "refill"}
      /\ higher[t] => number[hand[t]] + 1 > completed
      /\ "reused" \notin marks /\ ~higher[t] => number[hand[t]] + 1 <= completed

AllCounted ==
  "reused" \notin marks /\ "crossed" \notin marks /\ at["callback"] # "reset" =>
    \/ completed = returned
    \/ \E t \in Drainers : at[t] \in {"look", "mark"} /\ returned = number[hand[t]] + 1

Counted == Handed /\ NotAhead /\ Seen /\ AllCounted

CountsInv == ByKind /\ Captured /\ Rendered /\ Counted

LEMMA ByKindStep ==
  ASSUME IInv, ByKind, ~Undefined, Steps PROVE ByKind'
<1> USE DEF IInv, Places, CallbackAt, Status, ByKind, Threads, Drainers, CallbackPlaces,
        PumpPlaces, DrainPlaces, Working, Goes, Step, Returns, Calls, statusVars
<1>1. ASSUME NEW t \in Drainers, 
             \/ Get(t) \/ GetNothing(t) \/ Look(t) \/ Mark(t)
             \/ Ask(t) \/ Refill(t) \/ RefillBusy(t) \/ Bump(t)
      PROVE  ByKind'
  <2>1. capture' = capture
    BY <1>1 DEF Get, GetNothing, Look, Mark, Ask, Refill, RefillBusy, Bump
  <2>2. CASE Get(t) \/ GetNothing(t) \/ Look(t) \/ Mark(t)
    BY <2>1, <2>2 DEF Get, GetNothing, Look, Mark
  <2>3. CASE Ask(t) \/ Refill(t) \/ RefillBusy(t) \/ Bump(t)
    BY <2>1, <2>3 DEF Ask, Refill, RefillBusy, Bump
  <2>4. QED
    BY <1>1, <2>2, <2>3
<1>2. ASSUME NEW t \in Threads, 
             \/ Claim(t) \/ ClaimNot(t) \/ Peek(t) \/ PeekNothing(t)
             \/ SubmitRenderPacket(t) \/ SubmitFails(t) \/ Pop(t) \/ Yield(t)
      PROVE  ByKind'
  <2>1. capture' = capture
    BY <1>2 DEF Claim, ClaimNot, Peek, PeekNothing, SubmitRenderPacket, SubmitFails, Pop, Yield
  <2>2. ~capture
    BY <1>2 DEF Claim, ClaimNot, Peek, PeekNothing, SubmitRenderPacket, SubmitFails, Pop, Yield
  <2>3. CASE Claim(t) \/ Peek(t) \/ PeekNothing(t) \/ SubmitRenderPacket(t) \/ SubmitFails(t)
             \/ Pop(t)
    BY <2>1, <2>2, <2>3 DEF Claim, Peek, PeekNothing, SubmitRenderPacket, SubmitFails, Pop
  <2>4. CASE ClaimNot(t) \/ Yield(t)
    BY <2>1, <2>2, <2>4 DEF ClaimNot, Yield
  <2>5. QED
    BY <1>2, <2>3, <2>4
<1>3. CASE SetRenderPacket \/ SetRenderPacketPumps \/ InterruptDpc \/ DeviceReturns
  BY <1>3 DEF SetRenderPacket, SetRenderPacketPumps, InterruptDpc, DeviceReturns
<1>4. CASE FreeRtPackets \/ AllocateRtPackets \/ SetParams \/ Prepared \/ ConfigureFails
  <2>1. capture' = capture
    BY <1>4 DEF FreeRtPackets, AllocateRtPackets, FreeRtPacketStorage, SetParams, Prepared,
                ConfigureFails
  <2>2. CASE FreeRtPackets \/ AllocateRtPackets
    BY <2>1, <2>2 DEF FreeRtPackets, AllocateRtPackets, FreeRtPacketStorage
  <2>3. CASE SetParams \/ Prepared \/ ConfigureFails
    BY <2>1, <2>3 DEF SetParams, Prepared, ConfigureFails
  <2>4. QED
    BY <1>4, <2>2, <2>3
<1>10. CASE Reset
  <2>1. /\ capture' = capture /\ at["callback"] = "reset"
        /\ \/ at' = [at EXCEPT !["callback"] = IF capture THEN "fill" ELSE "claim"]
           \/ at' = [at EXCEPT !["callback"] = "idle"]
    BY <1>10 DEF Reset
  <2>2. QED
    BY <2>1
<1>5. CASE Run \/ FillPeriod \/ FillNot \/ Start \/ StartFails
  BY <1>5 DEF Run, FillPeriod, FillNot, Start, StartFails
<1>6. CASE ClearRenderQueue \/ Release \/ CheckAgain \/ Stopped \/ Done \/ Cleanup
  BY <1>6 DEF ClearRenderQueue, Release, CheckAgain, Stopped, Done, Cleanup
<1>7. CASE CreateStream
  <2>1. \A t \in Threads : at[t] = "idle"
    BY <1>7 DEF CreateStream, Undefined, Outlived, Inside
  <2>2. QED
    BY <1>7, <2>1 DEF CreateStream
<1>8. ASSUME NEW c \in {"prepare", "run"}, Configure(c) PROVE ByKind'
  BY <1>8 DEF Configure
<1>9. ASSUME NEW c \in {"pause", "release"}, Stop(c) PROVE ByKind'
  BY <1>9 DEF Stop
<1>11. QED
  BY <1>1, <1>2, <1>3, <1>4, <1>5, <1>6, <1>7, <1>8, <1>9, <1>10
  DEF Steps, Drain, Pump, CallbackNext

(* A step that submits no period: no period comes out, and PacketsComplet- *)
(* ed counts one that was.                                                 *)
Calm ==
  /\ \A p \in Periods : Out(p)' => Out(p) /\ number'[p] = number[p]
  /\ \/ completed' = completed \/ completed' = 0
     \/ \E q \in Periods : Out(q) /\ completed' = number[q] + 1

Resting ==
  \/ \E t \in Drainers : \/ Get(t) \/ GetNothing(t) \/ Look(t) \/ Mark(t)
                         \/ Ask(t) \/ RefillBusy(t) \/ Bump(t)
  \/ \E t \in Threads : \/ Claim(t) \/ ClaimNot(t) \/ Peek(t) \/ PeekNothing(t)
                        \/ SubmitFails(t) \/ Pop(t) \/ Yield(t)
  \/ SetRenderPacket \/ SetRenderPacketPumps \/ InterruptDpc \/ DeviceReturns
  \/ FreeRtPackets \/ AllocateRtPackets
  \/ Configure("prepare") \/ Configure("run") \/ SetParams \/ Prepared \/ Reset
  \/ ConfigureFails \/ Run \/ FillNot \/ Start \/ StartFails
  \/ Stop("pause") \/ Stop("release") \/ ClearRenderQueue \/ Release \/ CheckAgain
  \/ Stopped \/ Done \/ Cleanup \/ CreateStream

LEMMA CalmSteps ==
  ASSUME IInv, ~Undefined, Resting PROVE Calm
<1>1. ASSUME UNCHANGED <<hand, number, completed, used, ring>> PROVE Calm
  BY <1>1 DEF Calm, Out, OnTheRing, InHand
<1>2. ASSUME ~periods, completed' = completed \/ completed' = 0, UNCHANGED <<ringVars, hand>>
      PROVE  Calm
  <2>1. \A p \in Periods : ~Out(p)'
    BY <1>2 DEF Out, OnTheRing, InHand, Undefined, Stray, Dangling, ringVars, Periods, NoPeriod
  <2>2. QED
    BY <1>2, <2>1 DEF Calm
<1> USE DEF statusVars, memoryVars, ringVars, queueVars, countVars, readVars, localVars
<1>3. ASSUME NEW t \in Drainers, Get(t) PROVE Calm
  <2>1. used \in Seq(Periods) /\ used # <<>> /\ Distinct(used)
    BY <1>3 DEF Get, IInv, Types, Ring
  <2>2. /\ Head(used) \in ToSet(used)
        /\ ToSet(Tail(used)) = ToSet(used) \ {Head(used)}
    BY <2>1, HeadGoes
  <2>3. /\ used' = Tail(used) /\ UNCHANGED <<ring, number, completed>>
        /\ hand' = [hand EXCEPT ![t] = Head(used)]
        /\ hand \in [Drainers -> Periods \cup {NoPeriod}]
    BY <1>3 DEF Get, IInv, Types
  <2>4. QED
    BY <2>2, <2>3 DEF Calm, Out, OnTheRing, InHand
<1>4. ASSUME NEW t \in Drainers, Mark(t) PROVE Calm
  <2>1. hand[t] \in Periods /\ hand \in [Drainers -> Periods \cup {NoPeriod}]
    BY <1>4 DEF Mark, IInv, Types, Hands, Goes
  <2>2. /\ completed' = completed \/ completed' = number[hand[t]] + 1
        /\ UNCHANGED <<ring, used, number>>
        /\ \A u \in Drainers : hand'[u] = hand[u] \/ hand'[u] = NoPeriod
    BY <1>4, <2>1 DEF Mark
  <2>3. Out(hand[t])
    BY DEF Out, InHand
  <2>4. NoPeriod \notin Periods
    BY DEF NoPeriod, Periods
  <2>5. QED
    BY <2>1, <2>2, <2>3, <2>4 DEF Calm, Out, OnTheRing, InHand
<1>5. ASSUME NEW t \in Drainers, Ask(t) \/ RefillBusy(t) PROVE Calm
  <2>1. /\ UNCHANGED <<ring, used, number, completed>>
        /\ \A u \in Drainers : hand'[u] = hand[u] \/ hand'[u] = NoPeriod
    BY <1>5 DEF Ask, RefillBusy, IInv, Types
  <2>2. NoPeriod \notin Periods
    BY DEF NoPeriod, Periods
  <2>3. QED
    BY <2>1, <2>2 DEF Calm, Out, OnTheRing, InHand
<1>6. ASSUME NEW t \in Drainers, GetNothing(t) \/ Look(t) \/ Bump(t) PROVE Calm
  BY <1>1, <1>6 DEF GetNothing, Look, Bump
<1>7. ASSUME NEW t \in Threads, 
             \/ Claim(t) \/ ClaimNot(t) \/ Peek(t) \/ PeekNothing(t)
             \/ SubmitFails(t) \/ Pop(t) \/ Yield(t)
      PROVE  Calm
  BY <1>1, <1>7 DEF Claim, ClaimNot, Peek, PeekNothing, SubmitFails, Pop, Yield
<1>8. CASE SetRenderPacket \/ SetRenderPacketPumps \/ InterruptDpc
  BY <1>1, <1>8 DEF SetRenderPacket, SetRenderPacketPumps, InterruptDpc
<1>9. CASE DeviceReturns
  <2>1. PICK p \in ring : ring' = ring \ {p} /\ used' = Append(used, p)
    BY <1>9 DEF DeviceReturns
  <2>2. periods
    BY <2>1 DEF Undefined, Stray, OnTheRing
  <2>3. used \in Seq(Periods) /\ p \in Periods /\ Distinct(used) /\ p \notin ToSet(used)
    BY <2>1, <2>2 DEF IInv, Types, Ring
  <2>4. ToSet(used') = ToSet(used) \cup {p}
    BY <2>1, <2>3, OneMore
  <2>5. UNCHANGED <<hand, number, completed>>
    BY <1>9 DEF DeviceReturns
  <2>6. QED
    BY <2>1, <2>4, <2>5 DEF Calm, Out, OnTheRing, InHand
<1>10. CASE FreeRtPackets \/ AllocateRtPackets \/ SetParams \/ Prepared \/ ConfigureFails
  BY <1>1, <1>10 DEF FreeRtPackets, AllocateRtPackets, FreeRtPacketStorage, SetParams, Prepared,
                     ConfigureFails, FreeStreamPeriods
<1>11. CASE Reset
  BY <1>11 DEF Reset, Calm, Out, OnTheRing, InHand
<1>12. CASE Run \/ FillNot \/ Start \/ StartFails \/ ClearRenderQueue \/ Release \/ CheckAgain
  BY <1>1, <1>12 DEF Run, FillNot, Start, StartFails, ClearRenderQueue, Release, CheckAgain
<1>13. CASE Stopped \/ Done \/ Cleanup
  BY <1>1, <1>13 DEF Stopped, Done, Cleanup, FreeStreamPeriods
<1>14. CASE CreateStream
  <2>1. ~periods
    BY <1>14 DEF CreateStream, IInv, Status
  <2>2. QED
    BY <1>2, <1>14, <2>1 DEF CreateStream
<1>15. ASSUME NEW c \in {"prepare", "run"}, Configure(c) PROVE Calm
  <2>1. CASE periods
    BY <1>1, <1>15, <2>1 DEF Configure, PrepareStreamPeriods
  <2>2. CASE ~periods
    BY <1>2, <1>15, <2>2 DEF Configure
  <2>3. QED
    BY <2>1, <2>2
<1>16. ASSUME NEW c \in {"pause", "release"}, Stop(c) PROVE Calm
  BY <1>1, <1>16 DEF Stop
<1>17. QED
  BY <1>3, <1>4, <1>5, <1>6, <1>7, <1>8, <1>9, <1>10, <1>11, <1>12, <1>13, <1>14, <1>15, <1>16
  DEF Resting

(* What is behind a packet stays behind it, and behind the later ones.     *)
LEMMA BehindKept ==
  ASSUME IInv, Calm, NEW x \in Nat, Behind(x)
  PROVE  Behind(x)'
<1>1. /\ number \in [Periods -> Nat] /\ completed \in Nat
      /\ completed <= x /\ \A p \in Periods : Out(p) => number[p] < x
  BY DEF IInv, Types, Behind
<1>2. completed' <= x
  BY <1>1 DEF Calm
<1>3. \A p \in Periods : Out(p)' => number'[p] < x
  BY <1>1 DEF Calm
<1>4. QED
  BY <1>2, <1>3 DEF Behind

LEMMA BehindLater ==
  ASSUME IInv, NEW x \in Nat, NEW y \in Nat, x <= y, Behind(x)
  PROVE  Behind(y)
<1>1. number \in [Periods -> Nat] /\ completed \in Nat
  BY DEF IInv, Types
<1>2. QED
  BY <1>1 DEF Behind

(* The callback is about to start NextCapturePacket anew, or may do so.    *)
Anew == (periods /\ ~prepared /\ callback # "release") \/ at["callback"] = "reset"

Bumping == \E t \in Drainers : at[t] = "bump"

LEMMA CapturedStep ==
  ASSUME IInv, ByKind, ByKind', Captured, ~Undefined, Steps PROVE Captured'
<1> SUFFICES ASSUME capture' PROVE Captured'
  BY DEF Captured
<1>0. /\ next_capture \in Nat /\ completed \in Nat /\ number \in [Periods -> Nat]
      /\ at \in [Threads -> CallbackPlaces \cup Working \cup {"queued"}]
      /\ hand \in [Drainers -> Periods \cup {NoPeriod}]
  BY DEF IInv, Types, Places
<1>1. ASSUME capture, Calm, next_capture' = next_capture, Bumping => Bumping', Anew' => Anew
      PROVE  Captured'
  <2>1. Anew' => \A p \in Periods : ~Out(p)'
    BY <1>1 DEF Captured, Anew, Calm
  <2>2. CASE Bumping
    <3>1. Behind(next_capture + 1)'
      BY <1>0, <1>1, <2>2, BehindKept DEF Captured, Bumping, Behind
    <3>2. QED
      BY <1>1, <2>1, <2>2, <3>1 DEF Captured, Anew, Bumping, Behind
  <2>3. CASE ~Bumping
    <3>1. Behind(next_capture)'
      BY <1>0, <1>1, <2>3, BehindKept DEF Captured, Bumping, Behind
    <3>2. completed' \in Nat /\ number' \in [Periods -> Nat]
      BY StepInv DEF IInv, Types, Next, Steps
    <3>3. Behind(next_capture + 1)'
      BY <1>0, <1>1, <3>1, <3>2 DEF Behind
    <3>4. QED
      BY <1>1, <2>1, <3>1, <3>3 DEF Captured, Anew, Bumping
  <2>4. QED
    BY <2>2, <2>3
<1> USE DEF Goes, Step, Returns, Calls, statusVars, memoryVars, ringVars, queueVars, countVars,
            readVars, localVars
<1>2. ASSUME NEW t \in Drainers,
             Get(t) \/ GetNothing(t) \/ Look(t) \/ Mark(t) \/ Ask(t) \/ RefillBusy(t)
      PROVE  Captured'
  <2>1. /\ UNCHANGED <<capture, next_capture, periods, prepared, callback>>
        /\ at[t] \notin {"bump", "reset"}
        /\ \A u \in Threads \ {t} : at'[u] = at[u]
    BY <1>0, <1>2 DEF Get, GetNothing, Look, Mark, Ask, RefillBusy
  <2>2. at'[t] # "reset"
    <3>1. CASE GetNothing(t)
      BY <1>0, <3>1 DEF GetNothing, IInv, CallbackAt, Places, Drainers, Threads, Working,
                        DrainPlaces, PumpPlaces
    <3>2. CASE Get(t) \/ Look(t) \/ Mark(t) \/ Ask(t) \/ RefillBusy(t)
      BY <1>0, <3>2 DEF Get, Look, Mark, Ask, RefillBusy, Drainers, Threads
    <3>3. QED
      BY <1>2, <3>1, <3>2
  <2>3. Bumping => Bumping'
    BY <2>1 DEF Bumping, Drainers, Threads
  <2>4. Anew' => Anew
    BY <2>1, <2>2 DEF Anew, Drainers, Threads
  <2>5. Calm
    BY <1>2, CalmSteps DEF Resting
  <2>6. QED
    BY <1>1, <2>1, <2>3, <2>4, <2>5
<1>3. ASSUME NEW t \in Drainers, Refill(t) PROVE Captured'
  <2>1. /\ UNCHANGED <<capture, next_capture, periods, prepared, callback, completed, used>>
        /\ at[t] = "refill" /\ at' = [at EXCEPT ![t] = "bump"]
        /\ number' = [number EXCEPT ![hand[t]] = next_capture]
        /\ ring' = ring \cup {hand[t]} /\ hand' = [hand EXCEPT ![t] = NoPeriod]
    BY <1>3 DEF Refill, Submit
  <2>2. hand[t] \in Periods /\ Out(hand[t]) /\ NoPeriod \notin Periods
    BY <1>0, <2>1 DEF IInv, Hands, Out, InHand, NoPeriod, Periods
  <2>3. ~Anew /\ ~Anew'
    BY <1>0, <2>1, <2>2 DEF Captured, Anew, Drainers, Threads
  <2>4. \A p \in Periods : Out(p)' => Out(p)
    BY <1>0, <2>1, <2>2 DEF Out, OnTheRing, InHand
  <2>5. Behind(next_capture + 1)
    BY <1>0, <2>1, BehindLater DEF Captured, Bumping
  <2>6. Behind(next_capture + 1)'
    BY <1>0, <2>1, <2>2, <2>4, <2>5 DEF Behind
  <2>7. Bumping'
    BY <1>0, <2>1 DEF Bumping, Drainers, Threads
  <2>8. QED
    BY <2>3, <2>6, <2>7 DEF Captured, Anew, Bumping
<1>4. ASSUME NEW t \in Drainers, Bump(t) PROVE Captured'
  <2>1. /\ next_capture' = next_capture + 1 /\ at[t] = "bump" /\ at' = [at EXCEPT ![t] = "get"]
        /\ UNCHANGED <<capture, periods, prepared, callback, completed, used, ring, number, hand>>
    BY <1>4 DEF Bump
  <2>2. Behind(next_capture + 1) /\ Behind(next_capture + 1 + 1)
    BY <1>0, <2>1, BehindLater DEF Captured
  <2>3. Behind(next_capture)' /\ Behind(next_capture + 1)'
    BY <2>1, <2>2 DEF Behind, Out, OnTheRing, InHand
  <2>4. Anew' => \A p \in Periods : ~Out(p)'
    BY <1>0, <2>1 DEF Captured, Anew, Out, OnTheRing, InHand, Drainers, Threads
  <2>5. QED
    BY <2>3, <2>4 DEF Captured, Anew
<1>5. ASSUME NEW t \in Threads, 
             \/ Claim(t) \/ ClaimNot(t) \/ Peek(t) \/ PeekNothing(t)
             \/ SubmitRenderPacket(t) \/ SubmitFails(t) \/ Pop(t) \/ Yield(t)
      PROVE  Captured'
  <2>1. capture' = capture /\ at[t] \in PumpPlaces
    BY <1>5 DEF Claim, ClaimNot, Peek, PeekNothing, SubmitRenderPacket, SubmitFails, Pop, Yield,
                PumpPlaces
  <2>2. QED
    BY <2>1 DEF ByKind
<1>6. CASE SetRenderPacket \/ SetRenderPacketPumps
  BY <1>6 DEF SetRenderPacket, SetRenderPacketPumps, ByKind, Threads
<1>7. CASE InterruptDpc \/ DeviceReturns \/ FreeRtPackets \/ AllocateRtPackets \/ SetParams
           \/ ConfigureFails \/ FillNot \/ Start \/ StartFails
  <2>1. /\ UNCHANGED <<capture, next_capture, prepared>>
        /\ periods' => periods
        /\ callback' = callback \/ callback # "release"
        /\ at'["callback"] = "reset" => at["callback"] = "reset"
        /\ \A u \in Drainers : at[u] = "bump" => at'[u] = "bump"
    <3>1. CASE InterruptDpc
      BY <1>0, <3>1 DEF InterruptDpc, Drainers, Threads
    <3>2. CASE DeviceReturns
      BY <3>2 DEF DeviceReturns
    <3>3. CASE FreeRtPackets \/ AllocateRtPackets
      <4>1. FreeRtPacketStorage
        BY <3>3 DEF FreeRtPackets, AllocateRtPackets
      <4>2. UNCHANGED <<capture, next_capture, prepared, periods, callback, at>>
        BY <4>1 DEF FreeRtPacketStorage
      <4>3. QED
        BY <4>2
    <3>4. CASE SetParams \/ Start \/ StartFails \/ FillNot
      <4>1. UNCHANGED <<capture, next_capture, prepared, periods, callback>>
        BY <3>4 DEF SetParams, Start, StartFails, FillNot
      <4>2. /\ at["callback"] \notin {"bump", "reset"} /\ at'["callback"] # "reset"
            /\ at'["dpc"] = at["dpc"]
        BY <1>0, <3>4 DEF SetParams, Start, StartFails, FillNot, Threads
      <4>3. QED
        BY <4>1, <4>2 DEF Drainers
    <3>5. CASE ConfigureFails
      BY <1>0, <3>5 DEF ConfigureFails, FreeStreamPeriods, IInv, CallbackAt, Drainers, Threads
    <3>6. QED
      BY <1>7, <3>1, <3>2, <3>3, <3>4, <3>5
  <2>2. Calm
    BY <1>7, CalmSteps DEF Resting
  <2>3. QED
    BY <1>1, <2>1, <2>2 DEF Anew, Bumping
<1>8. ASSUME NEW c \in {"prepare", "run"}, Configure(c) PROVE Captured'
  <2>1. /\ UNCHANGED <<capture, next_capture, prepared>>
        /\ at'["callback"] = "params" /\ at["callback"] = "idle" /\ callback = "none"
        /\ \A u \in Drainers : at[u] = "bump" => at'[u] = "bump"
    BY <1>0, <1>8 DEF Configure, IInv, CallbackAt, Drainers, Threads
  <2>2. Calm
    BY <1>8, CalmSteps DEF Resting
  <2>3. CASE periods
    BY <1>1, <1>8, <2>1, <2>2, <2>3 DEF Anew, Bumping, Configure
  <2>4. CASE ~periods
    <3>1. \A p \in Periods : ~Out(p)
      BY <2>4 DEF Out, OnTheRing, InHand, Undefined, Stray, Dangling, Periods, NoPeriod
    <3>2. \A p \in Periods : ~Out(p)'
      BY <2>2, <3>1 DEF Calm
    <3>3. completed' = completed
      BY <1>8 DEF Configure
    <3>4. completed <= next_capture + 1 /\ (~Bumping => completed <= next_capture)
      <4>1. completed <= next_capture \/ (Bumping /\ completed <= next_capture + 1)
        BY <2>1 DEF Captured, Behind, Bumping
      <4>2. QED
        BY <1>0, <4>1
    <3>5. QED
      BY <1>0, <2>1, <3>2, <3>3, <3>4 DEF Captured, Bumping, Behind
  <2>5. QED
    BY <2>3, <2>4
<1>9. CASE Prepared
  <2>1. /\ UNCHANGED <<capture, next_capture, periods, callback>>
        /\ periods /\ ~prepared /\ callback # "release"
        /\ at["callback"] = "prepare" /\ at'["callback"] = "reset"
        /\ \A u \in Drainers : at[u] = "bump" => at'[u] = "bump"
    BY <1>0, <1>9 DEF Prepared, IInv, CallbackAt, Drainers, Threads
  <2>2. Calm
    BY <1>9, CalmSteps DEF Resting
  <2>3. QED
    BY <1>1, <2>1, <2>2 DEF Anew, Bumping
<1>10. CASE Reset
  <2>1. /\ UNCHANGED <<capture, hand, number, used, ring, prepared>> /\ prepared
        /\ at["callback"] = "reset" /\ completed' = 0 /\ next_capture' = 0
        /\ at'["callback"] # "reset"
    BY <1>0, <1>10 DEF Reset, IInv, CallbackAt, Drainers, Threads
  <2>2. \A p \in Periods : ~Out(p)'
    BY <2>1 DEF Captured, Out, OnTheRing, InHand
  <2>3. QED
    BY <2>1, <2>2 DEF Captured, Behind
<1>11. CASE Run \/ ClearRenderQueue \/ Release \/ CheckAgain
  <2>1. /\ UNCHANGED <<capture, next_capture, periods, prepared>> /\ prepared
        /\ at'["callback"] # "reset"
        /\ \A u \in Drainers : at[u] = "bump" => at'[u] = "bump"
    BY <1>0, <1>11 DEF Run, ClearRenderQueue, Release, CheckAgain, IInv, CallbackAt, Drainers,
                       Threads
  <2>2. Calm
    BY <1>11, CalmSteps DEF Resting
  <2>3. QED
    BY <1>1, <2>1, <2>2 DEF Anew, Bumping
<1>12. CASE FillPeriod
  <2>1. /\ turn \in Periods /\ UNCHANGED <<capture, periods, prepared, completed, used, hand, at>>
        /\ prepared /\ at["callback"] = "fill" /\ at'["callback"] # "reset"
        /\ number' = [number EXCEPT ![turn] = next_capture]
        /\ ring' = ring \cup {turn} /\ next_capture' = next_capture + 1
    BY <1>0, <1>12 DEF FillPeriod, Submit, IInv, CallbackAt, Threads
  <2>2. \A p \in Periods \ {turn} : Out(p)' => Out(p)
    BY <2>1 DEF Out, OnTheRing, InHand
  <2>3. /\ Behind(next_capture + 1) /\ Bumping' = Bumping
        /\ ~Bumping => Behind(next_capture)
    BY <1>0, <2>1, BehindLater DEF Captured, Bumping
  <2>4. Behind(next_capture + 1)'
    BY <1>0, <2>1, <2>2, <2>3 DEF Behind
  <2>5. Behind(next_capture)'
    BY <1>0, <2>1, <2>2, <2>3 DEF Behind
  <2>6. QED
    BY <2>1, <2>4, <2>5 DEF Captured
<1>13. ASSUME NEW c \in {"pause", "release"}, Stop(c) PROVE Captured'
  <2>1. /\ UNCHANGED <<capture, next_capture, periods, prepared>>
        /\ callback = "none" /\ at'["callback"] # "reset"
        /\ \A u \in Drainers : at[u] = "bump" => at'[u] = "bump"
    BY <1>0, <1>13 DEF Stop, IInv, CallbackAt, Drainers, Threads
  <2>2. Calm
    BY <1>13, CalmSteps DEF Resting
  <2>3. QED
    BY <1>1, <2>1, <2>2 DEF Anew, Bumping
<1>14. CASE Stopped
  <2>1. /\ UNCHANGED <<capture, next_capture, periods, callback>>
        /\ (prepared' \/ callback = "release") /\ at'["callback"] # "reset"
        /\ \A u \in Drainers : at[u] = "bump" => at'[u] = "bump"
    BY <1>0, <1>14 DEF Stopped, IInv, CallbackAt, Drainers, Threads
  <2>2. Calm
    BY <1>14, CalmSteps DEF Resting
  <2>3. QED
    BY <1>1, <2>1, <2>2 DEF Anew, Bumping
<1>15. CASE Done \/ Cleanup
  <2>1. /\ UNCHANGED <<capture, next_capture, prepared>>
        /\ periods' => periods
        /\ callback # "release" \/ ~periods'
        /\ at'["callback"] # "reset"
        /\ \A u \in Drainers : at[u] = "bump" => at'[u] = "bump"
    BY <1>0, <1>15 DEF Done, Cleanup, FreeStreamPeriods, IInv, CallbackAt, Drainers, Threads
  <2>2. Calm
    BY <1>15, CalmSteps DEF Resting
  <2>3. QED
    BY <1>1, <2>1, <2>2 DEF Anew, Bumping
<1>16. CASE CreateStream
  <2>1. ~periods /\ UNCHANGED <<hand, ring, used>> /\ completed' = 0 /\ next_capture' = 0
    BY <1>16 DEF CreateStream, IInv, Status
  <2>2. \A p \in Periods : ~Out(p)'
    BY <2>1 DEF Out, OnTheRing, InHand, Undefined, Stray, Dangling, Periods, NoPeriod
  <2>3. QED
    BY <2>1, <2>2 DEF Captured, Behind
<1>17. QED
  BY <1>2, <1>3, <1>4, <1>5, <1>6, <1>7, <1>8, <1>9, <1>10, <1>11, <1>12, <1>13, <1>14, <1>15,
     <1>16
  DEF Steps, Drain, Pump, CallbackNext

LEMMA RenderedStep ==
  ASSUME IInv, ByKind, Rendered, ~Undefined, Steps PROVE Rendered'
<1> SUFFICES ASSUME ~capture' PROVE Rendered'
  BY DEF Rendered
<1> DEFINE base == given - Len(ready)
<1>0. /\ completed \in Nat /\ number \in [Periods -> Nat] /\ given \in 0 .. MaxPackets
      /\ ready \in Seq(0 .. MaxPackets) /\ Len(ready) \in Nat /\ Len(ready) <= given
      /\ at \in [Threads -> CallbackPlaces \cup Working \cup {"queued"}]
      /\ back \in [Threads -> CallbackPlaces]
      /\ hand \in [Drainers -> Periods \cup {NoPeriod}]
      /\ packet \in [Threads -> 0 .. MaxPackets] /\ MaxPackets \in Nat
  BY LenProperties, AcxStreamAssumption DEF IInv, Types, Places, Consecutive, UpTo
<1>1. ASSUME ~capture, Calm, given' = given, ready' = ready \/ ready' = <<>>,
             \A t \in Threads : at'[t] \in {"submit", "pop"} =>
                                  at'[t] = at[t] /\ packet'[t] = packet[t],
             \A t \in Threads : at[t] = "pop" => at'[t] = "pop"
      PROVE  Rendered'
  <2>1. Len(ready') \in Nat /\ Len(ready') <= Len(ready)
    BY <1>0, <1>1, EmptySeq
  <2>2. \A t \in Threads : at'[t] \in {"submit", "pop"} =>
                             packet'[t] < given' /\ packet'[t] + Len(ready') <= given'
    <3> SUFFICES ASSUME NEW t \in Threads, at'[t] \in {"submit", "pop"}
                 PROVE  packet'[t] < given' /\ packet'[t] + Len(ready') <= given'
      OBVIOUS
    <3>1. packet[t] < given /\ packet[t] + Len(ready) <= given
      BY <1>1 DEF Rendered
    <3>2. packet[t] \in Nat /\ given \in Nat
      BY <1>0
    <3>3. QED
      BY <1>0, <1>1, <2>1, <3>1, <3>2
  <2>3. \A t \in Threads : at'[t] = "submit" => Behind(packet[t])'
    BY <1>0, <1>1, BehindKept DEF Rendered, Behind
  <2>4. \A t \in Threads : at'[t] = "pop" => Behind(packet[t] + 1)'
    <3> SUFFICES ASSUME NEW t \in Threads, at'[t] = "pop" PROVE Behind(packet[t] + 1)'
      OBVIOUS
    <3>1. Behind(packet[t] + 1) /\ packet[t] + 1 \in Nat /\ packet'[t] = packet[t]
      BY <1>0, <1>1 DEF Rendered
    <3>2. QED
      BY <1>1, <3>1, BehindKept DEF Behind
  <2>5. Popping' = {} => Behind(given - Len(ready))'
    <3> SUFFICES ASSUME Popping' = {} PROVE Behind(given - Len(ready))'
      OBVIOUS
    <3>1. Behind(given - Len(ready))
      BY <1>1 DEF Rendered, Popping
    <3>2. /\ given - Len(ready) \in Nat /\ given - Len(ready') \in Nat
          /\ given - Len(ready) <= given - Len(ready')
      BY <1>0, <2>1
    <3>3. Behind(given - Len(ready'))
      BY <3>1, <3>2, BehindLater
    <3>4. QED
      BY <1>1, <3>2, <3>3, BehindKept DEF Behind
  <2>6. QED
    BY <2>2, <2>3, <2>4, <2>5 DEF Rendered
<1> USE DEF Goes, Step, Returns, Calls, statusVars, memoryVars, ringVars, queueVars, countVars,
            readVars, localVars
<1>2. ASSUME NEW t \in Drainers, Get(t) \/ GetNothing(t) \/ Look(t) \/ Mark(t)
      PROVE  Rendered'
  <2>1. UNCHANGED <<capture, given, ready, packet>>
    BY <1>2 DEF Get, GetNothing, Look, Mark
  <2>2. /\ at[t] \in {"get", "look", "mark"} /\ \A u \in Threads \ {t} : at'[u] = at[u]
        /\ at'[t] \notin {"submit", "pop"}
    <3>1. CASE GetNothing(t)
      BY <1>0, <3>1 DEF GetNothing, Drainers, Threads, CallbackPlaces
    <3>2. CASE Get(t) \/ Look(t) \/ Mark(t)
      BY <1>0, <3>2 DEF Get, Look, Mark, Drainers, Threads
    <3>3. QED
      BY <1>2, <3>1, <3>2
  <2>3. Calm
    BY <1>2, CalmSteps DEF Resting
  <2>4. QED
    BY <1>1, <2>1, <2>2, <2>3
<1>3. ASSUME NEW t \in Drainers, Ask(t) \/ Refill(t) \/ RefillBusy(t) \/ Bump(t) PROVE Rendered'
  <2>1. capture' = capture /\ at[t] \in {"ask", "refill", "bump"}
    BY <1>3 DEF Ask, Refill, RefillBusy, Bump
  <2>2. QED
    BY <2>1 DEF ByKind
<1>4. ASSUME NEW t \in Threads, 
             Claim(t) \/ ClaimNot(t) \/ PeekNothing(t) \/ SubmitFails(t) \/ Yield(t)
      PROVE  Rendered'
  <2>1. UNCHANGED <<capture, given, ready>> /\ \A u \in Threads \ {t} : packet'[u] = packet[u]
    BY <1>0, <1>4 DEF Claim, ClaimNot, PeekNothing, SubmitFails, Yield
  <2>2. /\ at[t] # "pop" /\ \A u \in Threads \ {t} : at'[u] = at[u]
        /\ at'[t] \notin {"submit", "pop"}
    BY <1>0, <1>4 DEF Claim, ClaimNot, PeekNothing, SubmitFails, Yield, CallbackPlaces
  <2>3. Calm
    BY <1>4, CalmSteps DEF Resting
  <2>4. QED
    BY <1>1, <2>1, <2>2, <2>3
<1>5. ASSUME NEW t \in Threads, Peek(t) PROVE Rendered'
  <2>1. /\ UNCHANGED <<capture, given, ready>> /\ ready # <<>> /\ at[t] = "peek"
        /\ packet' = [packet EXCEPT ![t] = Head(ready)] /\ at' = [at EXCEPT ![t] = "submit"]
    BY <1>5 DEF Peek
  <2>2. \A u \in Threads \ {t} : at[u] \notin InPump /\ at'[u] = at[u]
    BY <1>0, <2>1 DEF IInv, Pumps, InPump
  <2>3. /\ Head(ready) \in Nat /\ Head(ready) + Len(ready) = given
        /\ Len(ready) \in Nat \ {0}
    <3>1. 0 .. MaxPackets \subseteq Nat /\ given \in Nat
      BY <1>0
    <3>2. QED
      BY <1>0, <2>1, <3>1, UpToTail DEF IInv, Consecutive
  <2>4. Calm
    BY <1>5, CalmSteps DEF Resting
  <2>5. Popping = {} /\ given - Len(ready) = Head(ready)
    <3>1. Popping = {}
      BY <2>1, <2>2 DEF Popping, InPump
    <3>2. given \in Nat
      BY <1>0
    <3>3. QED
      BY <2>3, <3>1, <3>2
  <2>6. Behind(Head(ready))
    BY <2>1, <2>5 DEF Rendered
  <2>7. packet'[t] = Head(ready) /\ at'[t] = "submit"
    BY <1>0, <2>1
  <2>8. Behind(packet[t])' /\ Behind(given - Len(ready))'
    BY <2>1, <2>3, <2>4, <2>5, <2>6, <2>7, BehindKept DEF Behind
  <2>9. packet'[t] < given' /\ packet'[t] + Len(ready') <= given'
    BY <1>0, <2>1, <2>3, <2>7
  <2>10. QED
    BY <2>2, <2>7, <2>8, <2>9 DEF Rendered, InPump
<1>6. ASSUME NEW t \in Threads, SubmitRenderPacket(t) PROVE Rendered'
  <2>1. /\ UNCHANGED <<capture, given, ready, completed, used, hand, packet>>
        /\ at[t] = "submit" /\ at' = [at EXCEPT ![t] = "pop"] /\ Free # {}
        /\ number' = [number EXCEPT ![First] = packet[t]] /\ ring' = ring \cup {First}
    BY <1>6 DEF SubmitRenderPacket, Submit
  <2>2. \A u \in Threads \ {t} : at[u] \notin InPump /\ at'[u] = at[u]
    BY <1>0, <2>1 DEF IInv, Pumps, InPump
  <2>3. First \in Periods
    BY <2>1, FirstIsFree DEF IInv, Types
  <2>4. /\ packet[t] \in Nat /\ Behind(packet[t])
        /\ packet[t] < given /\ packet[t] + Len(ready) <= given
    BY <1>0, <2>1 DEF Rendered
  <2>5. \A p \in Periods \ {First} : Out(p)' => Out(p)
    BY <2>1 DEF Out, OnTheRing, InHand
  <2>6. Behind(packet[t] + 1)'
    BY <1>0, <2>1, <2>3, <2>4, <2>5 DEF Behind
  <2>7. at'[t] = "pop" /\ t \in Popping'
    BY <1>0, <2>1 DEF Popping
  <2>8. QED
    BY <2>1, <2>2, <2>4, <2>6, <2>7 DEF Rendered, InPump
<1>7. ASSUME NEW t \in Threads, Pop(t) PROVE Rendered'
  <2>1. /\ UNCHANGED <<capture, given>> /\ at[t] \in {"pop", "drop"}
        /\ ready' = IF ready = <<>> THEN ready ELSE Tail(ready)
        /\ at'[t] \in {"peek", "yield"} /\ \A u \in Threads \ {t} : at'[u] = at[u]
    BY <1>0, <1>7 DEF Pop
  <2>2. \A u \in Threads \ {t} : at[u] \notin InPump
    BY <1>0, <2>1 DEF IInv, Pumps, InPump
  <2>3. Calm
    BY <1>7, CalmSteps DEF Resting
  <2>4. Len(ready') \in Nat /\ Len(ready') = (IF Len(ready) = 0 THEN 0 ELSE Len(ready) - 1)
    BY <1>0, <2>1, HeadAndTail, EmptySeq
  <2>5. given - Len(ready') \in Nat
    BY <1>0, <2>4
  <2>6. Behind(given - Len(ready'))
    <3>1. CASE at[t] = "pop"
      <4>1. /\ packet[t] \in Nat /\ Behind(packet[t] + 1) 
            /\ packet[t] < given /\ packet[t] + Len(ready) <= given
        BY <1>0, <2>1, <3>1 DEF Rendered
      <4>2. packet[t] + 1 \in Nat /\ packet[t] + 1 <= given - Len(ready')
        BY <1>0, <2>4, <4>1
      <4>3. QED
        BY <2>5, <4>1, <4>2, BehindLater
    <3>2. CASE at[t] = "drop"
      <4>1. Popping = {}
        BY <2>2, <3>2 DEF Popping, InPump
      <4>2. Behind(given - Len(ready))
        BY <2>1, <4>1 DEF Rendered
      <4>3. given - Len(ready) \in Nat /\ given - Len(ready) <= given - Len(ready')
        BY <1>0, <2>4
      <4>4. QED
        BY <2>5, <4>2, <4>3, BehindLater
    <3>3. QED
      BY <2>1, <3>1, <3>2
  <2>7. Behind(given - Len(ready))'
    BY <2>1, <2>3, <2>5, <2>6, BehindKept DEF Behind
  <2>8. QED
    BY <2>1, <2>2, <2>7 DEF Rendered, InPump
<1>8. CASE SetRenderPacket
  <2>1. /\ UNCHANGED <<capture, packet>> /\ given' = given + 1 /\ ready' = Queued(given)
        /\ at' = [at EXCEPT !["client"] = "queued"] /\ at["client"] = "idle"
        /\ given < MaxPackets
    BY <1>8 DEF SetRenderPacket
  <2>2. /\ Len(ready') \in Nat /\ Len(ready') <= Len(ready) + 1
    <3>1. CASE Full
      <4>1. ready # <<>> /\ Tail(ready) \in Seq(0 .. MaxPackets)
            /\ Len(Tail(ready)) = Len(ready) - 1
        BY <1>0, <3>1, HeadAndTail, EmptySeq, AcxStreamAssumption DEF Full
      <4>2. Len(Append(Tail(ready), given)) = Len(Tail(ready)) + 1
        BY <1>0, <4>1, AppendProperties
      <4>3. QED
        BY <1>0, <2>1, <3>1, <4>1, <4>2 DEF Queued
    <3>2. CASE ~Full
      BY <1>0, <2>1, <3>2, AppendProperties DEF Queued
    <3>3. QED
      BY <3>1, <3>2
  <2>3. \A u \in Threads : at'[u] \in {"submit", "pop"} \/ at[u] \in {"submit", "pop"} =>
                             at'[u] = at[u]
    BY <1>0, <2>1
  <2>4. Calm
    BY <1>8, CalmSteps DEF Resting
  <2>5. \A u \in Threads : at'[u] \in {"submit", "pop"} =>
                             packet'[u] < given' /\ packet'[u] + Len(ready') <= given'
    <3> SUFFICES ASSUME NEW u \in Threads, at'[u] \in {"submit", "pop"}
                 PROVE  packet'[u] < given' /\ packet'[u] + Len(ready') <= given'
      OBVIOUS
    <3>1. packet[u] < given /\ packet[u] + Len(ready) <= given
      BY <2>1, <2>3 DEF Rendered
    <3>2. packet[u] \in Nat /\ given \in Nat
      BY <1>0
    <3>3. QED
      BY <1>0, <2>1, <2>2, <3>1, <3>2
  <2>6. \A u \in Threads : at'[u] = "submit" => Behind(packet[u])'
    BY <1>0, <2>1, <2>3, <2>4, BehindKept DEF Rendered, Behind
  <2>7. \A u \in Threads : at'[u] = "pop" => Behind(packet[u] + 1)'
    <3> SUFFICES ASSUME NEW u \in Threads, at'[u] = "pop" PROVE Behind(packet[u] + 1)'
      OBVIOUS
    <3>1. Behind(packet[u] + 1) /\ packet[u] + 1 \in Nat /\ packet'[u] = packet[u]
      BY <1>0, <2>1, <2>3 DEF Rendered
    <3>2. QED
      BY <2>4, <3>1, BehindKept DEF Behind
  <2>8. ASSUME Popping' = {} PROVE Behind(given - Len(ready))'
    <3>1. Popping = {}
      BY <2>3, <2>8 DEF Popping
    <3>2. Behind(given - Len(ready))
      BY <2>1, <3>1 DEF Rendered
    <3>3. /\ given - Len(ready) \in Nat /\ given' - Len(ready') \in Nat
          /\ given - Len(ready) <= given' - Len(ready')
      BY <1>0, <2>1, <2>2
    <3>4. Behind(given' - Len(ready'))
      BY <3>2, <3>3, BehindLater
    <3>5. QED
      BY <2>4, <3>3, <3>4, BehindKept DEF Behind
  <2>9. QED
    BY <2>5, <2>6, <2>7, <2>8 DEF Rendered
<1>9. CASE SetRenderPacketPumps \/ InterruptDpc \/ DeviceReturns
  <2>1. UNCHANGED <<capture, given, ready, packet>>
    BY <1>9 DEF SetRenderPacketPumps, InterruptDpc, DeviceReturns
  <2>2. /\ \A t \in Threads : at'[t] \in {"submit", "pop"} \/ at[t] = "pop" => at'[t] = at[t]
    BY <1>0, <1>9 DEF SetRenderPacketPumps, InterruptDpc, DeviceReturns
  <2>3. Calm
    BY <1>9, CalmSteps DEF Resting
  <2>4. QED
    BY <1>1, <2>1, <2>2, <2>3
<1>10. CASE FreeRtPackets \/ AllocateRtPackets
  <2>1. UNCHANGED <<capture, given, at, packet>> /\ ready' = <<>>
    BY <1>10 DEF FreeRtPackets, AllocateRtPackets, FreeRtPacketStorage
  <2>2. Calm
    BY <1>10, CalmSteps DEF Resting
  <2>3. QED
    BY <1>1, <2>1, <2>2
<1>11. CASE SetParams \/ Prepared \/ Reset \/ ConfigureFails \/ Run \/ FillNot
  <2>1. UNCHANGED <<capture, given, ready, packet>>
    BY <1>11 DEF SetParams, Prepared, Reset, ConfigureFails, Run, FillNot
  <2>2. /\ at["callback"] \notin {"submit", "pop"} /\ at'["callback"] \notin {"submit", "pop"}
        /\ \A u \in Threads \ {"callback"} : at'[u] = at[u]
    BY <1>0, <1>11 DEF SetParams, Prepared, Reset, ConfigureFails, Run, FillNot, Threads
  <2>3. Calm
    BY <1>11, CalmSteps DEF Resting
  <2>4. QED
    BY <1>1, <2>1, <2>2, <2>3
<1>12. CASE FillPeriod
  BY <1>12 DEF FillPeriod, ByKind
<1>13. CASE Start \/ StartFails \/ ClearRenderQueue \/ Release \/ CheckAgain \/ Stopped \/ Done
            \/ Cleanup
  <2>1. UNCHANGED <<capture, given, packet>> /\ (ready' = ready \/ ready' = <<>>)
    BY <1>13 DEF Start, StartFails, ClearRenderQueue, Release, CheckAgain, Stopped, Done, Cleanup
  <2>2. CASE Cleanup
    <3>1. UNCHANGED <<ready, at>>
      BY <2>2 DEF Cleanup
    <3>2. Calm
      BY <2>2, CalmSteps DEF Resting
    <3>3. QED
      BY <1>1, <2>1, <3>1, <3>2
  <2>3. CASE ~Cleanup
    <3>1. /\ at["callback"] \notin {"submit", "pop"} /\ at'["callback"] \notin {"submit", "pop"}
          /\ \A u \in Threads \ {"callback"} : at'[u] = at[u]
      BY <1>0, <1>13, <2>3 DEF Start, StartFails, ClearRenderQueue, Release, CheckAgain, Stopped,
                               Done, Threads
    <3>2. Calm
      BY <1>13, CalmSteps DEF Resting
    <3>3. QED
      BY <1>1, <2>1, <3>1, <3>2
  <2>4. QED
    BY <2>2, <2>3
<1>14. ASSUME NEW c \in {"prepare", "run"}, Configure(c) PROVE Rendered'
  <2>1. UNCHANGED <<capture, given, ready, packet>>
    BY <1>14 DEF Configure
  <2>2. /\ at["callback"] \notin {"submit", "pop"} /\ at'["callback"] \notin {"submit", "pop"}
        /\ \A u \in Threads \ {"callback"} : at'[u] = at[u]
    BY <1>0, <1>14 DEF Configure, Threads
  <2>3. Calm
    BY <1>14, CalmSteps DEF Resting
  <2>4. QED
    BY <1>1, <2>1, <2>2, <2>3
<1>15. ASSUME NEW c \in {"pause", "release"}, Stop(c) PROVE Rendered'
  <2>1. UNCHANGED <<capture, given, ready, packet>>
    BY <1>15 DEF Stop
  <2>2. /\ at["callback"] \notin {"submit", "pop"} /\ at'["callback"] \notin {"submit", "pop"}
        /\ \A u \in Threads \ {"callback"} : at'[u] = at[u]
    BY <1>0, <1>15 DEF Stop, Threads
  <2>3. Calm
    BY <1>15, CalmSteps DEF Resting
  <2>4. QED
    BY <1>1, <2>1, <2>2, <2>3
<1>16. CASE CreateStream
  <2>1. /\ ~periods /\ UNCHANGED <<hand, ring, used, at>> /\ completed' = 0 /\ given' = 0
        /\ ready' = <<>> /\ \A u \in Threads : at[u] = "idle"
    BY <1>16 DEF CreateStream, IInv, Status, CallbackAt, Undefined, Outlived, Inside, Threads
  <2>2. \A p \in Periods : ~Out(p)'
    BY <2>1 DEF Out, OnTheRing, InHand, Undefined, Stray, Dangling, Periods, NoPeriod
  <2>3. Behind(given - Len(ready))'
    BY <2>1, <2>2, EmptySeq DEF Behind
  <2>4. QED
    BY <2>1, <2>3 DEF Rendered
<1>17. QED
  BY <1>2, <1>3, <1>4, <1>5, <1>6, <1>7, <1>8, <1>9, <1>10, <1>11, <1>12, <1>13, <1>14, <1>15,
     <1>16
  DEF Steps, Drain, Pump, CallbackNext

(* The steps that neither read a period out nor submit one.                *)
Holding == {"look", "mark", "ask", "refill"}

LEMMA CountedAlike ==
  ASSUME Counted, UNCHANGED <<hand, number, returned, completed, higher>>,
         OnTheRing' \subseteq OnTheRing,
         \A m \in {"reused", "crossed"} : m \in marks => m \in marks',
         \A t \in Drainers : at[t] \in Holding \/ at'[t] \in Holding => at'[t] = at[t],
         at["callback"] = "reset" <=> at'["callback"] = "reset"
  PROVE  Counted'
<1>1. Handed' /\ NotAhead'
  BY DEF Counted, Handed, NotAhead
<1>2. Seen'
  BY DEF Counted, Seen, Holding
<1>3. AllCounted'
  BY DEF Counted, AllCounted, Holding
<1>4. QED
  BY <1>1, <1>2, <1>3 DEF Counted

(* No period is in anybody's hand.                                         *)
LEMMA CountedIdle ==
  ASSUME IInv', \A t \in Drainers : hand'[t] = NoPeriod,
         NotAhead', "reused" \in marks' \/ "crossed" \in marks' \/ at'["callback"] = "reset"
                      \/ completed' = returned'
  PROVE  Counted'
<1>1. \A t \in Drainers : at'[t] \notin Holding
  BY DEF IInv, Hands, Holding
<1>2. QED
  BY <1>1 DEF Counted, Handed, Seen, AllCounted, Holding

(* A period that nobody has in hand, or that is marked, is submitted under *)
(* a packet number that is past PacketsCompleted.                          *)
LEMMA CountedSubmit ==
  ASSUME IInv, Counted, NEW p \in Periods, NEW n \in Nat,
         UNCHANGED <<hand, returned, completed, higher>>,
         number' = [number EXCEPT ![p] = n], OnTheRing' = OnTheRing \cup {p},
         Marked("reused", InHand(p)),
         \A t \in Drainers : at[t] \in Holding \/ at'[t] \in Holding => at'[t] = at[t],
         at["callback"] = "reset" <=> at'["callback"] = "reset",
         \A t \in Drainers : at[t] = "mark" => completed <= n
  PROVE  Counted'
<1>0. /\ number \in [Periods -> Nat] /\ completed \in Nat
      /\ \A t \in Drainers : at[t] \in Holding => hand[t] \in Periods
  BY DEF IInv, Types, Hands, Holding
<1>1. "reused" \notin marks' =>
        "reused" \notin marks /\ \A t \in Drainers : hand[t] # p
  BY DEF Marked, InHand
<1>2. "crossed" \in marks => "crossed" \in marks'
  BY DEF Marked
<1>3. Handed' /\ NotAhead'
  <2>1. NotAhead'
    BY <1>1 DEF Counted, NotAhead
  <2>2. Handed'
    BY <1>0, <1>1 DEF Counted, Handed, IInv, Types
  <2>3. QED
    BY <2>1, <2>2
<1>4. Seen'
  <2> SUFFICES ASSUME "crossed" \notin marks', NEW t \in Drainers, at'[t] = "mark"
               PROVE  /\ \A u \in Drainers \ {t} : at'[u] \notin {"mark", "ask", "refill"}
                      /\ higher'[t] => number'[hand'[t]] + 1 > completed'
                      /\ "reused" \notin marks' /\ ~higher'[t] =>
                           number'[hand'[t]] + 1 <= completed'
    BY DEF Seen
  <2>1. /\ "crossed" \notin marks /\ at[t] = "mark" /\ hand[t] \in Periods /\ completed <= n
        /\ \A u \in Drainers \ {t} : at'[u] \notin {"mark", "ask", "refill"}
    BY <1>0, <1>2 DEF Counted, Seen, Holding
  <2>2. number'[hand'[t]] = IF hand[t] = p THEN n ELSE number[hand[t]]
    BY <1>0, <2>1
  <2>3. QED
    BY <1>0, <1>1, <2>1, <2>2 DEF Counted, Seen
<1>5. AllCounted'
  <2> SUFFICES ASSUME "reused" \notin marks', "crossed" \notin marks', at'["callback"] # "reset",
                      completed' # returned'
               PROVE  \E t \in Drainers : /\ at'[t] \in {"look", "mark"}
                                          /\ returned' = number'[hand'[t]] + 1
    BY DEF AllCounted
  <2>1. PICK t \in Drainers : at[t] \in {"look", "mark"} /\ returned = number[hand[t]] + 1
    BY <1>1, <1>2 DEF Counted, AllCounted
  <2>2. at'[t] = at[t] /\ hand[t] \in Periods /\ hand[t] # p
    BY <1>0, <1>1, <2>1 DEF Holding
  <2>3. number'[hand[t]] = number[hand[t]]
    BY <1>0, <2>2
  <2>4. QED
    BY <2>1, <2>2, <2>3
<1>6. QED
  BY <1>3, <1>4, <1>5 DEF Counted

LEMMA CountedDrains ==
  ASSUME IInv, IInv', CountsInv, ~Undefined, NEW t \in Drainers,
         \/ Get(t) \/ GetNothing(t) \/ Look(t) \/ Mark(t)
         \/ Ask(t) \/ Refill(t) \/ RefillBusy(t) \/ Bump(t)
  PROVE  Counted'
<1>0. /\ completed \in Nat /\ returned \in Nat /\ number \in [Periods -> Nat]
      /\ at \in [Threads -> CallbackPlaces \cup Working \cup {"queued"}]
      /\ back \in [Threads -> CallbackPlaces] /\ higher \in [Drainers -> BOOLEAN]
      /\ hand \in [Drainers -> Periods \cup {NoPeriod}]
      /\ NoPeriod \notin Periods /\ Drainers \subseteq Threads
      /\ \A u \in Drainers : at[u] \in Holding => hand[u] \in Periods
      /\ Counted
  <2>1. NoPeriod \notin Periods /\ Drainers \subseteq Threads
    BY DEF NoPeriod, Periods, Drainers, Threads
  <2>2. hand \in [Drainers -> Periods \cup {NoPeriod}] /\ Hands
    BY DEF IInv, Types
  <2>3. \A u \in Drainers : at[u] \in Holding => hand[u] \in Periods
    BY <2>1, <2>2 DEF Hands, Holding
  <2>4. QED
    BY <2>1, <2>2, <2>3 DEF IInv, Types, Places, CountsInv
<1> USE DEF Goes, statusVars, memoryVars, ringVars, queueVars, countVars, readVars, localVars
<1>1. CASE Get(t)
  <2>1. /\ used \in Seq(Periods) /\ used # <<>> /\ Distinct(used)
        /\ UNCHANGED <<number, ring, completed, higher, marks>>
        /\ used' = Tail(used) /\ hand' = [hand EXCEPT ![t] = Head(used)]
        /\ at[t] = "get" /\ at' = [at EXCEPT ![t] = "look"]
        /\ returned' = IF number[Head(used)] >= returned THEN number[Head(used)] + 1
                                                         ELSE returned
    BY <1>1 DEF Get, IInv, Types, Ring
  <2>2. /\ Head(used) \in ToSet(used) /\ ToSet(Tail(used)) = ToSet(used) \ {Head(used)}
        /\ Head(used) \in Periods
    BY <2>1, HeadGoes, HeadAndTail
  <2>3. periods /\ Head(used) \notin ring
    BY <2>2 DEF Undefined, Stray, OnTheRing, IInv, Ring
  <2>4. /\ OnTheRing' = OnTheRing \ {Head(used)} /\ Head(used) \in OnTheRing
    BY <2>1, <2>2, <2>3 DEF OnTheRing
  <2>5. /\ hand'[t] = Head(used) /\ at'[t] = "look"
        /\ \A u \in Drainers \ {t} : hand'[u] = hand[u] /\ at'[u] = at[u]
        /\ number[Head(used)] \in Nat /\ number[Head(used)] < returned' /\ returned <= returned'
        /\ returned' = returned \/ returned' = number[Head(used)] + 1
    BY <1>0, <2>1, <2>2
  <2>6. at["callback"] # "reset" <=> at'["callback"] # "reset"
    BY <1>0, <2>1 DEF Threads
  <2>7. Handed'
    <3> SUFFICES ASSUME "reused" \notin marks, NEW u \in Drainers, hand'[u] # NoPeriod
                 PROVE  /\ hand'[u] \notin OnTheRing' /\ number[hand'[u]] < returned'
                        /\ \A v \in Drainers \ {u} : hand'[v] # hand'[u]
      BY <2>1 DEF Handed
    <3>1. \A v \in Drainers \ {t} : hand[v] # NoPeriod =>
            /\ hand[v] \in Periods /\ hand[v] \notin OnTheRing /\ number[hand[v]] < returned
            /\ \A w \in Drainers \ {v} : hand[w] # hand[v]
      BY <1>0 DEF Counted, Handed
    <3>2. CASE u = t
      BY <1>0, <2>2, <2>4, <2>5, <3>1, <3>2
    <3>3. CASE u # t
      <4>1. hand'[u] = hand[u] /\ hand[u] \in Periods /\ number[hand[u]] \in Nat
        BY <1>0, <2>5, <3>3
      <4>2. number[hand[u]] < returned'
        BY <1>0, <2>1, <2>2, <2>5, <3>1, <3>3, <4>1
      <4>3. \A v \in Drainers \ {u} : hand'[v] # hand'[u]
        BY <2>4, <2>5, <3>1, <3>3, <4>1
      <4>4. QED
        BY <2>4, <2>5, <3>1, <3>3, <4>1, <4>2, <4>3
    <3>4. QED
      BY <3>2, <3>3
  <2>8. NotAhead'
    BY <1>0, <2>1, <2>2, <2>5, <2>6 DEF Counted, NotAhead
  <2>9. Seen'
    BY <1>0, <2>1, <2>5 DEF Counted, Seen
  <2>10. AllCounted'
    <3> SUFFICES ASSUME "reused" \notin marks, "crossed" \notin marks, at["callback"] # "reset"
                 PROVE  \/ completed = returned'
                        \/ \E u \in Drainers : at'[u] \in {"look", "mark"}
                                                 /\ returned' = number[hand'[u]] + 1
      BY <2>1, <2>6 DEF AllCounted
    <3>1. CASE returned' = returned
      BY <1>0, <2>1, <2>5, <3>1 DEF Counted, AllCounted
    <3>2. CASE returned' = number[Head(used)] + 1
      BY <2>5, <3>2
    <3>3. QED
      BY <2>5, <3>1, <3>2
  <2>11. QED
    BY <2>7, <2>8, <2>9, <2>10 DEF Counted
<1>2. CASE GetNothing(t) \/ Bump(t)
  <2>1. UNCHANGED <<hand, number, returned, completed, higher, marks, ring, used>>
    BY <1>2 DEF GetNothing, Bump
  <2>2. /\ at[t] \in {"get", "bump"} /\ at'[t] \in CallbackPlaces \cup {"get", "claim"}
        /\ at'[t] # "reset" /\ \A u \in Threads \ {t} : at'[u] = at[u]
    BY <1>0, <1>2 DEF GetNothing, Bump, IInv, CallbackAt, Places, Drainers, Threads, Working,
                      DrainPlaces, PumpPlaces
  <2>3. \A u \in Drainers : at[u] \in Holding \/ at'[u] \in Holding => at'[u] = at[u]
    BY <1>0, <2>2 DEF Holding, CallbackPlaces
  <2>4. at["callback"] = "reset" <=> at'["callback"] = "reset"
    BY <2>2 DEF Threads
  <2>5. QED
    BY <1>0, <2>1, <2>3, <2>4, CountedAlike DEF OnTheRing
<1>3. CASE Look(t)
  <2>1. /\ UNCHANGED <<hand, number, returned, completed, ring, used>>
        /\ at[t] = "look" /\ at' = [at EXCEPT ![t] = "mark"]
        /\ higher' = [higher EXCEPT ![t] = number[hand[t]] + 1 > completed]
        /\ Marked("crossed", \E u \in Drainers \ {t} : hand[u] # NoPeriod)
    BY <1>3 DEF Look
  <2>2. /\ "reused" \notin marks' => "reused" \notin marks
        /\ "crossed" \notin marks' => "crossed" \notin marks
                                        /\ \A u \in Drainers \ {t} : hand[u] = NoPeriod
    BY <2>1 DEF Marked
  <2>3. /\ at["callback"] # "reset" <=> at'["callback"] # "reset"
        /\ at'[t] = "mark" /\ \A u \in Drainers \ {t} : at'[u] = at[u]
        /\ higher'[t] <=> number[hand[t]] + 1 > completed
        /\ hand[t] \in Periods /\ number[hand[t]] \in Nat
    BY <1>0, <2>1 DEF Threads, Holding
  <2>4. Handed' /\ NotAhead'
    BY <1>0, <2>1, <2>2, <2>3 DEF Counted, Handed, NotAhead, OnTheRing
  <2>5. "crossed" \notin marks' => \A u \in Drainers \ {t} : at'[u] \notin Holding
    BY <1>0, <2>2, <2>3
  <2>6. Seen'
    BY <1>0, <2>1, <2>3, <2>5 DEF Seen, Holding
  <2>7. AllCounted'
    BY <1>0, <2>1, <2>2, <2>3 DEF Counted, AllCounted
  <2>8. QED
    BY <2>4, <2>6, <2>7 DEF Counted
<1>4. CASE Mark(t)
  <2>1. /\ UNCHANGED <<number, returned, ring, used, marks>>
        /\ at[t] = "mark" /\ at'[t] \notin {"mark", "reset"}
        /\ \A u \in Drainers \ {t} : at'[u] = at[u] /\ hand'[u] = hand[u]
        /\ hand'[t] = hand[t] \/ hand'[t] = NoPeriod
        /\ completed' = IF higher[t] THEN number[hand[t]] + 1 ELSE completed
        /\ hand[t] \in Periods /\ number[hand[t]] \in Nat
    BY <1>0, <1>4 DEF Mark, Holding
  <2>2. at["callback"] # "reset" <=> at'["callback"] # "reset"
    BY <2>1 DEF Drainers
  <2>3. hand[t] # NoPeriod /\ OnTheRing' = OnTheRing
    BY <1>0, <2>1 DEF OnTheRing
  <2>4. Handed'
    BY <1>0, <2>1, <2>3 DEF Counted, Handed
  <2>5. NotAhead'
    BY <1>0, <2>1, <2>2, <2>3 DEF Counted, Handed, NotAhead
  <2>6. Seen'
    BY <1>0, <2>1 DEF Counted, Seen
  <2>7. AllCounted'
    <3> SUFFICES ASSUME "reused" \notin marks, "crossed" \notin marks, at["callback"] # "reset"
                 PROVE  \/ completed' = returned
                        \/ \E u \in Drainers : at'[u] \in {"look", "mark"}
                                                 /\ returned = number[hand'[u]] + 1
      BY <2>1, <2>2 DEF AllCounted
    <3>1. /\ number[hand[t]] + 1 <= returned /\ completed <= returned
          /\ higher[t] => number[hand[t]] + 1 > completed
          /\ ~higher[t] => number[hand[t]] + 1 <= completed
          /\ \A u \in Drainers \ {t} : at[u] # "mark"
      BY <1>0, <2>1, <2>3 DEF Counted, Handed, NotAhead, Seen
    <3>2. CASE completed = returned
      BY <1>0, <2>1, <3>1, <3>2
    <3>3. CASE completed # returned
      <4>1. PICK u \in Drainers : at[u] \in {"look", "mark"} /\ returned = number[hand[u]] + 1
        BY <1>0, <3>3 DEF Counted, AllCounted
      <4>2. CASE u = t
        BY <1>0, <2>1, <3>1, <4>1, <4>2
      <4>3. CASE u # t
        BY <2>1, <4>1, <4>3
      <4>4. QED
        BY <4>2, <4>3
    <3>4. QED
      BY <3>2, <3>3
  <2>8. QED
    BY <2>4, <2>5, <2>6, <2>7 DEF Counted
<1>5. CASE Ask(t) \/ RefillBusy(t)
  <2>1. /\ UNCHANGED <<number, returned, completed, higher, ring, used, marks>>
        /\ at[t] \in {"ask", "refill"} /\ at'[t] \notin {"mark", "reset"}
        /\ \A u \in Drainers \ {t} : at'[u] = at[u] /\ hand'[u] = hand[u]
        /\ hand'[t] = hand[t] \/ hand'[t] = NoPeriod
    BY <1>0, <1>5 DEF Ask, RefillBusy
  <2>2. at["callback"] # "reset" <=> at'["callback"] # "reset"
    BY <2>1 DEF Drainers
  <2>3. OnTheRing' = OnTheRing
    BY <2>1 DEF OnTheRing
  <2>4. Handed' /\ NotAhead'
    BY <1>0, <2>1, <2>2, <2>3 DEF Counted, Handed, NotAhead
  <2>5. Seen'
    BY <1>0, <2>1 DEF Counted, Seen
  <2>6. AllCounted'
    BY <1>0, <2>1, <2>2 DEF Counted, AllCounted
  <2>7. QED
    BY <2>4, <2>5, <2>6 DEF Counted
<1>6. CASE Refill(t)
  <2>1. /\ UNCHANGED <<returned, completed, higher, used, marks>>
        /\ at[t] = "refill" /\ at'[t] = "bump"
        /\ \A u \in Drainers \ {t} : at'[u] = at[u] /\ hand'[u] = hand[u]
        /\ hand'[t] = NoPeriod /\ ring' = ring \cup {hand[t]}
        /\ number' = [number EXCEPT ![hand[t]] = next_capture] /\ hand[t] \in Periods
    BY <1>0, <1>6 DEF Refill, Submit, Holding
  <2>2. at["callback"] # "reset" <=> at'["callback"] # "reset"
    BY <2>1 DEF Drainers
  <2>3. OnTheRing' = OnTheRing \cup {hand[t]} /\ hand[t] # NoPeriod
    BY <1>0, <2>1 DEF OnTheRing
  <2>4. "reused" \notin marks => \A u \in Drainers \ {t} : hand[u] # NoPeriod =>
          hand[u] \in Periods /\ hand[u] # hand[t] /\ number'[hand[u]] = number[hand[u]]
    BY <1>0, <2>1, <2>3 DEF Counted, Handed
  <2>5. Handed'
    BY <1>0, <2>1, <2>3, <2>4 DEF Counted, Handed
  <2>6. NotAhead'
    BY <1>0, <2>1, <2>2 DEF Counted, NotAhead
  <2>7. Seen'
    BY <1>0, <2>1 DEF Counted, Seen
  <2>8. AllCounted'
    <3> SUFFICES ASSUME "reused" \notin marks, "crossed" \notin marks, at["callback"] # "reset",
                        completed # returned
                 PROVE  \E u \in Drainers : at'[u] \in {"look", "mark"}
                                              /\ returned = number'[hand'[u]] + 1
      BY <2>1, <2>2 DEF AllCounted
    <3>1. PICK u \in Drainers : at[u] \in {"look", "mark"} /\ returned = number[hand[u]] + 1
      BY <1>0 DEF Counted, AllCounted
    <3>2. u # t /\ hand[u] \in Periods /\ hand[u] # NoPeriod
      BY <1>0, <2>1, <3>1 DEF Holding
    <3>3. QED
      BY <2>1, <2>4, <3>1, <3>2
  <2>9. QED
    BY <2>5, <2>6, <2>7, <2>8 DEF Counted
<1>7. QED
  BY <1>1, <1>2, <1>3, <1>4, <1>5, <1>6

LEMMA CountedStep ==
  ASSUME IInv, IInv', CountsInv, ~Undefined, Steps PROVE Counted'
<1>0. /\ completed \in Nat /\ returned \in Nat /\ next_capture \in Nat
      /\ number \in [Periods -> Nat]
      /\ at \in [Threads -> CallbackPlaces \cup Working \cup {"queued"}]
      /\ back \in [Threads -> CallbackPlaces]
      /\ packet \in [Threads -> 0 .. MaxPackets]
      /\ Drainers \subseteq Threads /\ "callback" \in Drainers /\ MaxPackets \in Nat
      /\ Counted /\ CallbackAt
  BY AcxStreamAssumption DEF IInv, Types, Places, Drainers, Threads, CountsInv
<1>1. ASSUME UNCHANGED <<hand, number, returned, completed, higher, ring, used>>,
             at["callback"] \notin Holding \cup {"reset"},
             at'["callback"] \notin Holding \cup {"reset"},
             \A t \in Drainers \ {"callback"} : at'[t] = at[t],
             \A m \in {"reused", "crossed"} : m \in marks => m \in marks'
      PROVE  Counted'
  <2>1. OnTheRing' = OnTheRing
    BY <1>1 DEF OnTheRing
  <2>2. \A t \in Drainers : at[t] \in Holding \/ at'[t] \in Holding => at'[t] = at[t]
    BY <1>1
  <2>3. QED
    BY <1>0, <1>1, <2>1, <2>2, CountedAlike
<1> USE DEF Goes, Step, Returns, Calls, statusVars, memoryVars, ringVars, queueVars, countVars,
            readVars, localVars
<1>2. ASSUME NEW t \in Drainers,
             \/ Get(t) \/ GetNothing(t) \/ Look(t) \/ Mark(t)
             \/ Ask(t) \/ Refill(t) \/ RefillBusy(t) \/ Bump(t)
      PROVE  Counted'
  BY <1>2, CountedDrains
<1>3. ASSUME NEW t \in Threads, 
             \/ Claim(t) \/ ClaimNot(t) \/ Peek(t) \/ PeekNothing(t)
             \/ SubmitFails(t) \/ Pop(t) \/ Yield(t)
      PROVE  Counted'
  <2>1. UNCHANGED <<hand, number, returned, completed, higher, ring, used>>
    BY <1>3 DEF Claim, ClaimNot, Peek, PeekNothing, SubmitFails, Pop, Yield
  <2>2. \A m \in {"reused", "crossed"} : m \in marks => m \in marks'
    BY <1>3 DEF Claim, ClaimNot, Peek, PeekNothing, SubmitFails, Pop, Yield, Marked
  <2>3. /\ at[t] \in PumpPlaces /\ at'[t] \notin Holding \cup {"reset"}
        /\ \A u \in Threads \ {t} : at'[u] = at[u]
    <3>1. back[t] \notin Holding \cup {"reset"} \/ ~(ClaimNot(t) \/ Yield(t))
      BY <1>0 DEF ClaimNot, Yield, IInv, Places, CallbackAt, Threads, Working, PumpPlaces,
                  Holding, CallbackPlaces
    <3>2. CASE ClaimNot(t) \/ Yield(t)
      BY <1>0, <3>1, <3>2 DEF ClaimNot, Yield, PumpPlaces
    <3>3. CASE Claim(t) \/ Peek(t) \/ PeekNothing(t) \/ SubmitFails(t) \/ Pop(t)
      BY <1>0, <3>3 DEF Claim, Peek, PeekNothing, SubmitFails, Pop, PumpPlaces, Holding
    <3>4. QED
      BY <1>3, <3>2, <3>3
  <2>4. OnTheRing' = OnTheRing
    BY <2>1 DEF OnTheRing
  <2>5. \A u \in Drainers : at[u] \in Holding \/ at'[u] \in Holding => at'[u] = at[u]
    BY <1>0, <2>3 DEF Holding, PumpPlaces
  <2>6. at["callback"] = "reset" <=> at'["callback"] = "reset"
    BY <1>0, <2>3 DEF PumpPlaces
  <2>7. QED
    BY <1>0, <2>1, <2>2, <2>4, <2>5, <2>6, CountedAlike
<1>4. ASSUME NEW t \in Threads, SubmitRenderPacket(t) PROVE Counted'
  <2>1. /\ UNCHANGED <<hand, returned, completed, higher, used>> /\ ~capture
        /\ at[t] = "submit" /\ at' = [at EXCEPT ![t] = "pop"] /\ Free # {}
        /\ number' = [number EXCEPT ![First] = packet[t]] /\ ring' = ring \cup {First}
        /\ Marked("reused", InHand(First))
    BY <1>4 DEF SubmitRenderPacket, Submit, CountsInv, ByKind, PumpPlaces
  <2>2. First \in Periods /\ packet[t] \in Nat
    BY <1>0, <2>1, FirstIsFree DEF IInv, Types
  <2>3. OnTheRing' = OnTheRing \cup {First}
    BY <2>1 DEF OnTheRing
  <2>4. \A u \in Drainers : at[u] \in Holding \/ at'[u] \in Holding => at'[u] = at[u]
    BY <1>0, <2>1 DEF Holding
  <2>5. at["callback"] = "reset" <=> at'["callback"] = "reset"
    BY <1>0, <2>1
  <2>6. completed <= packet[t]
    BY <2>1 DEF CountsInv, Rendered, Behind
  <2>7. QED
    BY <1>0, <2>1, <2>2, <2>3, <2>4, <2>5, <2>6, CountedSubmit
<1>5. CASE FillPeriod
  <2>1. /\ UNCHANGED <<hand, returned, completed, higher, used, at>>
        /\ at["callback"] = "fill" /\ turn \in Periods
        /\ number' = [number EXCEPT ![turn] = next_capture] /\ ring' = ring \cup {turn}
        /\ Marked("reused", InHand(turn))
    BY <1>0, <1>5 DEF FillPeriod, Submit
  <2>2. OnTheRing' = OnTheRing \cup {turn}
    BY <2>1 DEF OnTheRing
  <2>3. ASSUME NEW t \in Drainers, at[t] = "mark" PROVE completed <= next_capture
    <3>1. \A u \in Drainers : at[u] # "bump"
      BY <2>1, <2>3 DEF Drainers
    <3>2. capture
      BY <2>1 DEF CountsInv, ByKind
    <3>3. QED
      BY <3>1, <3>2 DEF CountsInv, Captured, Behind
  <2>4. QED
    BY <1>0, <2>1, <2>2, <2>3, CountedSubmit
<1>6. CASE SetRenderPacket \/ SetRenderPacketPumps \/ InterruptDpc \/ DeviceReturns
  <2>1. UNCHANGED <<hand, number, returned, completed, higher>>
    BY <1>6 DEF SetRenderPacket, SetRenderPacketPumps, InterruptDpc, DeviceReturns
  <2>2. \A m \in {"reused", "crossed"} : m \in marks => m \in marks'
    BY <1>6 DEF SetRenderPacket, SetRenderPacketPumps, InterruptDpc, DeviceReturns, Marked
  <2>3. OnTheRing' \subseteq OnTheRing
    <3>1. CASE DeviceReturns
      <4>1. PICK p \in ring : ring' = ring \ {p} /\ used' = Append(used, p)
        BY <3>1 DEF DeviceReturns
      <4>2. periods
        BY <4>1 DEF Undefined, Stray, OnTheRing
      <4>3. used \in Seq(Periods) /\ p \in Periods /\ Distinct(used) /\ p \notin ToSet(used)
        BY <4>1, <4>2 DEF IInv, Types, Ring
      <4>4. ToSet(used') = ToSet(used) \cup {p}
        BY <4>1, <4>3, OneMore
      <4>5. QED
        BY <4>1, <4>4 DEF OnTheRing
    <3>2. CASE SetRenderPacket \/ SetRenderPacketPumps \/ InterruptDpc
      BY <3>2 DEF SetRenderPacket, SetRenderPacketPumps, InterruptDpc, OnTheRing
    <3>3. QED
      BY <1>6, <3>1, <3>2
  <2>4. /\ \A u \in Drainers : at[u] \in Holding \/ at'[u] \in Holding => at'[u] = at[u]
        /\ at["callback"] = at'["callback"]
    BY <1>0, <1>6 DEF SetRenderPacket, SetRenderPacketPumps, InterruptDpc, DeviceReturns, Holding,
                      Drainers, Threads
  <2>5. QED
    BY <1>0, <2>1, <2>2, <2>3, <2>4, CountedAlike
<1>7. CASE FreeRtPackets \/ AllocateRtPackets \/ Cleanup
  <2>1. FreeRtPacketStorage \/ Cleanup
    BY <1>7 DEF FreeRtPackets, AllocateRtPackets
  <2>2. UNCHANGED <<hand, number, returned, completed, higher, ring, used, at>>
    BY <2>1 DEF FreeRtPacketStorage, Cleanup, FreeStreamPeriods
  <2>3. \A m \in {"reused", "crossed"} : m \in marks => m \in marks'
    BY <2>1 DEF FreeRtPacketStorage, Cleanup, Marked, Forget
  <2>4. callback = "none"
    BY <2>1 DEF FreeRtPacketStorage, Cleanup
  <2>5. QED
    BY <1>0, <1>1, <2>2, <2>3, <2>4 DEF CallbackAt, Holding
<1>8. ASSUME NEW c \in {"prepare", "run"}, Configure(c) PROVE Counted'
  <2>1. /\ UNCHANGED <<hand, returned, completed, higher, ring, used>>
        /\ at["callback"] = "idle" /\ at' = [at EXCEPT !["callback"] = "params"]
    BY <1>8 DEF Configure
  <2>2. \A m \in {"reused", "crossed"} : m \in marks => m \in marks'
    BY <1>8 DEF Configure, Forget
  <2>3. /\ at'["callback"] = "params" /\ \A t \in Drainers \ {"callback"} : at'[t] = at[t]
    BY <1>0, <2>1
  <2>4. CASE periods
    <3>1. number' = number
      BY <1>8, <2>4 DEF Configure, PrepareStreamPeriods
    <3>2. QED
      BY <1>1, <2>1, <2>2, <2>3, <3>1 DEF Holding
  <2>5. CASE ~periods
    <3>1. \A t \in Drainers : hand[t] = NoPeriod /\ at[t] \notin Holding
      BY <2>5 DEF Undefined, Dangling, IInv, Hands, Holding
    <3>2. NotAhead'
      BY <1>0, <2>1, <2>2 DEF Counted, NotAhead
    <3>3. \/ "reused" \in marks' \/ "crossed" \in marks' \/ completed' = returned'
      BY <1>0, <2>1, <2>2, <3>1 DEF Counted, AllCounted, Holding
    <3>4. QED
      BY <2>1, <3>1, <3>2, <3>3, CountedIdle
  <2>6. QED
    BY <2>4, <2>5
<1>9. CASE SetParams \/ ConfigureFails \/ Run \/ FillNot \/ Start \/ StartFails
  <2>1. UNCHANGED <<hand, number, returned, completed, higher, ring, used, marks>>
    BY <1>9 DEF SetParams, ConfigureFails, Run, FillNot, Start, StartFails, FreeStreamPeriods
  <2>2. /\ at["callback"] \notin Holding \cup {"reset"}
        /\ at'["callback"] \notin Holding \cup {"reset"}
        /\ \A t \in Drainers \ {"callback"} : at'[t] = at[t]
    BY <1>0, <1>9 DEF SetParams, ConfigureFails, Run, FillNot, Start, StartFails, Holding
  <2>3. QED
    BY <1>1, <2>1, <2>2
<1>10. CASE Prepared
  <2>1. /\ UNCHANGED <<hand, number, completed, higher, ring, used>>
        /\ at["callback"] = "prepare" /\ at' = [at EXCEPT !["callback"] = "reset"]
        /\ returned' = IF hand["dpc"] = NoPeriod THEN 0 ELSE number[hand["dpc"]] + 1
        /\ IF hand["dpc"] = NoPeriod THEN Forget({"reused", "crossed"})
                                     ELSE Marked("crossed", TRUE)
    BY <1>10 DEF Prepared
  <2>2. at'["callback"] = "reset" /\ hand["callback"] = NoPeriod
    BY <1>0, <2>1 DEF IInv, Hands
  <2>3. NotAhead'
    BY <2>2 DEF NotAhead
  <2>4. CASE hand["dpc"] = NoPeriod
    <3>1. \A t \in Drainers : hand'[t] = NoPeriod
      BY <2>1, <2>2, <2>4 DEF Drainers
    <3>2. QED
      BY <2>2, <2>3, <3>1, CountedIdle
  <2>5. CASE hand["dpc"] # NoPeriod
    <3>1. marks' = marks \cup {"crossed"} /\ returned' = number[hand["dpc"]] + 1
      BY <2>1, <2>5 DEF Marked
    <3>2. OnTheRing' = OnTheRing /\ number[hand["dpc"]] \in Nat
      BY <1>0, <2>1, <2>5 DEF OnTheRing, IInv, Types, Drainers
    <3>3. Handed'
      BY <1>0, <2>1, <2>2, <3>1, <3>2 DEF Counted, Handed, Drainers
    <3>4. Seen' /\ AllCounted'
      BY <3>1 DEF Seen, AllCounted
    <3>5. QED
      BY <2>3, <3>3, <3>4 DEF Counted
  <2>6. QED
    BY <2>4, <2>5
<1>11. CASE Reset
  <2>1. /\ UNCHANGED <<hand, number, returned, higher, ring, used>> /\ completed' = 0
        /\ at["callback"] = "reset" /\ Marked("crossed", returned > 0 \/ hand["dpc"] # NoPeriod)
    BY <1>11 DEF Reset
  <2>2. at'["callback"] \in {"fill", "claim", "idle"} /\ hand["callback"] = NoPeriod
    BY <1>0, <1>11 DEF Reset, IInv, Hands
  <2>3. /\ "reused" \notin marks' => "reused" \notin marks
        /\ "crossed" \notin marks' => returned <= 0 /\ hand["dpc"] = NoPeriod
    BY <1>0, <2>1 DEF Marked
  <2>4. OnTheRing' = OnTheRing
    BY <2>1 DEF OnTheRing
  <2>5. Handed' /\ NotAhead'
    BY <1>0, <2>1, <2>3, <2>4 DEF Counted, Handed, NotAhead
  <2>6. "crossed" \notin marks' => \A t \in Drainers : at'[t] \notin Holding
    BY <2>1, <2>2, <2>3 DEF IInv, Hands, Drainers, Holding
  <2>7. Seen' /\ AllCounted'
    BY <1>0, <2>1, <2>3, <2>6 DEF Seen, AllCounted, Holding
  <2>8. QED
    BY <2>5, <2>7 DEF Counted
<1>12. CASE ClearRenderQueue \/ Release \/ CheckAgain \/ Stopped \/ Done
  <2>1. UNCHANGED <<hand, number, returned, completed, higher, ring, used>>
    BY <1>12 DEF ClearRenderQueue, Release, CheckAgain, Stopped, Done, FreeStreamPeriods
  <2>2. \A m \in {"reused", "crossed"} : m \in marks => m \in marks'
    BY <1>12 DEF ClearRenderQueue, Release, CheckAgain, Stopped, Done, Marked
  <2>3. /\ at["callback"] \notin Holding \cup {"reset"}
        /\ at'["callback"] \notin Holding \cup {"reset"}
        /\ \A t \in Drainers \ {"callback"} : at'[t] = at[t]
    BY <1>0, <1>12 DEF ClearRenderQueue, Release, CheckAgain, Stopped, Done, Holding
  <2>4. QED
    BY <1>1, <2>1, <2>2, <2>3
<1>13. ASSUME NEW c \in {"pause", "release"}, Stop(c) PROVE Counted'
  <2>1. UNCHANGED <<hand, number, returned, completed, higher, ring, used, marks>>
    BY <1>13 DEF Stop
  <2>2. /\ at["callback"] \notin Holding \cup {"reset"}
        /\ at'["callback"] \notin Holding \cup {"reset"}
        /\ \A t \in Drainers \ {"callback"} : at'[t] = at[t]
    BY <1>0, <1>13 DEF Stop, Holding
  <2>3. QED
    BY <1>1, <2>1, <2>2
<1>14. CASE CreateStream
  <2>1. completed' = 0 /\ returned' = 0 /\ UNCHANGED hand /\ ~periods
    BY <1>14 DEF CreateStream, IInv, Status
  <2>2. \A t \in Drainers : hand'[t] = NoPeriod
    BY <2>1 DEF Undefined, Dangling
  <2>3. QED
    BY <2>1, <2>2, CountedIdle DEF NotAhead
<1>15. QED
  BY <1>2, <1>3, <1>4, <1>5, <1>6, <1>7, <1>8, <1>9, <1>10, <1>11, <1>12, <1>13, <1>14
  DEF Steps, Drain, Pump, CallbackNext

LEMMA InitCounts == ASSUME Init PROVE CountsInv
<1>1. /\ \A t \in Threads : at[t] = "idle"
      /\ \A t \in Drainers : hand[t] = NoPeriod /\ at[t] = "idle"
  BY DEF Init, Drainers, Threads
<1>2. \A p \in Periods : ~Out(p)
  BY <1>1, EmptySeq DEF Init, Out, OnTheRing, InHand, ToSet, Periods, NoPeriod
<1>3. ByKind
  BY <1>1 DEF ByKind, PumpPlaces, Threads, Drainers
<1>4. Len(ready) = 0 /\ given = 0 /\ completed = 0 /\ next_capture = 0 /\ returned = 0
  BY EmptySeq DEF Init
<1>5. Behind(0) /\ Behind(0 - 0) /\ \A t \in Drainers : at[t] # "bump"
  BY <1>1, <1>2, <1>4 DEF Behind
<1>6. Captured
  BY <1>2, <1>4, <1>5 DEF Captured
<1>7. Rendered
  BY <1>1, <1>4, <1>5 DEF Rendered
<1>8. Counted
  BY <1>1, <1>4 DEF Counted, Handed, NotAhead, Seen, AllCounted
<1>9. QED
  BY <1>3, <1>6, <1>7, <1>8 DEF CountsInv

LEMMA StepCounts ==
  ASSUME IInv, CountsInv, [Next]_vars PROVE CountsInv'
<1>1. CASE ~Undefined /\ Steps
  <2>1. IInv'
    BY StepInv
  <2>2. ByKind'
    BY <1>1, ByKindStep DEF CountsInv
  <2>3. Captured' /\ Rendered'
    BY <1>1, <2>2, CapturedStep, RenderedStep DEF CountsInv
  <2>4. Counted'
    BY <1>1, <2>1, CountedStep
  <2>5. QED
    BY <2>2, <2>3, <2>4 DEF CountsInv
<1>2. CASE UNCHANGED vars
  <2>1. /\ UNCHANGED <<capture, periods, prepared, callback, at, completed, number, ready, given>>
        /\ UNCHANGED <<next_capture, returned, hand, packet, higher, marks, ring, used>>
    BY <1>2 DEF vars, statusVars, memoryVars, ringVars, queueVars, countVars, readVars, localVars
  <2>2. /\ Popping' = Popping /\ OnTheRing' = OnTheRing
        /\ \A p \in Periods : Out(p)' <=> Out(p)
    BY <2>1 DEF Popping, OnTheRing, Out, InHand
  <2>3. ByKind' /\ Captured'
    BY <2>1, <2>2 DEF CountsInv, ByKind, Captured, Behind
  <2>4. Rendered'
    BY <2>1, <2>2 DEF CountsInv, Rendered, Behind
  <2>5. Counted'
    BY <2>1, <2>2 DEF CountsInv, Counted, Handed, NotAhead, Seen, AllCounted
  <2>6. QED
    BY <2>3, <2>4, <2>5 DEF CountsInv
<1>3. QED
  BY <1>1, <1>2 DEF Next, Steps

LEMMA CountsInvariance == Spec => [](IInv /\ CountsInv)
<1>1. Init => IInv /\ CountsInv
  BY InitInv, InitCounts
<1>2. IInv /\ CountsInv /\ [Next]_vars => (IInv /\ CountsInv)'
  BY StepInv, StepCounts
<1>3. QED
  BY <1>1, <1>2, PTL DEF Spec

(* PacketsCompleted, which ViosndEvtStreamGetCurrentPacket tells a client  *)
(* and of which the presentation position is made, never counts a packet   *)
(* the device has not given back, unless a period is submitted again while *)
(* it is read out; and at rest it counts all of them, unless two threads   *)
(* were in ViosndDrainRenderQueue or ViosndDrainCaptureQueue at a time.    *)
THEOREM CountHolds == Spec => []CountInv
<1>1. IInv /\ CountsInv => CountInv
  <2> SUFFICES ASSUME IInv, CountsInv, "reused" \notin marks, at["callback"] # "reset"
               PROVE  /\ completed <= returned
                      /\ ("crossed" \notin marks /\ \A t \in Drainers : hand[t] = NoPeriod)
                           => completed = returned
    BY DEF CountInv
  <2>1. completed <= returned
    BY DEF CountsInv, Counted, NotAhead
  <2>2. ASSUME "crossed" \notin marks, \A t \in Drainers : hand[t] = NoPeriod
        PROVE  completed = returned
    BY <2>2 DEF CountsInv, Counted, AllCounted, IInv, Hands
  <2>3. QED
    BY <2>1, <2>2
<1>2. QED
  BY <1>1, CountsInvariance, PTL

(* Only a drain's count, the reset of a stream that is being prepared and  *)
(* the creation of another stream touch PacketsCompleted.                  *)
LEMMA ForwardStep ==
  ASSUME IInv, CountsInv, [Next]_vars, prepared, prepared', "crossed" \notin marks,
         at["callback"] # "reset"
  PROVE  completed' >= completed
<1> USE DEF statusVars, memoryVars, ringVars, queueVars, countVars, readVars, localVars
<1>0. completed \in Nat
  BY DEF IInv, Types
<1>1. CASE completed' = completed
  BY <1>0, <1>1
<1>2. ASSUME NEW t \in Drainers, Mark(t) PROVE completed' >= completed
  <2>1. /\ at[t] = "mark"
        /\ completed' = IF higher[t] THEN number[hand[t]] + 1 ELSE completed
    BY <1>2 DEF Mark, Goes
  <2>2. higher[t] => number[hand[t]] + 1 > completed
    BY <2>1 DEF CountsInv, Counted, Seen
  <2>3. number[hand[t]] \in Nat
    BY <2>1 DEF IInv, Types, Hands
  <2>4. QED
    BY <1>0, <2>1, <2>2, <2>3
<1>3. CASE CallbackNext
  <2>1. completed' = completed \/ Reset \/ CreateStream
    BY <1>3 DEF CallbackNext, FreeRtPackets, AllocateRtPackets, FreeRtPacketStorage, Configure,
       SetParams, Prepared, ConfigureFails, Run, FillPeriod, FillNot, Start, StartFails, Stop,
       ClearRenderQueue, Release, CheckAgain, Stopped, Done, Cleanup
  <2>2. ~Reset /\ ~CreateStream
    BY DEF Reset, CreateStream
  <2>3. QED
    BY <1>0, <2>1, <2>2
<1>4. CASE Drain
  <2>1. completed' = completed \/ \E t \in Drainers : Mark(t)
    BY <1>4 DEF Drain, Get, GetNothing, Look, Ask, Refill, RefillBusy, Bump
  <2>2. QED
    BY <1>0, <1>2, <2>1
<1>5. CASE Pump
  <2>1. PICK t \in Threads :
          \/ Claim(t) \/ ClaimNot(t) \/ Peek(t) \/ PeekNothing(t)
          \/ SubmitRenderPacket(t) \/ SubmitFails(t) \/ Pop(t) \/ Yield(t)
    BY <1>5, Zenon DEF Pump
  <2>2. UNCHANGED completed
    BY <2>1 DEF Claim, ClaimNot, Peek, PeekNothing, SubmitRenderPacket, SubmitFails, Pop, Yield
  <2>3. QED
    BY <1>0, <2>2
<1>6. CASE SetRenderPacket \/ SetRenderPacketPumps \/ InterruptDpc \/ DeviceReturns
  BY <1>0, <1>6 DEF SetRenderPacket, SetRenderPacketPumps, InterruptDpc, DeviceReturns
<1>7. CASE UNCHANGED vars
  BY <1>0, <1>7 DEF vars
<1>8. QED
  BY <1>3, <1>4, <1>5, <1>6, <1>7 DEF Next

(* PacketsCompleted never goes back while a stream is prepared, from its   *)
(* reset in ViosndConfigurePcmStream on: a drain writes what it compared   *)
(* before, and no thread wrote in between unless two of them drained at a  *)
(* time.                                                                   *)
THEOREM ForwardHolds == Spec => OnlyForward
<1>1. IInv /\ CountsInv /\ [Next]_vars =>
        [prepared /\ prepared' /\ "crossed" \notin marks /\ at["callback"] # "reset"
           => completed' >= completed]_vars
  BY ForwardStep
<1>2. QED
  BY <1>1, CountsInvariance, PTL DEF Spec, OnlyForward
====

------------------------ MODULE StreamPackets_proofs ------------------------
(***************************************************************************)
(* The numbered packets of the streams, for every size of the buffer, of   *)
(* the packet number and of the pools, and every order of the steps of the *)
(* two threads that share the numbers without a lock.                      *)
(*                                                                         *)
(* Capture: the ready packets, whatever the order of the accesses that     *)
(* GetReadPacket and the worker make.  One completion out of the port's    *)
(* way puts the window right, and until the next meeting what is given is  *)
(* in the buffer, and given once, in order.  The numbers wrap, so the      *)
(* invariant (IInv) speaks of the packets themselves: of k, the first that *)
(* was not captured, which is found again from any number by the           *)
(* distances.  While the two have not met since a completion (met), what   *)
(* each has in its registers agrees with the window (Counts), and the last *)
(* packet given is before it (Given).  While they have, only number and    *)
(* buffer are right (Captured, Kept), which is all that the next           *)
(* completion needs.                                                       *)
(*                                                                         *)
(* Render: what SetWritePacket and the worker make of the numbers.  Until  *)
(* they are mixed up (astray) they do not wrap, and the invariant          *)
(* (PacketsIInv) compares them as integers, which LessOrEqual does as long *)
(* as they are not half a turn apart; that they are not is a part of it    *)
(* (Bounded).  Only the count of packets played may wrap, when the client  *)
(* begins to write after the circle: Ahead speaks of it without its wrap.  *)
(* What the worker is about to submit (Chosen) was read some steps ago,    *)
(* and must still be the next packet, and written.                         *)
(***************************************************************************)
EXTENDS CaptureWindow, RenderPackets, FiniteSetTheorems, SequenceTheorems, TLAPS

LEMMA Constants ==
  /\ Modulus \in Nat \ {0} /\ N \in Nat \ {0} /\ N < Modulus
BY PacketNumbersAssumption

-----------------------------------------------------------------------------
(* Remainders: quotient and remainder, which are unique; a multiple is not *)
(* close to zero.                                                          *)
LEMMA Division ==
  ASSUME NEW d \in Nat \ {0}, NEW a \in Nat
  PROVE  a % d \in 0 .. d - 1 /\ \E q \in Nat : a = d * q + (a % d)
<1>1. a % d \in 0 .. d - 1 /\ a \div d \in Nat
  OBVIOUS
<1>2. a = d * (a \div d) + (a % d)
  OBVIOUS
<1>3. QED
  BY <1>1, <1>2

LEMMA NoMultiple ==
  ASSUME NEW d \in Nat \ {0}, NEW t \in Int, d * t < d
  PROVE  t <= 0
  OBVIOUS

LEMMA Remainder ==
  ASSUME NEW d \in Nat \ {0}, NEW a \in Nat, NEW q \in Int, NEW r \in 0 .. d - 1,
         a = d * q + r
  PROVE  a % d = r
<1> DEFINE e == a % d
<1>1. PICK s \in Nat : a = d * s + e
  BY Division
<1>2. e \in 0 .. d - 1
  BY Division
<1> HIDE DEF e
<1>3. /\ d * (q - s) = e - r
      /\ d * (s - q) = r - e
  <2>1. d * (q - s) = d * q - d * s /\ d * (s - q) = d * s - d * q
    OBVIOUS
  <2>2. d * q \in Int /\ d * s \in Int
    OBVIOUS
  <2>3. QED
    BY <1>1, <1>2, <2>1, <2>2
<1>4. q - s <= 0 /\ s - q <= 0
  <2>1. d * (q - s) < d /\ q - s \in Int
    BY <1>2, <1>3
  <2>2. d * (s - q) < d /\ s - q \in Int
    BY <1>2, <1>3
  <2>3. QED
    BY <2>1, <2>2, NoMultiple
<1>5. q = s
  BY <1>4
<1>6. e = r
  BY <1>2, <1>3, <1>5
<1>7. QED
  BY <1>6 DEF e

-----------------------------------------------------------------------------
(* Packet numbers: what wraps where, and the difference of two of them.    *)
LEMMA Wrapped == \A a \in Nat : Wrap(a) \in Numbers
  BY Constants, Division DEF Wrap, Numbers

LEMMA WrapSmall ==
  /\ \A a \in Numbers : Wrap(a) = a
  /\ \A a \in Modulus .. 2 * Modulus - 1 : Wrap(a) = a - Modulus
<1>1. ASSUME NEW a \in Numbers PROVE Wrap(a) = a
  <2>1. a = Modulus * 0 + a
    BY Constants DEF Numbers
  <2>2. QED
    BY <2>1, Constants, Remainder DEF Wrap, Numbers
<1>2. ASSUME NEW a \in Modulus .. 2 * Modulus - 1 PROVE Wrap(a) = a - Modulus
  <2>1. a = Modulus * 1 + (a - Modulus)
    BY Constants
  <2>2. a \in Nat /\ a - Modulus \in 0 .. Modulus - 1 /\ 1 \in Int
    BY Constants
  <2>3. QED
    BY <2>1, <2>2, Constants, Remainder DEF Wrap
<1>3. QED
  BY <1>1, <1>2

Difference(m, n) == IF n <= m THEN m - n ELSE m + Modulus - n

LEMMA MinusIsDifference ==
  \A m, n \in Numbers : Minus(m, n) = Difference(m, n) /\ Minus(m, n) \in Numbers
<1> SUFFICES ASSUME NEW m \in Numbers, NEW n \in Numbers
             PROVE  Minus(m, n) = Difference(m, n) /\ Difference(m, n) \in Numbers
  OBVIOUS
<1>1. Minus(m, n) = Wrap(m + Modulus - n)
  BY DEF Minus, Wrap
<1>2. CASE n <= m
  <2>1. m + Modulus - n \in Modulus .. 2 * Modulus - 1
    BY <1>2, Constants DEF Numbers
  <2>2. QED
    BY <1>1, <1>2, <2>1, WrapSmall, Constants DEF Difference, Numbers
<1>3. CASE ~(n <= m)
  <2>1. m + Modulus - n \in Numbers
    BY <1>3, Constants DEF Numbers
  <2>2. QED
    BY <1>1, <1>3, <2>1, WrapSmall, Constants DEF Difference, Numbers
<1>4. QED
  BY <1>2, <1>3

LEMMA WrapPlusOne ==
  \A p \in Numbers : Wrap(p + 1) = (IF p = Modulus - 1 THEN 0 ELSE p + 1)
  BY Constants, WrapSmall DEF Numbers

LEMMA WrapNext == \A a \in Nat : Wrap(Wrap(a) + 1) = Wrap(a + 1)
<1> SUFFICES ASSUME NEW a \in Nat PROVE Wrap(Wrap(a) + 1) = Wrap(a + 1)
  OBVIOUS
<1>1. PICK q \in Nat : a = Modulus * q + Wrap(a)
  BY Constants, Division DEF Wrap
<1>2. Wrap(a) \in Numbers
  BY Wrapped
<1>3. CASE Wrap(a) = Modulus - 1
  <2>1. Modulus * (q + 1) = Modulus * q + Modulus
    BY Constants
  <2>2. a + 1 = Modulus * (q + 1) + 0
    BY <1>1, <1>3, <2>1, Constants
  <2>3. Wrap(a + 1) = 0
    <3>1. a + 1 \in Nat /\ q + 1 \in Int /\ 0 \in 0 .. Modulus - 1
      BY Constants
    <3>2. QED
      BY <2>2, <3>1, Constants, Remainder DEF Wrap
  <2>4. QED
    BY <1>2, <1>3, <2>3, WrapPlusOne
<1>4. CASE Wrap(a) # Modulus - 1
  <2>1. a + 1 = Modulus * q + (Wrap(a) + 1) /\ Wrap(a) + 1 \in 0 .. Modulus - 1
    BY <1>1, <1>2, <1>4, Constants DEF Numbers
  <2>2. Wrap(a + 1) = Wrap(a) + 1
    <3>1. a + 1 \in Nat /\ q \in Int
      OBVIOUS
    <3>2. QED
      BY <2>1, <3>1, Constants, Remainder DEF Wrap
  <2>3. QED
    BY <1>2, <1>4, <2>2, WrapPlusOne
<1>5. QED
  BY <1>3, <1>4

(* A packet is taken from a window that is not empty.                      *)
LEMMA MinusNext ==
  ASSUME NEW m \in Numbers, NEW p \in Numbers, Minus(m, p) # 0
  PROVE  Minus(m, Wrap(p + 1)) = Minus(m, p) - 1
<1>1. Wrap(p + 1) \in Numbers
  BY Wrapped DEF Numbers
<1>2. /\ Minus(m, p) = Difference(m, p)
      /\ Minus(m, Wrap(p + 1)) = Difference(m, Wrap(p + 1))
  BY <1>1, MinusIsDifference
<1>3. CASE p = Modulus - 1
  <2>1. Wrap(p + 1) = 0
    BY <1>3, WrapPlusOne
  <2>2. QED
    BY <1>2, <1>3, <2>1, Constants DEF Difference, Numbers
<1>4. CASE p # Modulus - 1
  <2>1. Wrap(p + 1) = p + 1
    BY <1>4, WrapPlusOne
  <2>2. QED
    BY <1>2, <1>4, <2>1, Constants DEF Difference, Numbers
<1>5. QED
  BY <1>3, <1>4

(* An addition after a wrap.                                               *)
LEMMA WrapAdd ==
  ASSUME NEW a \in Nat, NEW k \in Nat
  PROVE  Wrap(Wrap(a) + k) = Wrap(a + k)
<1>1. PICK q \in Nat : a = Modulus * q + Wrap(a)
  BY Constants, Division DEF Wrap
<1>2. Wrap(a) \in Nat
  BY Wrapped DEF Numbers
<1> DEFINE r == Wrap(Wrap(a) + k)
<1>3. PICK s \in Nat : Wrap(a) + k = Modulus * s + r
  <2> DEFINE x == Wrap(a) + k
  <2>1. x \in Nat
    BY <1>2
  <2> HIDE DEF x
  <2>2. \E s \in Nat : x = Modulus * s + (x % Modulus)
    BY <2>1, Constants, Division
  <2>3. QED
    BY <2>2 DEF x, Wrap
<1>4. r \in 0 .. Modulus - 1
  BY <1>2, Wrapped DEF Numbers
<1> HIDE DEF r
<1>5. Modulus * (q + s) = Modulus * q + Modulus * s
  BY Constants
<1>6. a + k = Modulus * (q + s) + r
  <2>1. Modulus * q \in Nat /\ Modulus * s \in Nat
    BY Constants
  <2>2. QED
    BY <1>1, <1>2, <1>3, <1>4, <1>5, <2>1
<1>7. Wrap(a + k) = r
  <2>1. a + k \in Nat /\ q + s \in Int
    OBVIOUS
  <2>2. QED
    BY <1>4, <1>6, <2>1, Constants, Remainder DEF Wrap
<1>8. QED
  BY <1>7 DEF r

-----------------------------------------------------------------------------
(* A capture stream.                                                       *)
(* The place of a packet in the audio buffer goes on where it was when the *)
(* number wraps.                                                           *)
Divides == Modulus % N = 0
(* Fewer reads fail than there are numbers beyond a buffer: for 32 bits, some *)
(* four thousand million.                                                  *)
FewFail == MaxFailed + N <= Modulus

LEMMA CaptureConstants ==
  /\ Target \in Nat /\ Target <= N
  /\ MaxPackets \in Nat /\ MaxFailed \in Nat
BY CaptureWindowAssumption, Constants

(* Going back from packet k by as much as its number is ahead of p leads to a *)
(* packet with the number p, if there is one ...                           *)
LEMMA Turns ==
  ASSUME NEW k \in Nat, NEW p \in Numbers
  PROVE  \E t \in Int : k - Minus(Wrap(k), p) = Modulus * t + p
<1>1. PICK q \in Nat : k = Modulus * q + Wrap(k)
  BY Constants, Division DEF Wrap
<1>2. Wrap(k) \in Numbers /\ Minus(Wrap(k), p) = Difference(Wrap(k), p)
  BY Wrapped, MinusIsDifference
<1>3. Modulus * (q - 1) = Modulus * q - Modulus /\ Modulus * q \in Int
  BY Constants
<1>4. \/ k - Minus(Wrap(k), p) = Modulus * q + p
      \/ k - Minus(Wrap(k), p) = Modulus * (q - 1) + p
  BY <1>1, <1>2, <1>3, Constants DEF Difference, Numbers
<1>5. q \in Int /\ q - 1 \in Int
  OBVIOUS
<1>6. QED
  BY <1>4, <1>5

(* ... so that a later packet is ahead by no more than the packets between. *)
LEMMA FartherBack ==
  ASSUME NEW k \in Nat, NEW l \in Nat, k <= l, NEW p \in Numbers
  PROVE  Minus(Wrap(l), p) <= Minus(Wrap(k), p) + (l - k)
<1>1. PICK t \in Int : k - Minus(Wrap(k), p) = Modulus * t + p
  BY Turns
<1>2. PICK u \in Int : l - Minus(Wrap(l), p) = Modulus * u + p
  BY Turns
<1>3. Minus(Wrap(k), p) \in Numbers /\ Minus(Wrap(l), p) \in Numbers
  BY Wrapped, MinusIsDifference
<1>4. Modulus * (t - u) = (k - Minus(Wrap(k), p)) - (l - Minus(Wrap(l), p))
  <2>1. Modulus * (t - u) = Modulus * t - Modulus * u
    BY Constants
  <2>2. Modulus * t \in Int /\ Modulus * u \in Int
    BY Constants
  <2>3. QED
    BY <1>1, <1>2, <1>3, <2>1, <2>2 DEF Numbers
<1>5. Modulus * (t - u) < Modulus
  <2>1. (k - Minus(Wrap(k), p)) - (l - Minus(Wrap(l), p)) < Modulus
    BY <1>3, Constants DEF Numbers
  <2>2. QED
    BY <1>4, <2>1
<1>6. t - u <= 0
  BY <1>5, Constants, NoMultiple
<1>7. Modulus * (t - u) <= 0
  BY <1>6, Constants
<1>8. QED
  BY <1>3, <1>4, <1>7 DEF Numbers

LEMMA Ago ==
  ASSUME NEW k \in Nat, NEW p \in Numbers, Minus(Wrap(k), p) <= k
  PROVE  Wrap(k - Minus(Wrap(k), p)) = p
<1>1. PICK t \in Int : k - Minus(Wrap(k), p) = Modulus * t + p
  BY Turns
<1>2. k - Minus(Wrap(k), p) \in Nat
  <2>1. Minus(Wrap(k), p) \in Numbers
    BY Wrapped, MinusIsDifference
  <2>2. QED
    BY <2>1 DEF Numbers
<1>3. QED
  BY <1>1, <1>2, Constants, Remainder DEF Wrap, Numbers

(* Any other packet with that number is a whole turn away.                 *)
LEMMA SameNumber ==
  ASSUME NEW k \in Nat, NEW p \in Numbers, NEW a \in Nat, Wrap(a) = p
  PROVE  LET x == k - Minus(Wrap(k), p)
         IN  a = x \/ a >= x + Modulus \/ a <= x - Modulus
<1> DEFINE x == k - Minus(Wrap(k), p)
<1>1. PICK t \in Int : x = Modulus * t + p
  BY Turns
<1>2. PICK q \in Nat : a = Modulus * q + p
  BY Constants, Division DEF Wrap
<1>3. x \in Int /\ p \in Int
  BY Wrapped, MinusIsDifference DEF Numbers
<1> HIDE DEF x
<1>4. a - x = Modulus * (q - t)
  <2>1. Modulus * (q - t) = Modulus * q - Modulus * t
    BY Constants
  <2>2. Modulus * q \in Int /\ Modulus * t \in Int
    BY Constants
  <2>3. QED
    BY <1>1, <1>2, <1>3, <2>1, <2>2
<1>5. CASE q = t
  BY <1>3, <1>4, <1>5, Constants DEF x
<1>6. CASE q > t
  <2>1. Modulus * (q - t) >= Modulus
    BY <1>6, Constants
  <2>2. QED
    BY <1>3, <1>4, <2>1, Constants DEF x
<1>7. CASE q < t
  <2>1. Modulus * (q - t) <= 0 - Modulus
    BY <1>7, Constants
  <2>2. QED
    BY <1>3, <1>4, <2>1, Constants DEF x
<1>8. QED
  BY <1>5, <1>6, <1>7

(* Among the first c packets there is a last one with the number of x.     *)
LEMMA Newest ==
  ASSUME NEW c \in Nat, NEW x \in 0 .. c - 1
  PROVE  \E a \in 0 .. c - 1 : a >= x /\ Wrap(a) = Wrap(x) /\ a + Modulus \notin 0 .. c - 1
<1> DEFINE p == Wrap(x)
           d == Minus(Wrap(c - 1), p)
           a == c - 1 - d
<1>1. c - 1 \in Nat /\ x \in Nat
  OBVIOUS
<1>2. p \in Numbers /\ d \in Numbers
  BY <1>1, Wrapped, MinusIsDifference
<1>3. x = a \/ x >= a + Modulus \/ x <= a - Modulus
  BY <1>1, <1>2, SameNumber
<1>4. x <= a
  <2> HIDE DEF d
  <2>1. QED
    BY <1>2, <1>3, Constants DEF Numbers
<1>5. Wrap(a) = p
  <2>1. d <= c - 1
    <3> HIDE DEF d
    <3>1. QED
      BY <1>2, <1>4 DEF Numbers
  <2>2. QED
    BY <1>1, <1>2, <2>1, Ago
<1> HIDE DEF d
<1>6. a \in 0 .. c - 1 /\ a + Modulus \notin 0 .. c - 1
  BY <1>2, <1>4, Constants DEF Numbers
<1>7. QED
  BY <1>4, <1>5, <1>6

(* The slot of a number is that of its packet, and packets that are less than *)
(* a buffer apart are in different slots.                                  *)
LEMMA SlotOf ==
  ASSUME Divides, NEW a \in Nat
  PROVE  Wrap(a) % N = a % N
<1>1. PICK h \in Nat : Modulus = N * h
  <2>1. PICK h \in Nat : Modulus = N * h + (Modulus % N)
    BY Constants, Division
  <2>2. Modulus % N = 0
    BY DEF Divides
  <2>3. N * h \in Nat
    BY Constants
  <2>4. N * h + 0 = N * h
    BY <2>3
  <2>5. Modulus = N * h
    BY <2>1, <2>2, <2>4
  <2>6. QED
    BY <2>5
<1>2. PICK q \in Nat : a = Modulus * q + Wrap(a)
  BY Constants, Division DEF Wrap
<1>3. Wrap(a) \in Nat
  BY Wrapped DEF Numbers
<1>4. PICK s \in Nat : Wrap(a) = N * s + (Wrap(a) % N)
  BY <1>3, Constants, Division
<1>5. Wrap(a) % N \in 0 .. N - 1
  BY <1>3, Constants, Division
<1>6. a = N * (h * q + s) + (Wrap(a) % N)
  <2>1. N * (h * q + s) = (N * h) * q + N * s
    BY Constants
  <2>2. Modulus * q = (N * h) * q
    BY <1>1
  <2>3. Modulus * q \in Int /\ N * s \in Int
    BY Constants
  <2>4. QED
    BY <1>2, <1>4, <1>5, <2>1, <2>2, <2>3
<1>7. h * q + s \in Int
  OBVIOUS
<1>8. QED
  BY <1>5, <1>6, <1>7, Constants, Remainder

LEMMA SlotsApart ==
  ASSUME NEW a \in Nat, NEW b \in Nat, a < b, b < a + N
  PROVE  a % N # b % N
<1> SUFFICES ASSUME a % N = b % N PROVE FALSE
  OBVIOUS
<1>1. PICK q \in Nat : a = N * q + (a % N)
  BY Constants, Division
<1>2. PICK s \in Nat : b = N * s + (a % N)
  BY Constants, Division
<1>3. a % N \in 0 .. N - 1
  BY Constants, Division
<1>4. N * (s - q) = b - a
  <2>1. N * (s - q) = N * s - N * q
    BY Constants
  <2>2. N * s \in Int /\ N * q \in Int
    BY Constants
  <2>3. QED
    BY <1>1, <1>2, <1>3, <2>1, <2>2
<1>5. s - q <= 0
  BY <1>4, Constants, NoMultiple
<1>6. N * (s - q) <= 0
  BY <1>5, Constants
<1>7. QED
  BY <1>4, <1>6

-----------------------------------------------------------------------------
(* The inductive invariant.  Where the two threads are, with their registers. *)
Workers == [at : {"idle", "load"}] \cup [at : {"store"}, ready : Numbers]
             \cup [at : {"drop"}, dropped : Numbers] \cup [at : {"skip"}, next : Numbers]

Ports == [at : {"idle", "load"}] \cup [at : {"advance", "count"}, packet : Numbers]
           \cup [at : {"give"}, packet : Numbers, ready : Numbers]

Types ==
  /\ submitted \in 0 .. MaxPackets
  /\ flying \in Seq(0 .. MaxPackets - 1) /\ Len(flying) <= Target
  /\ failed \subseteq 0 .. MaxPackets - 1 /\ Cardinality(failed) <= MaxFailed
  /\ slots \in [0 .. N - 1 -> 0 .. MaxPackets]
  /\ number \in Numbers /\ next \in Numbers /\ ready \in Numbers
  /\ worker \in Workers /\ port \in Ports
  /\ met \in BOOLEAN /\ handed \in 0 .. MaxPackets

(* The reads that have ended come before those in flight.                  *)
Ended == submitted - Len(flying)

InOrder ==
  /\ Len(flying) <= submitted
  /\ \A i \in 1 .. Len(flying) : flying[i] = Ended + i - 1

(* Whoever finds the other at work knows of it, and what was given before is *)
(* forgotten by the end of the call.                                       *)
Meetings ==
  /\ met = FALSE => worker = Idle \/ port = Idle
  /\ met = TRUE /\ port = Idle => handed = Nothing

(* The packets that are ready, if the two did not meet: what each of them has *)
(* in its registers agrees with the two numbers.                           *)
Window == Minus(number, next)

Counts ==
  met = FALSE =>
    /\ worker = Idle /\ port.at \in {"idle", "load"} => ready = Window /\ ready <= N
    /\ port.at = "load" => ready # 0
    /\ port.at \in {"advance", "count", "give"} =>
         ready = Minus(number, port.packet) /\ ready \in 1 .. N
    /\ port.at = "advance" => next = port.packet
    /\ port.at \in {"count", "give"} => next = Wrap(port.packet + 1)
    /\ port.at = "give" => port.ready = ready - 1
    /\ worker.at = "store" => worker.ready = Window
    /\ worker.at = "drop" => worker.dropped = Window - N /\ Window > N
    /\ worker.at = "skip" => Minus(number, worker.next) = N /\ Window > N

(* How far the next packet to be given is behind the newest.               *)
Behind == IF port.at \in {"count", "give"} THEN Minus(number, port.packet) ELSE Window

(* The packet captured last is k - 1: what ended since has failed ...      *)
Captured(k) ==
  /\ k <= Ended
  /\ \A a \in k .. Ended - 1 : a \in failed
  /\ number = Wrap(k)

(* ... its buffer is there ...                                             *)
Kept(k) ==
  Divides => \A a \in 0 .. k - 1 : k <= a + N => a \in failed \/ slots[a % N] = a

(* ... and what was given is older than anything that is going to be.      *)
Given(k) ==
  FewFail /\ met = FALSE /\ handed # Nothing => handed + Behind < k

History(k) == Captured(k) /\ Kept(k) /\ Given(k)

IInv == /\ Types /\ InOrder /\ Meetings /\ Counts
        /\ \E k \in Nat : History(k)

(* What a place says of the registers.                                     *)
LEMMA WorkerPlaces ==
  ASSUME worker \in Workers
  PROVE  /\ worker.at \in {"idle", "load", "store", "drop", "skip"}
         /\ worker = Idle <=> worker.at = "idle"
         /\ worker.at = "store" => worker.ready \in Numbers
         /\ worker.at = "drop" => worker.dropped \in Numbers
         /\ worker.at = "skip" => worker.next \in Numbers
  BY DEF Workers, Idle

LEMMA PortPlaces ==
  ASSUME port \in Ports
  PROVE  /\ port.at \in {"idle", "load", "advance", "count", "give"}
         /\ port = Idle <=> port.at = "idle"
         /\ port.at \in {"advance", "count", "give"} => port.packet \in Numbers
         /\ port.at = "give" => port.ready \in Numbers
  BY DEF Ports, Idle

LEMMA EndedNatural ==
  ASSUME Types, InOrder
  PROVE  Len(flying) \in Nat /\ Ended \in 0 .. MaxPackets /\ submitted \in Nat
  BY Constants, CaptureConstants DEF Types, InOrder, Ended

(* The read that completes is the oldest.                                  *)
LEMMA FirstOut ==
  ASSUME Types, InOrder, flying # <<>>
  PROVE  Head(flying) = Ended /\ Ended \in 0 .. MaxPackets - 1
<1>1. Len(flying) \in Nat \ {0} /\ Head(flying) = flying[1]
  BY DEF Types
<1>2. QED
  BY <1>1, Constants, CaptureConstants DEF Types, InOrder, Ended

-----------------------------------------------------------------------------
(* The invariant holds initially, and each step keeps each of its parts.   *)
LEMMA InitInv == ASSUME Init PROVE IInv
<1> USE DEF Init
<1>1. 0 \in Numbers /\ Minus(0, 0) = 0
  BY Constants, CaptureConstants, MinusIsDifference DEF Numbers, Difference
<1>2. Types
  <2>1. flying \in Seq(0 .. MaxPackets - 1) /\ Len(flying) <= Target
    BY Constants, CaptureConstants
  <2>2. failed \subseteq 0 .. MaxPackets - 1 /\ Cardinality(failed) <= MaxFailed
    BY Constants, CaptureConstants, FS_EmptySet
  <2>3. slots \in [0 .. N - 1 -> 0 .. MaxPackets]
    BY Constants, CaptureConstants DEF Nothing
  <2>4. worker \in Workers /\ port \in Ports
    BY DEF Workers, Ports, Idle
  <2>5. QED
    BY <1>1, <2>1, <2>2, <2>3, <2>4, Constants, CaptureConstants DEF Types, Nothing
<1>3. InOrder /\ Ended = 0
  <2>1. Len(flying) = 0
    OBVIOUS
  <2>2. submitted = 0
    OBVIOUS
  <2>3. Ended = 0
    <3> HIDE DEF Init
    <3>1. QED
      BY <2>1, <2>2 DEF Ended
  <2>4. QED
    BY <2>1, <2>2, <2>3 DEF InOrder
<1>4. Meetings
  BY DEF Meetings
<1>5. Counts
  BY <1>1, Constants, CaptureConstants DEF Counts, Window, Idle
<1>6. History(0)
  BY <1>1, <1>3, WrapSmall DEF History, Captured, Kept, Given
<1>7. QED
  BY <1>2, <1>3, <1>4, <1>5, <1>6 DEF IInv

LEMMA TypesStep ==
  ASSUME Types, InOrder, [Next]_vars
  PROVE  Types'
<1> USE DEF Types
<1>0. /\ \A a \in Nat : Wrap(a) \in Numbers
      /\ \A m, n \in Numbers : Minus(m, n) \in Numbers
      /\ N \in Numbers /\ 1 \in Numbers
  <2>1. \A a \in Nat : Wrap(a) \in Numbers
    BY Wrapped
  <2>2. \A m, n \in Numbers : Minus(m, n) \in Numbers
    BY MinusIsDifference
  <2>3. N \in Numbers /\ 1 \in Numbers
    BY Constants, CaptureConstants DEF Numbers
  <2>4. QED
    BY <2>1, <2>2, <2>3
<1>1. CASE SubmitCapturePacket
  <2>1. flying' \in Seq(0 .. MaxPackets - 1) /\ Len(flying') = Len(flying) + 1
    BY <1>1, Constants, CaptureConstants DEF SubmitCapturePacket
  <2>2. QED
    BY <1>1, <2>1, Constants, CaptureConstants DEF SubmitCapturePacket, bufferVars, countVars
<1>2. CASE Complete
  <2>1. Head(flying) \in 0 .. MaxPackets - 1 /\ Wrap(Head(flying)) \in Nat
    <3>1. flying # <<>>
      BY <1>2 DEF Complete
    <3>2. Head(flying) \in 0 .. MaxPackets - 1
      BY <3>1, FirstOut
    <3>3. Wrap(Head(flying)) \in Numbers
      BY <1>0, <3>2, Constants, CaptureConstants
    <3>4. QED
      BY <3>2, <3>3 DEF Numbers
  <2>2. Wrap(Head(flying)) % N \in 0 .. N - 1
    BY <2>1, Constants, CaptureConstants, Division
  <2>3. slots' \in [0 .. N - 1 -> 0 .. MaxPackets]
    <3>1. slots' = [slots EXCEPT ![Wrap(Head(flying)) % N] = Head(flying)]
      BY <1>2 DEF Complete
    <3>2. Head(flying) \in 0 .. MaxPackets
      BY <2>1, Constants, CaptureConstants
    <3>3. slots \in [0 .. N - 1 -> 0 .. MaxPackets]
      OBVIOUS
    <3> HIDE DEF Types
    <3>4. QED
      BY <2>2, <3>1, <3>2, <3>3
  <2>4. number' \in Numbers
    BY <1>0, <1>2, <2>1 DEF Complete
  <2>5. flying' \in Seq(0 .. MaxPackets - 1) /\ Len(flying') <= Target
    BY <1>2, Constants, CaptureConstants DEF Complete
  <2>6. worker' \in Workers /\ met' \in BOOLEAN
    BY <1>2 DEF Complete, Workers
  <2>7. UNCHANGED <<submitted, failed, countVars, port, handed>>
    BY <1>2 DEF Complete
  <2>8. QED
    BY <2>3, <2>4, <2>5, <2>6, <2>7 DEF countVars
<1>3. CASE CompleteFails
  <2>1. Head(flying) \in 0 .. MaxPackets - 1
    BY <1>3, FirstOut DEF CompleteFails
  <2>2. IsFiniteSet(failed)
    <3>1. IsFiniteSet(0 .. MaxPackets - 1)
      BY FS_Interval, Constants, CaptureConstants
    <3>2. QED
      BY <3>1, FS_Subset
  <2>3. Cardinality(failed') <= MaxFailed
    <3>1. Cardinality(failed) \in Nat /\ Cardinality(failed) < MaxFailed
      BY <1>3, <2>2, FS_CardinalityType DEF CompleteFails
    <3>2. \/ Cardinality(failed') = Cardinality(failed)
          \/ Cardinality(failed') = Cardinality(failed) + 1
      BY <1>3, <2>2, FS_AddElement DEF CompleteFails
    <3>3. QED
      BY <3>1, <3>2, Constants, CaptureConstants
  <2>4. flying' \in Seq(0 .. MaxPackets - 1) /\ Len(flying') <= Target
    BY <1>3, Constants, CaptureConstants DEF CompleteFails
  <2>5. QED
    BY <1>3, <2>1, <2>3, <2>4 DEF CompleteFails, bufferVars, countVars
<1>4. CASE LoadNext
  BY <1>0, <1>4 DEF LoadNext, Workers, readVars, bufferVars, countVars
<1>5. CASE StoreReady
  <2>1. worker.ready \in Numbers
    BY <1>5, WorkerPlaces DEF StoreReady
  <2>2. worker' \in Workers
    BY <1>5, <2>1, Constants, CaptureConstants DEF StoreReady, Workers, Idle, Numbers
  <2>3. QED
    BY <1>5, <2>1, <2>2 DEF StoreReady, readVars, bufferVars
<1>6. CASE Drop
  <2>1. worker.dropped \in Numbers /\ Wrap(next + worker.dropped) \in Numbers
    <3>1. worker.dropped \in Numbers
      BY <1>6, WorkerPlaces DEF Drop
    <3>2. next + worker.dropped \in Nat
      BY <3>1, Constants, CaptureConstants DEF Numbers
    <3>3. QED
      BY <1>0, <3>1, <3>2
  <2>2. QED
    BY <1>6, <2>1 DEF Drop, Workers, readVars, bufferVars, countVars
<1>7. CASE Skip
  <2>1. worker.next \in Numbers
    BY <1>7, WorkerPlaces DEF Skip
  <2>2. QED
    BY <1>0, <1>7, <2>1 DEF Skip, Workers, Idle, readVars, bufferVars
<1>8. CASE GetReadPacket
  BY <1>8 DEF GetReadPacket, PortStep, Ports, readVars, bufferVars, countVars
<1>9. CASE LoadPacket
  BY <1>9 DEF LoadPacket, PortStep, Ports, readVars, bufferVars, countVars
<1>10. CASE Advance
  <2>1. port.packet \in Numbers /\ Wrap(port.packet + 1) \in Numbers
    <3>1. port.packet \in Numbers
      BY <1>10, PortPlaces DEF Advance
    <3>2. port.packet + 1 \in Nat
      BY <3>1, Constants, CaptureConstants DEF Numbers
    <3>3. QED
      BY <1>0, <3>1, <3>2
  <2>2. QED
    BY <1>10, <2>1 DEF Advance, PortStep, Ports, readVars, bufferVars
<1>11. CASE LoadReady
  <2>1. port.packet \in Numbers /\ Minus(ready, 1) \in Numbers
    BY <1>0, <1>11, PortPlaces DEF LoadReady
  <2>2. QED
    BY <1>11, <2>1 DEF LoadReady, PortStep, Ports, readVars, bufferVars, countVars
<1>12. CASE Give
  <2>1. port.ready \in Numbers
    BY <1>12, PortPlaces DEF Give
  <2>2. Numbered(port.packet) \subseteq 0 .. MaxPackets
    <3>1. Ended \in 0 .. MaxPackets
      BY EndedNatural
    <3>2. Numbered(port.packet) \subseteq 0 .. Ended - 1
      BY DEF Numbered, Completed, Ended
    <3>3. QED
      BY <3>1, <3>2, Constants, CaptureConstants
  <2>3. handed' \in 0 .. MaxPackets
    BY <1>12, <2>2, Constants, CaptureConstants DEF Give, Nothing
  <2>4. QED
    BY <1>12, <2>1, <2>3 DEF Give, PortStep, Ports, Idle, readVars, bufferVars
<1>13. CASE UNCHANGED vars
  BY <1>13 DEF vars, readVars, bufferVars, countVars
<1>14. QED
  BY <1>1, <1>2, <1>3, <1>4, <1>5, <1>6, <1>7, <1>8, <1>9, <1>10, <1>11, <1>12, <1>13
     DEF Next, Worker, Port, Rest

LEMMA InOrderStep ==
  ASSUME Types, InOrder, [Next]_vars
  PROVE  InOrder'
<1>0. Len(flying) \in Nat /\ submitted \in Nat /\ flying \in Seq(0 .. MaxPackets - 1)
  BY DEF Types
<1>1. CASE SubmitCapturePacket
  <2>1. /\ flying' = Append(flying, submitted) /\ submitted' = submitted + 1
        /\ Len(flying') = Len(flying) + 1
    BY <1>0, <1>1 DEF SubmitCapturePacket
  <2>2. Ended' = Ended
    BY <1>0, <2>1 DEF Ended
  <2>3. ASSUME NEW i \in 1 .. Len(flying') PROVE flying'[i] = Ended + i - 1
    BY <1>0, <2>1 DEF InOrder, Ended
  <2>4. QED
    BY <1>0, <2>1, <2>2, <2>3 DEF InOrder
<1>2. CASE Complete \/ CompleteFails
  <2>1. /\ flying # <<>> /\ flying' = Tail(flying) /\ submitted' = submitted
    BY <1>2 DEF Complete, CompleteFails
  <2>2. /\ Len(flying') = Len(flying) - 1 /\ Len(flying) # 0
        /\ \A i \in 1 .. Len(flying) - 1 : flying'[i] = flying[i + 1]
    BY <1>0, <2>1
  <2>3. Ended' = Ended + 1
    BY <1>0, <2>1, <2>2 DEF Ended
  <2>4. QED
    BY <1>0, <2>1, <2>2, <2>3 DEF InOrder, Ended
<1>3. CASE UNCHANGED <<submitted, flying>>
  BY <1>3 DEF InOrder, Ended
<1>4. QED
  BY <1>1, <1>2, <1>3
     DEF Next, Worker, Port, LoadNext, StoreReady, Drop, Skip, GetReadPacket, LoadPacket,
         Advance, LoadReady, Give, Rest, vars, readVars

LEMMA MeetingsStep ==
  ASSUME Types, Meetings, [Next]_vars
  PROVE  Meetings'
<1> USE DEF Meetings, Types
<1>1. CASE SubmitCapturePacket \/ CompleteFails
  BY <1>1 DEF SubmitCapturePacket, CompleteFails, bufferVars, countVars
<1>2. CASE Complete
  BY <1>2 DEF Complete
<1>3. CASE LoadNext \/ StoreReady \/ Drop \/ Skip
  BY <1>3 DEF LoadNext, StoreReady, Drop, Skip
<1>4. CASE GetReadPacket \/ LoadPacket \/ Advance \/ LoadReady
  <2>1. port' # Idle
    BY <1>4 DEF GetReadPacket, LoadPacket, Advance, LoadReady, Idle
  <2>2. met' = FALSE => worker' = Idle
    BY <1>4 DEF GetReadPacket, LoadPacket, Advance, LoadReady, PortStep
  <2>3. QED
    BY <2>1, <2>2
<1>5. CASE Give
  BY <1>5 DEF Give, PortStep
<1>6. CASE UNCHANGED vars
  BY <1>6 DEF vars
<1>7. QED
  BY <1>1, <1>2, <1>3, <1>4, <1>5, <1>6 DEF Next, Worker, Port, Rest

(* Dropping what does not fit the buffer leaves a full buffer.             *)
LEMMA MinusDropped ==
  ASSUME NEW m \in Numbers, NEW n \in Numbers, Minus(m, n) > N
  PROVE  Minus(m, Wrap(n + (Minus(m, n) - N))) = N
<1> DEFINE s == n + (Minus(m, n) - N)
<1>1. Minus(m, n) = Difference(m, n) /\ Difference(m, n) \in Numbers
  BY MinusIsDifference
<1>2. CASE n > m /\ m >= N
  <2>1. s \in Modulus .. 2 * Modulus - 1 /\ s - Modulus = m - N
    BY <1>1, <1>2, Constants, CaptureConstants DEF Difference, Numbers
  <2>2. Wrap(s) = m - N
    BY <2>1, WrapSmall
  <2>3. m - N \in Numbers
    BY <1>2, Constants, CaptureConstants DEF Numbers
  <2>4. QED
    BY <2>2, <2>3, MinusIsDifference, Constants, CaptureConstants DEF Difference, Numbers
<1>3. CASE ~(n > m /\ m >= N)
  <2>1. s \in Numbers /\ Difference(m, s) = N
    BY <1>1, <1>3, Constants, CaptureConstants DEF Difference, Numbers
  <2>2. Wrap(s) = s
    BY <2>1, WrapSmall
  <2>3. QED
    BY <2>1, <2>2, MinusIsDifference
<1>4. QED
  BY <1>2, <1>3

LEMMA CountsStep ==
  ASSUME Types, InOrder, Meetings, Counts, [Next]_vars
  PROVE  Counts'
<1>0. /\ number \in Numbers /\ next \in Numbers /\ ready \in Numbers
      /\ worker \in Workers /\ port \in Ports /\ met \in BOOLEAN
  BY DEF Types
<1>1. CASE UNCHANGED <<number, countVars, worker, port, met>>
  BY <1>1 DEF Counts, Window, countVars
<1>2. CASE Complete
  <2> SUFFICES ASSUME met' = FALSE PROVE Counts'
    BY DEF Counts
  <2>1. port' = Idle /\ worker' = [at |-> "load"]
    BY <1>2 DEF Complete
  <2>2. QED
    BY <2>1 DEF Counts, Idle
<1>3. CASE LoadNext
  <2> SUFFICES ASSUME met' = FALSE PROVE Counts'
    BY DEF Counts
  <2>1. port' = Idle /\ worker' = [at |-> "store", ready |-> Window] /\ Window' = Window
    BY <1>3 DEF LoadNext, bufferVars, countVars, Window
  <2>2. QED
    BY <2>1 DEF Counts, Idle
<1>4. CASE StoreReady
  <2> SUFFICES ASSUME met' = FALSE PROVE Counts'
    BY DEF Counts
  <2>1. port' = Idle /\ met = FALSE /\ Window' = Window /\ ready' = worker.ready
    BY <1>0, <1>4 DEF StoreReady, bufferVars, Window
  <2>2. worker.ready = Window
    BY <1>4, <2>1 DEF StoreReady, Counts
  <2>3. Window \in Numbers
    BY <1>0, MinusIsDifference DEF Window
  <2>4. CASE Window > N
    <3>1. worker' = [at |-> "drop", dropped |-> Window - N]
      BY <1>4, <2>2, <2>4 DEF StoreReady
    <3>2. QED
      BY <2>1, <2>4, <3>1 DEF Counts, Idle
  <2>5. CASE ~(Window > N)
    <3>1. worker' = Idle /\ ready' = Window' /\ ready' <= N
      BY <1>4, <2>1, <2>2, <2>3, <2>5, Constants, CaptureConstants DEF StoreReady, Numbers
    <3>2. QED
      BY <2>1, <3>1 DEF Counts, Idle
  <2>6. QED
    BY <2>4, <2>5
<1>5. CASE Drop
  <2> SUFFICES ASSUME met' = FALSE PROVE Counts'
    BY DEF Counts
  <2>1. /\ port' = Idle /\ met = FALSE /\ Window' = Window /\ number' = number
        /\ worker' = [at |-> "skip", next |-> Wrap(next + worker.dropped)]
    BY <1>0, <1>5 DEF Drop, bufferVars, countVars, Window
  <2>2. worker.dropped = Window - N /\ Window > N
    BY <1>5, <2>1 DEF Drop, Counts
  <2>3. Minus(number, Wrap(next + worker.dropped)) = N
    BY <1>0, <2>2, MinusDropped DEF Window
  <2>4. QED
    BY <2>1, <2>2, <2>3 DEF Counts, Idle
<1>6. CASE Skip
  <2> SUFFICES ASSUME met' = FALSE PROVE Counts'
    BY DEF Counts
  <2>1. /\ port' = Idle /\ met = FALSE /\ worker' = Idle
        /\ ready' = N /\ number' = number /\ next' = worker.next
    BY <1>0, <1>6 DEF Skip, bufferVars
  <2>2. Window' = N
    BY <1>6, <2>1 DEF Skip, Counts, Window
  <2>3. QED
    BY <2>1, <2>2, Constants, CaptureConstants DEF Counts, Idle
<1>7. CASE GetReadPacket
  <2> SUFFICES ASSUME met' = FALSE PROVE Counts'
    BY DEF Counts
  <2>1. /\ worker = Idle /\ worker' = Idle /\ met = FALSE /\ port' = [at |-> "load"]
        /\ port = Idle /\ ready # 0 /\ ready' = ready /\ Window' = Window
    BY <1>0, <1>7 DEF GetReadPacket, PortStep, bufferVars, countVars, Window
  <2>2. ready = Window /\ ready <= N
    BY <2>1 DEF Counts, Idle
  <2>3. QED
    BY <2>1, <2>2 DEF Counts, Idle
<1>8. CASE LoadPacket
  <2> SUFFICES ASSUME met' = FALSE PROVE Counts'
    BY DEF Counts
  <2>1. /\ worker = Idle /\ worker' = Idle /\ met = FALSE /\ port.at = "load"
        /\ port' = [at |-> "advance", packet |-> next]
        /\ ready' = ready /\ next' = next /\ number' = number
    BY <1>0, <1>8 DEF LoadPacket, PortStep, bufferVars, countVars
  <2>2. ready = Minus(number, next) /\ ready \in 1 .. N
    BY <1>0, <2>1, Constants, CaptureConstants DEF Counts, Window, Numbers
  <2>3. QED
    BY <2>1, <2>2 DEF Counts, Idle
<1>9. CASE Advance
  <2> SUFFICES ASSUME met' = FALSE PROVE Counts'
    BY DEF Counts
  <2>1. /\ worker = Idle /\ worker' = Idle /\ met = FALSE /\ port.at = "advance"
        /\ port' = [at |-> "count", packet |-> port.packet]
        /\ ready' = ready /\ next' = Wrap(port.packet + 1) /\ number' = number
    BY <1>0, <1>9 DEF Advance, PortStep, bufferVars
  <2>2. ready = Minus(number, port.packet) /\ ready \in 1 .. N
    BY <2>1 DEF Counts
  <2>3. QED
    BY <2>1, <2>2 DEF Counts, Idle
<1>10. CASE LoadReady
  <2> SUFFICES ASSUME met' = FALSE PROVE Counts'
    BY DEF Counts
  <2>1. /\ worker = Idle /\ worker' = Idle /\ met = FALSE /\ port.at = "count"
        /\ port' = [at |-> "give", packet |-> port.packet, ready |-> Minus(ready, 1)]
        /\ ready' = ready /\ next' = next /\ number' = number
    BY <1>0, <1>10 DEF LoadReady, PortStep, bufferVars, countVars
  <2>2. /\ ready = Minus(number, port.packet) /\ ready \in 1 .. N
        /\ next = Wrap(port.packet + 1)
    BY <2>1 DEF Counts
  <2>3. Minus(ready, 1) = ready - 1
    BY <1>0, <2>2, MinusIsDifference, Constants, CaptureConstants DEF Difference, Numbers
  <2>4. QED
    BY <2>1, <2>2, <2>3 DEF Counts, Idle
<1>11. CASE Give
  <2> SUFFICES ASSUME met' = FALSE PROVE Counts'
    BY DEF Counts
  <2>1. /\ worker = Idle /\ worker' = Idle /\ met = FALSE /\ port.at = "give"
        /\ port' = Idle /\ ready' = port.ready /\ next' = next /\ number' = number
    BY <1>0, <1>11 DEF Give, PortStep, bufferVars
  <2>2. /\ ready = Minus(number, port.packet) /\ ready \in 1 .. N
        /\ next = Wrap(port.packet + 1) /\ port.ready = ready - 1
    BY <2>1 DEF Counts
  <2>3. port.packet \in Numbers
    BY <1>0, <2>1, PortPlaces
  <2>4. Window' = ready - 1
    <3>1. Window' = Minus(number, Wrap(port.packet + 1))
      BY <2>1, <2>2 DEF Window
    <3>2. Minus(number, port.packet) # 0
      BY <2>2
    <3>3. QED
      BY <1>0, <2>2, <2>3, <3>1, <3>2, MinusNext
  <2>5. ready' = Window' /\ ready' <= N
    BY <2>1, <2>2, <2>4, Constants, CaptureConstants
  <2>6. QED
    BY <2>1, <2>5 DEF Counts, Idle
<1>12. QED
  <2>1. SubmitCapturePacket \/ CompleteFails \/ UNCHANGED vars
          => UNCHANGED <<number, countVars, worker, port, met>>
    BY DEF SubmitCapturePacket, CompleteFails, vars, bufferVars
  <2>2. QED
    BY <1>1, <1>2, <1>3, <1>4, <1>5, <1>6, <1>7, <1>8, <1>9, <1>10, <1>11, <2>1
       DEF Next, Worker, Port, Rest

(* The reads since the last capture are among those that failed.           *)
LEMMA FewMissed ==
  ASSUME Types, InOrder, NEW k \in Nat, Captured(k)
  PROVE  Ended - k <= MaxFailed
<1>1. Ended \in Nat /\ k <= Ended
  BY EndedNatural DEF Captured
<1>2. k .. Ended - 1 \subseteq failed
  BY DEF Captured
<1>3. IsFiniteSet(failed)
  <2>1. IsFiniteSet(0 .. MaxPackets - 1)
    BY FS_Interval, Constants, CaptureConstants
  <2>2. QED
    BY <2>1, FS_Subset DEF Types
<1>4. Cardinality(k .. Ended - 1) <= Cardinality(failed)
  BY <1>2, <1>3, FS_Subset
<1>5. Cardinality(k .. Ended - 1) = Ended - k
  <2>1. k \in Int /\ Ended - 1 \in Int
    BY <1>1
  <2>2. Cardinality(k .. Ended - 1) = (IF k > Ended - 1 THEN 0 ELSE (Ended - 1) - k + 1)
    BY <2>1, FS_Interval
  <2>3. QED
    BY <1>1, <2>2
<1>6. Cardinality(failed) \in Nat /\ Cardinality(failed) <= MaxFailed
  BY <1>3, FS_CardinalityType DEF Types
<1>7. QED
  BY <1>1, <1>4, <1>5, <1>6, Constants, CaptureConstants

(* The packet with the number that is given is not before the window, and  *)
(* unless too many reads failed it is not after it.                        *)
LEMMA NotBefore ==
  ASSUME Types, InOrder, NEW k \in Nat, Captured(k),
         NEW p \in Numbers, Minus(number, p) \in 1 .. N, Minus(number, p) <= k,
         NEW a \in Numbered(p)
  PROVE  a >= k - Minus(number, p)
<1>1. number = Wrap(k) /\ k <= Ended /\ Ended \in Nat
  BY EndedNatural DEF Captured
<1>2. a \in 0 .. Ended - 1 /\ Wrap(a) = p /\ a + Modulus \notin 0 .. Ended - 1
  BY DEF Numbered, Completed, Ended
<1>3. LET x == k - Minus(number, p)
      IN  a = x \/ a >= x + Modulus \/ a <= x - Modulus
  BY <1>1, <1>2, SameNumber
<1>4. QED
  BY <1>1, <1>2, <1>3, Constants, CaptureConstants

LEMMA NotAfter ==
  ASSUME Types, InOrder, FewFail, NEW k \in Nat, Captured(k),
         NEW p \in Numbers, Minus(number, p) \in 1 .. N, NEW a \in Numbered(p)
  PROVE  a <= k - Minus(number, p)
<1>1. number = Wrap(k) /\ k <= Ended /\ Ended \in Nat
  BY EndedNatural DEF Captured
<1>2. a \in 0 .. Ended - 1 /\ Wrap(a) = p
  BY DEF Numbered, Completed, Ended
<1>3. LET x == k - Minus(number, p)
      IN  a = x \/ a >= x + Modulus \/ a <= x - Modulus
  BY <1>1, <1>2, SameNumber
<1>4. QED
  BY <1>1, <1>2, <1>3, FewMissed, Constants, CaptureConstants DEF FewFail

(* A completion makes its packet the newest; every other step keeps it.    *)
LEMMA HistoryStep ==
  ASSUME Types, InOrder, Meetings, Counts, Types', InOrder', Meetings', Counts',
         NEW k \in Nat, History(k), [Next]_vars
  PROVE  \E l \in Nat : History(l)'
<1>0. /\ number \in Numbers /\ next \in Numbers /\ ready \in Numbers
      /\ worker \in Workers /\ port \in Ports /\ met \in BOOLEAN
      /\ handed \in Nat /\ Window \in Numbers
      /\ Ended \in Nat /\ submitted \in Nat /\ Len(flying) \in Nat
  <2>1. Window \in Numbers
    BY MinusIsDifference DEF Types, Window
  <2>2. QED
    BY <2>1, EndedNatural DEF Types
<1>1. Captured(k) /\ Kept(k) /\ Given(k) /\ number = Wrap(k) /\ k <= Ended
  BY DEF History, Captured
<1>2. CASE SubmitCapturePacket
  <2>1. Ended' = Ended
    <3>1. Len(flying') = Len(flying) + 1 /\ submitted' = submitted + 1
      BY <1>2 DEF SubmitCapturePacket, Types
    <3>2. QED
      BY <1>0, <3>1 DEF Ended
  <2>2. UNCHANGED <<failed, slots, number, next, port, met, handed>>
    BY <1>2 DEF SubmitCapturePacket, bufferVars, countVars
  <2>3. QED
    BY <1>1, <2>1, <2>2 DEF History, Captured, Kept, Given, Behind, Window
<1>3. CASE CompleteFails
  <2>1. Ended' = Ended + 1
    <3>1. Len(flying') = Len(flying) - 1 /\ submitted' = submitted
      BY <1>3 DEF CompleteFails, Types
    <3>2. QED
      BY <1>0, <3>1 DEF Ended
  <2>2. failed' = failed \cup {Ended}
    BY <1>3, FirstOut DEF CompleteFails
  <2>3. UNCHANGED <<slots, number, next, port, met, handed>>
    BY <1>3 DEF CompleteFails, bufferVars, countVars
  <2>4. Captured(k)'
    BY <1>0, <1>1, <2>1, <2>2, <2>3 DEF Captured
  <2>5. Kept(k)' /\ Given(k)'
    BY <1>1, <2>2, <2>3 DEF Kept, Given, Behind, Window
  <2>6. QED
    BY <2>4, <2>5 DEF History
<1>4. CASE Complete
  <2>0. PICK l \in Nat : l = Ended + 1
    BY <1>0
  <2>1. /\ Head(flying) = Ended /\ Len(flying') = Len(flying) - 1 /\ submitted' = submitted
    BY <1>4, FirstOut DEF Complete, Types
  <2>2. Ended' = l
    BY <1>0, <2>0, <2>1 DEF Ended
  <2>3. /\ UNCHANGED <<failed, next, port, handed>>
        /\ slots' = [slots EXCEPT ![Wrap(Ended) % N] = Ended]
        /\ number' = Wrap(Wrap(Ended) + 1) /\ met' = (port # Idle)
    BY <1>4, <2>1 DEF Complete, countVars
  <2>4. number' = Wrap(l)
    BY <1>0, <2>0, <2>3, WrapNext
  <2>5. Captured(l)'
    BY <1>0, <2>0, <2>2, <2>4 DEF Captured
  <2>6. ASSUME Divides, NEW a \in 0 .. l - 1, l <= a + N
        PROVE  a \in failed' \/ slots'[a % N] = a
    <3>1. a \in Nat /\ a % N \in 0 .. N - 1 /\ Ended % N \in 0 .. N - 1
      BY <1>0, Constants, CaptureConstants, Division
    <3>2. slots' = [slots EXCEPT ![Ended % N] = Ended]
      BY <1>0, <2>3, <2>6, SlotOf
    <3>3. CASE a = Ended
      BY <3>1, <3>2, <3>3 DEF Types
    <3>4. CASE a < Ended
      <4>1. a % N # Ended % N
        <5>1. a < Ended /\ Ended < a + N
          BY <1>0, <2>0, <2>6, <3>1, <3>4, Constants, CaptureConstants
        <5>2. QED
          BY <1>0, <3>1, <5>1, SlotsApart
      <4>2. slots'[a % N] = slots[a % N]
        BY <3>1, <3>2, <4>1 DEF Types
      <4>3. CASE a < k
        BY <1>0, <1>1, <2>0, <2>3, <2>6, <3>1, <4>2, <4>3, Constants, CaptureConstants DEF Kept
      <4>4. CASE a >= k
        BY <1>0, <1>1, <2>3, <3>1, <3>4, <4>4 DEF Captured
      <4>5. QED
        BY <3>1, <4>3, <4>4
    <3>5. QED
      BY <1>0, <2>0, <2>6, <3>3, <3>4
  <2>7. Kept(l)'
    <3>1. ASSUME Divides
          PROVE  \A a \in 0 .. l - 1 : l <= a + N => a \in failed' \/ slots'[a % N] = a
      BY <2>6, <3>1
    <3>2. QED
      BY <3>1 DEF Kept, Divides
  <2>8. Given(l)'
    <3> SUFFICES ASSUME FewFail, met' = FALSE, handed' # Nothing
                 PROVE  handed' + Behind' < l
      BY DEF Given, FewFail, Nothing
    <3>1. port = Idle /\ port' = Idle /\ met = FALSE /\ handed' = handed
      BY <1>0, <2>3 DEF Meetings
    <3>2. Behind' = Minus(Wrap(l), next) /\ Behind = Minus(Wrap(k), next)
      BY <1>1, <2>3, <2>4, <3>1 DEF Behind, Window, Idle
    <3>3. handed + Minus(Wrap(k), next) < k
      BY <1>1, <3>1, <3>2 DEF Given
    <3>4. l \in Nat /\ k <= l
      BY <1>0, <1>1, <2>0
    <3>5. Minus(Wrap(l), next) <= Minus(Wrap(k), next) + (l - k)
      BY <1>0, <3>4, FartherBack
    <3>6. Minus(Wrap(l), next) \in Int /\ Minus(Wrap(k), next) \in Int
      <4>1. Minus(Wrap(l), next) \in Numbers /\ Minus(Wrap(k), next) \in Numbers
        BY <1>0, <3>4, Wrapped, MinusIsDifference
      <4>2. QED
        BY <4>1 DEF Numbers
    <3>7. QED
      BY <1>0, <3>1, <3>2, <3>3, <3>4, <3>5, <3>6
  <2>9. QED
    BY <2>5, <2>7, <2>8 DEF History
<1>5. ASSUME UNCHANGED <<submitted, flying, failed, slots, number>>, Given(k)'
      PROVE  History(k)'
  BY <1>1, <1>5 DEF History, Captured, Kept, Ended
<1>6. CASE LoadNext \/ StoreReady \/ Drop
  <2>1. /\ UNCHANGED <<submitted, flying, failed, slots, number, next, port, handed>>
        /\ met' = FALSE => met = FALSE
    BY <1>0, <1>6 DEF LoadNext, StoreReady, Drop, readVars, bufferVars, countVars
  <2>2. Given(k)'
    BY <1>1, <2>1 DEF Given, Behind, Window
  <2>3. QED
    BY <1>5, <2>1, <2>2
<1>7. CASE Skip
  <2>1. /\ UNCHANGED <<submitted, flying, failed, slots, number, port, handed>>
        /\ worker.at = "skip" /\ next' = worker.next
        /\ met' = FALSE => met = FALSE /\ port = Idle
    BY <1>0, <1>7 DEF Skip, readVars, bufferVars
  <2>2. Given(k)'
    <3> SUFFICES ASSUME FewFail, met' = FALSE, handed' # Nothing
                 PROVE  handed' + Behind' < k
      BY DEF Given, FewFail, Nothing
    <3>1. met = FALSE /\ port = Idle /\ handed' = handed
      BY <2>1
    <3>2. Behind = Window /\ Behind' = Minus(number, worker.next)
      BY <2>1, <3>1 DEF Behind, Window, Idle
    <3>3. Minus(number, worker.next) = N /\ Window > N
      BY <2>1, <3>1 DEF Counts
    <3>4. handed + Window < k
      BY <1>1, <3>1, <3>2 DEF Given
    <3>5. QED
      BY <1>0, <3>1, <3>2, <3>3, <3>4, Constants, CaptureConstants DEF Numbers
  <2>3. QED
    BY <1>5, <2>1, <2>2
<1>8. CASE GetReadPacket \/ LoadPacket
  <2>1. /\ UNCHANGED <<submitted, flying, failed, slots, number, next, handed>>
        /\ port.at \in {"idle", "load"} /\ port'.at \in {"load", "advance"}
        /\ met' = FALSE => met = FALSE
    BY <1>0, <1>8 DEF GetReadPacket, LoadPacket, PortStep, readVars, bufferVars, countVars, Idle
  <2>2. Behind' = Behind
    BY <2>1 DEF Behind, Window
  <2>3. Given(k)'
    BY <1>1, <2>1, <2>2 DEF Given
  <2>4. QED
    BY <1>5, <2>1, <2>3
<1>9. CASE Advance \/ LoadReady
  <2>1. /\ UNCHANGED <<submitted, flying, failed, slots, number, handed>>
        /\ port.at \in {"advance", "count"} /\ port'.at \in {"count", "give"}
        /\ port'.packet = port.packet
        /\ met' = FALSE => met = FALSE
    BY <1>0, <1>9 DEF Advance, LoadReady, PortStep, readVars, bufferVars, countVars
  <2>2. Given(k)'
    <3> SUFFICES ASSUME FewFail, met' = FALSE, handed' # Nothing
                 PROVE  handed' + Behind' < k
      BY DEF Given, FewFail, Nothing
    <3>1. Behind = Minus(number, port.packet)
      BY <2>1 DEF Behind, Counts, Window
    <3>2. Behind' = Minus(number, port.packet)
      BY <2>1 DEF Behind
    <3>3. QED
      BY <1>1, <2>1, <3>1, <3>2 DEF Given
  <2>3. QED
    BY <1>5, <2>1, <2>2
<1>10. CASE Give
  <2>1. /\ UNCHANGED <<submitted, flying, failed, slots, number, next>>
        /\ port.at = "give" /\ port' = Idle /\ ready' = port.ready
        /\ met' = FALSE => met = FALSE /\ worker = Idle /\ worker' = Idle
    BY <1>0, <1>10 DEF Give, PortStep, readVars, bufferVars
  <2>2. Given(k)'
    <3> SUFFICES ASSUME FewFail, met' = FALSE, handed' # Nothing
                 PROVE  handed' + Behind' < k
      BY DEF Given, FewFail, Nothing
    <3>1. handed' \in Numbered(port.packet)
      BY <1>10 DEF Give, Nothing
    <3>2. /\ ready = Minus(number, port.packet) /\ ready \in 1 .. N
          /\ port.ready = ready - 1
      BY <2>1 DEF Counts
    <3>3. handed' <= k - ready
      BY <1>0, <1>1, <2>1, <3>1, <3>2, PortPlaces, NotAfter
    <3>4. Behind' = ready - 1
      BY <2>1, <3>2 DEF Behind, Counts, Idle
    <3>5. handed' \in Int
      BY DEF Types
    <3>6. QED
      BY <1>0, <3>2, <3>3, <3>4, <3>5
  <2>3. QED
    BY <1>5, <2>1, <2>2
<1>11. CASE UNCHANGED vars
  <2>1. UNCHANGED <<submitted, flying, failed, slots, number, next, port, met, handed>>
    BY <1>11 DEF vars, readVars, bufferVars, countVars
  <2>2. Given(k)'
    BY <1>1, <2>1 DEF Given, Behind, Window
  <2>3. QED
    BY <1>5, <2>1, <2>2
<1>12. QED
  BY <1>2, <1>3, <1>4, <1>6, <1>7, <1>8, <1>9, <1>10, <1>11 DEF Next, Worker, Port, Rest

LEMMA InvStep == ASSUME IInv, [Next]_vars PROVE IInv'
<1>1. Types /\ InOrder /\ Meetings /\ Counts
  BY DEF IInv
<1>2. Types' /\ InOrder' /\ Meetings' /\ Counts'
  BY <1>1, TypesStep, InOrderStep, MeetingsStep, CountsStep
<1>3. PICK k \in Nat : History(k)
  BY DEF IInv
<1>4. \E l \in Nat : History(l)'
  BY <1>1, <1>2, <1>3, HistoryStep
<1>5. QED
  BY <1>2, <1>4 DEF IInv

LEMMA Invariance == Spec => []IInv
<1>1. Init => IInv
  BY InitInv
<1>2. IInv /\ [Next]_vars => IInv'
  BY InvStep
<1>3. QED
  BY <1>1, <1>2, PTL DEF Spec

-----------------------------------------------------------------------------
(* The count of ready packets and the number of the next are right again after *)
(* one completion out of the port's way, whatever GetReadPacket and the worker *)
(* did to each other before (ReclaimCapturePackets): the type invariant and *)
(* CountsHeal.                                                             *)
THEOREM WindowHolds == Spec => []WindowInv
<1>1. IInv => TypeOK
  <2> SUFFICES ASSUME Types PROVE TypeOK
    BY DEF IInv
  <2>1. worker.at \in {"idle", "load", "store", "drop", "skip"}
    BY WorkerPlaces DEF Types
  <2>2. port.at \in {"idle", "load", "advance", "count", "give"}
    BY PortPlaces DEF Types
  <2>3. QED
    BY <2>1, <2>2 DEF Types, TypeOK, Numbers
<1>2. IInv => CountsHeal
  BY DEF IInv, Types, Counts, CountsHeal, Window, Idle
<1>3. QED
  BY <1>1, <1>2, Invariance, PTL DEF WindowInv

-----------------------------------------------------------------------------
(* The newest packet with the number that is given is k - ready or one of  *)
(* those that failed since, and its slot was not taken by any packet after it. *)
LEMMA GivenIsInTheBuffer ==
  ASSUME Divides, IInv
  PROVE  GivenIsThere
<1> SUFFICES ASSUME port.at = "give", ~met
             PROVE  \/ \E a \in Numbered(port.packet) :
                         a \in failed \/ slots[port.packet % N] = a
                    \/ Numbered(port.packet) = {} /\ number < N
  BY DEF GivenIsThere
<1> DEFINE p == port.packet
<1>1. Types /\ InOrder /\ Counts
  BY DEF IInv
<1>2. PICK k \in Nat : History(k)
  BY DEF IInv
<1>3. /\ number = Wrap(k) /\ k <= Ended /\ \A a \in k .. Ended - 1 : a \in failed
      /\ Captured(k) /\ Ended \in Nat
  BY <1>1, <1>2, EndedNatural DEF History, Captured
<1>4. p \in Numbers
  BY <1>1, PortPlaces DEF Types
<1>5. ready = Minus(number, p) /\ ready \in 1 .. N
  <2>1. met = FALSE
    BY <1>1 DEF Types
  <2>2. QED
    BY <1>1, <2>1 DEF Counts
<1>6. \A a \in Numbered(p) : a \in 0 .. Ended - 1 /\ Wrap(a) = p
  BY DEF Numbered, Completed, Ended
<1> HIDE DEF p
<1>7. CASE ready <= k
  <2> DEFINE x == k - ready
  <2>1. x \in 0 .. Ended - 1 /\ Wrap(x) = p
    BY <1>3, <1>4, <1>5, <1>7, Ago, Constants, CaptureConstants
  <2>2. PICK a \in 0 .. Ended - 1 : a >= x /\ Wrap(a) = p /\ a + Modulus \notin 0 .. Ended - 1
    BY <1>3, <2>1, Newest
  <2>3. a \in Numbered(p)
    BY <2>2 DEF Numbered, Completed, Ended
  <2>4. CASE a >= k
    BY <1>3, <2>2, <2>3, <2>4 DEF p
  <2>5. CASE a < k
    <3>1. a \in failed \/ slots[a % N] = a
      <4>1. Kept(k)
        BY <1>2 DEF History
      <4>2. a \in 0 .. k - 1 /\ k <= a + N
        BY <1>3, <1>5, <2>2, <2>5, Constants, CaptureConstants
      <4>3. QED
        BY <4>1, <4>2 DEF Kept
    <3>2. p % N = a % N
      BY <2>2, SlotOf
    <3>3. QED
      BY <2>3, <3>1, <3>2 DEF p
  <2>6. QED
    BY <1>3, <2>2, <2>4, <2>5
<1>8. CASE ready > k
  <2>1. k \in Numbers /\ k < N /\ number = k
    BY <1>3, <1>5, <1>8, WrapSmall, Constants, CaptureConstants DEF Numbers
  <2>2. p > k
    BY <1>4, <1>5, <1>8, <2>1, MinusIsDifference, Constants, CaptureConstants
       DEF Difference, Numbers
  <2>3. ASSUME NEW a \in Numbered(p) PROVE a \in failed
    <3>1. a \in 0 .. Ended - 1 /\ Wrap(a) = p
      BY <1>6
    <3>2. a >= k
      <4>1. CASE a \in Numbers
        BY <2>1, <2>2, <3>1, <4>1, WrapSmall DEF Numbers
      <4>2. CASE a \notin Numbers
        BY <2>1, <3>1, <4>2, Constants, CaptureConstants DEF Numbers
      <4>3. QED
        BY <4>1, <4>2
    <3>3. QED
      BY <1>3, <3>1, <3>2
  <2>4. QED
    BY <2>1, <2>3 DEF p
<1>9. QED
  BY <1>3, <1>5, <1>7, <1>8

(* What GetReadPacket gives is in the audio buffer, for every N that divides *)
(* the range of the numbers: the place of a packet is its number modulo N, and *)
(* when N does not divide it two packets of one buffer share a place.      *)
THEOREM GivenWasCaptured ==
  ASSUME Divides
  PROVE  Spec => []GivenIsThere
<1>1. IInv => GivenIsThere
  BY GivenIsInTheBuffer
<1>2. QED
  BY <1>1, Invariance, PTL

-----------------------------------------------------------------------------
(* One step of GivenInOrder.                                               *)
OrderedStep == (handed' # handed /\ Nothing \notin {handed, handed'}) => handed' > handed

LEMMA StepInOrder ==
  ASSUME FewFail, IInv, IInv', [Next]_vars
  PROVE  OrderedStep
<1> SUFFICES ASSUME handed' # handed, handed # Nothing, handed' # Nothing
             PROVE  handed' > handed
  BY DEF OrderedStep, Nothing
<1>1. Types /\ InOrder /\ Counts /\ Types'
  BY DEF IInv
<1>2. PICK k \in Nat : History(k)
  BY DEF IInv
<1>3. Give
  BY DEF Next, Worker, Port, Rest, vars, SubmitCapturePacket, Complete, CompleteFails, LoadNext,
         StoreReady, Drop, Skip, GetReadPacket, LoadPacket, Advance, LoadReady
<1>4. handed' \in Numbered(port.packet) /\ met = FALSE /\ port.at = "give"
  BY <1>1, <1>3 DEF Give, PortStep, Types, Nothing
<1>5. /\ ready = Minus(number, port.packet) /\ ready \in 1 .. N
      /\ port.packet \in Numbers
  BY <1>1, <1>4, PortPlaces DEF Counts, Types
<1>6. handed + ready < k
  BY <1>2, <1>4, <1>5 DEF History, Given, Behind
<1>7. handed \in Nat /\ handed' \in Nat /\ ready <= k
  <2>1. handed \in Nat
    BY <1>1 DEF Types
  <2>2. handed' \in Nat
    BY <1>1 DEF Types
  <2>3. QED
    BY <1>5, <1>6, <2>1, <2>2, Constants, CaptureConstants
<1>8. handed' >= k - ready
  BY <1>1, <1>2, <1>4, <1>5, <1>7, NotBefore DEF History
<1>9. QED
  BY <1>5, <1>6, <1>7, <1>8, Constants, CaptureConstants

(* GetReadPacket gives no packet twice and none before one that is older, as *)
(* long as not a whole turn of the number fails: then it gives a packet of *)
(* that turn in place of the one in the buffer, and goes back to the buffer. *)
THEOREM GivenOnceInOrder ==
  ASSUME FewFail
  PROVE  Spec => GivenInOrder
<1>1. IInv /\ IInv' /\ [Next]_vars => [OrderedStep]_vars
  BY StepInOrder
<1>2. QED
  BY <1>1, Invariance, PTL DEF Spec, GivenInOrder, OrderedStep

-----------------------------------------------------------------------------
(* A render stream.                                                        *)
LEMMA RenderConstants ==
  /\ Preroll \in Nat \ {0} /\ Outstanding \in Nat \ {0} /\ Cyclic \in Nat \ {0}
  /\ Fallback \in Nat \ {0} /\ Sources \in Nat \ {0}
  /\ Cyclic <= Outstanding /\ Fallback <= Outstanding
  /\ Modulus >= 4 * N /\ Modulus > 2 * Sources
  /\ NoPacket \in Numbers
BY RenderPacketsAssumption, Constants DEF NoPacket, Numbers

-----------------------------------------------------------------------------
(* The numbers that SetWritePacket and the worker compare.                 *)
LEMMA SumSmall ==
  \A m \in Numbers, k \in Nat :
    Plus(m, k) \in Numbers /\ (m + k < Modulus => Plus(m, k) = m + k)
BY Wrapped, WrapSmall, Constants DEF Plus, Numbers

(* The number after a packet that is not the last of the numbers.          *)
LEMMA NextNumber ==
  \A m \in Numbers : m # NoPacket => Plus(m, 1) = m + 1 /\ m + 1 \in Numbers
BY SumSmall, Constants DEF Numbers, NoPacket

(* A packet that is at most one too far and LessOrEqual is not too far.    *)
LEMMA NotPast ==
  ASSUME NEW m \in Numbers, NEW n \in Numbers, LessOrEqual(m, n), m <= n + 1
  PROVE  m <= n
<1>1. Minus(m, n) = Difference(m, n)
  BY MinusIsDifference
<1>2. Minus(m, n) = 0 \/ 2 * Minus(m, n) >= Modulus
  BY DEF LessOrEqual
<1>3. SUFFICES ASSUME m = n + 1 PROVE FALSE
  BY Constants DEF Numbers
<1>4. Minus(m, n) = 1
  BY <1>1, <1>3, Constants DEF Difference, Numbers
<1>5. QED
  BY <1>2, <1>4, Constants, RenderConstants

(* The packets that follow m in a fallback period, up to n.                *)
LEMMA NotFarPast ==
  ASSUME NEW m \in Numbers, NEW n \in Numbers, m <= n,
         NEW j \in 0 .. Sources - 1, LessOrEqual(Plus(m, j), n)
  PROVE  m + j <= n
<1> DEFINE p == Plus(m, j)
<1>1. p \in Numbers /\ j \in Nat /\ (m + j < Modulus => p = m + j)
  BY SumSmall, RenderConstants
<1>2. m + j >= Modulus => p = m + j - Modulus
  BY WrapSmall, Constants, RenderConstants DEF Plus, Numbers
<1>3. Minus(p, n) = Difference(p, n)
  BY <1>1, MinusIsDifference
<1>4. Minus(p, n) = 0 \/ 2 * Minus(p, n) >= Modulus
  BY DEF LessOrEqual
<1> HIDE DEF p
<1>5. SUFFICES ASSUME m + j > n PROVE FALSE
  BY Constants DEF Numbers
<1>6. Minus(p, n) = m + j - n
  <2>1. CASE m + j < Modulus
    BY <2>1, <1>1, <1>3, <1>5, Constants DEF Difference, Numbers
  <2>2. CASE m + j >= Modulus
    <3>1. p = m + j - Modulus
      BY <2>2, <1>2
    <3>2. p < n
      BY <3>1, RenderConstants, Constants DEF Numbers
    <3>3. QED
      BY <3>1, <3>2, <1>1, <1>3, Constants DEF Difference, Numbers
  <2>3. QED
    BY <2>1, <2>2, <1>1, Constants DEF Numbers
<1>7. QED
  BY <1>4, <1>5, <1>6, Constants, RenderConstants DEF Numbers

(* What was handed over is not past what was written.                      *)
LEMMA NotBeyond ==
  ASSUME NEW m \in Numbers, NEW n \in Numbers, m <= n, n - m <= 2 * N
  PROVE  LessOrEqual(m, n)
<1>1. Minus(m, n) = Difference(m, n)
  BY MinusIsDifference
<1>2. QED
  BY <1>1, Constants, RenderConstants DEF LessOrEqual, Difference, Numbers

(* The guard of Offered, for a count that is wrapped from b.               *)
LEMMA NotTooFar ==
  ASSUME NEW p \in Numbers, NEW b \in Nat, p + Modulus <= b + N,
         LessOrEqual(p, Plus(Wrap(b), N - 1))
  PROVE  p + Modulus < b + N
<1>1. SUFFICES ASSUME p + Modulus = b + N PROVE FALSE
  BY Constants DEF Numbers
<1>2. Plus(Wrap(b), N - 1) = Wrap(b + (N - 1))
  BY WrapAdd, Constants DEF Plus
<1>3. b + (N - 1) = p + (Modulus - 1)
  BY <1>1, Constants DEF Numbers
<1> DEFINE e == Wrap(p + (Modulus - 1))
<1>4. e = IF p = 0 THEN Modulus - 1 ELSE p - 1
  BY WrapSmall, Constants DEF Numbers
<1>5. e \in Numbers
  BY <1>4, Constants DEF Numbers
<1>6. Minus(p, e) = Difference(p, e)
  BY <1>5, MinusIsDifference
<1>7. Minus(p, e) = 0 \/ 2 * Minus(p, e) >= Modulus
  BY <1>2, <1>3 DEF LessOrEqual
<1> HIDE DEF e
<1>8. Minus(p, e) = 1
  BY <1>4, <1>6, Constants DEF Difference, Numbers
<1>9. QED
  BY <1>7, <1>8, Constants, RenderConstants

Blocks == [number : Numbers, source : 0 .. Sources, upto : Numbers, cut : Cuts]

(* The blocks of a sequence that hold packets of the buffer.               *)
NumberedIn(s) == {i \in 1 .. Len(s) : s[i].number # NoPacket}

(* There are no more of them than blocks, ...                              *)
LEMMA NumberedFinite ==
  ASSUME NEW s \in Seq(Blocks)
  PROVE  IsFiniteSet(NumberedIn(s)) /\ Cardinality(NumberedIn(s)) \in 0 .. Len(s)
<1>1. Len(s) \in Nat /\ NumberedIn(s) \in SUBSET (1 .. Len(s))
  BY DEF NumberedIn
<1>2. IsFiniteSet(1 .. Len(s)) /\ Cardinality(1 .. Len(s)) = Len(s)
  <2> DEFINE l == Len(s)
  <2>1. l \in Nat
    BY <1>1
  <2> HIDE DEF l
  <2>2. IsFiniteSet(1 .. l) /\ Cardinality(1 .. l) = IF 1 > l THEN 0 ELSE l - 1 + 1
    BY <2>1, FS_Interval
  <2>3. Cardinality(1 .. l) = l
    BY <2>1, <2>2
  <2>4. QED
    BY <2>2, <2>3 DEF l
<1>3. IsFiniteSet(NumberedIn(s)) /\ Cardinality(NumberedIn(s)) <= Cardinality(1 .. Len(s))
  BY <1>1, <1>2, FS_Subset
<1>4. Cardinality(NumberedIn(s)) \in Nat
  BY <1>3, FS_CardinalityType
<1>5. QED
  BY <1>1, <1>2, <1>3, <1>4

(* ... one more block adds at most one, ...                                *)
LEMMA NumberedAppend ==
  ASSUME NEW s \in Seq(Blocks), NEW b \in Blocks
  PROVE  Cardinality(NumberedIn(Append(s, b))) <= Cardinality(NumberedIn(s)) + 1
<1> DEFINE S == NumberedIn(s)  T == NumberedIn(Append(s, b))
<1>1. IsFiniteSet(S) /\ Cardinality(S) \in Nat
  BY NumberedFinite
<1>2. T \in SUBSET (S \cup {Len(s) + 1})
  BY DEF NumberedIn
<1> HIDE DEF S, T
<1>3. /\ IsFiniteSet(S \cup {Len(s) + 1})
      /\ Cardinality(S \cup {Len(s) + 1}) =
           IF Len(s) + 1 \in S THEN Cardinality(S) ELSE Cardinality(S) + 1
  BY <1>1, FS_AddElement
<1>4. IsFiniteSet(T) /\ Cardinality(T) <= Cardinality(S \cup {Len(s) + 1})
  BY <1>2, <1>3, FS_Subset
<1>5. Cardinality(T) \in Nat
  BY <1>4, FS_CardinalityType
<1>6. Cardinality(T) <= Cardinality(S) + 1
  BY <1>1, <1>3, <1>4, <1>5
<1>7. QED
  BY <1>6 DEF S, T

(* Those that came back and those that stay are apart.                     *)
LEMMA NumberedRest ==
  ASSUME NEW s \in Seq(Blocks), NEW k \in 0 .. Len(s),
         NEW P, P \subseteq NumberedIn(s), P \subseteq 1 .. k
  PROVE  /\ Cardinality(P) \in Nat
         /\ Cardinality(P) + Cardinality(NumberedIn(SubSeq(s, k + 1, Len(s))))
              <= Cardinality(NumberedIn(s))
<1> DEFINE r == SubSeq(s, k + 1, Len(s))
           S == NumberedIn(s)
           R == NumberedIn(r)
           f == [i \in R |-> i + k]
<1>1. r \in Seq(Blocks) /\ Len(r) = Len(s) - k /\ \A i \in 1 .. Len(r) : r[i] = s[i + k]
  <2>1. k + 1 \in 1 .. Len(s) + 1 /\ Len(s) \in Nat /\ k \in Nat
    OBVIOUS
  <2>2. /\ Len(r) = Len(s) - k
        /\ \A i \in 1 .. Len(r) : r[i] = s[k + i] /\ k + i \in 1 .. Len(s)
    BY <2>1
  <2>3. r \in Seq(Blocks)
    BY <2>1, <2>2
  <2>4. QED
    BY <2>2, <2>3
<1> HIDE DEF r
<1>2. IsFiniteSet(S) /\ Cardinality(S) \in Nat
  BY NumberedFinite
<1>3. IsFiniteSet(P) /\ Cardinality(P) \in Nat
  BY <1>2, FS_Subset, FS_CardinalityType
<1>4. f \in Injection(R, S \ P)
  <2>1. \A i \in R : i + k \in S \ P
    BY <1>1 DEF NumberedIn
  <2>2. \A i \in R : i \in Nat
    BY DEF NumberedIn
  <2>3. \A i, j \in R : f[i] = f[j] => i = j
    BY <2>2
  <2> HIDE DEF R, S
  <2>4. f \in [R -> S \ P]
    BY <2>1
  <2> HIDE DEF f
  <2>5. QED
    BY <2>3, <2>4 DEF Injection, IsInjective
<1> HIDE DEF R, S, f
<1>5. IsFiniteSet(S \ P) /\ S \ P \in SUBSET S /\ P \in SUBSET S
  BY <1>2, FS_Subset DEF S
<1>6. IsFiniteSet(R) /\ Cardinality(R) <= Cardinality(S \ P)
  BY <1>4, <1>5, FS_Injection
<1>7. Cardinality(R) \in Nat /\ Cardinality(S \ P) \in Nat
  BY <1>5, <1>6, FS_CardinalityType
<1>8. Cardinality(S \ P) + Cardinality(P) = Cardinality(S)
  <2>1. Cardinality(S \ P) = Cardinality(S) - Cardinality(S \cap P)
    BY <1>2, FS_Difference DEF S
  <2>2. Cardinality(S \cap P) = Cardinality(P)
    <3>1. S \cap P = P
      BY <1>5
    <3>2. QED
      BY <3>1
  <2>3. QED
    BY <1>2, <1>3, <1>7, <2>1, <2>2
<1>9. Cardinality(P) + Cardinality(R) <= Cardinality(S)
  BY <1>3, <1>6, <1>7, <1>8
<1>10. QED
  BY <1>3, <1>9 DEF R, S, r

(* A set of numbers that has what is below its members.                    *)
LEMMA Segment ==
  ASSUME NEW m \in Nat, NEW G \in SUBSET (0 .. m - 1),
         \A i \in G : 0 .. i \subseteq G
  PROVE  Cardinality(G) \in 0 .. m /\ G = 0 .. Cardinality(G) - 1
<1>1. \A a, b \in Int : IsFiniteSet(a .. b)
                          /\ Cardinality(a .. b) = IF a > b THEN 0 ELSE b - a + 1
  BY FS_Interval
<1>2. IsFiniteSet(0 .. m - 1) /\ Cardinality(0 .. m - 1) = m
  BY <1>1
<1>3. IsFiniteSet(G) /\ Cardinality(G) <= m
  BY <1>2, FS_Subset
<1>4. Cardinality(G) \in Nat
  BY <1>3, FS_CardinalityType
<1> DEFINE n == Cardinality(G)
<1> HIDE DEF n
<1>5. n \in Nat /\ n <= m
  BY <1>3, <1>4 DEF n
<1>6. ASSUME NEW i \in G PROVE i \in 0 .. n - 1
  <2>1. i \in Nat /\ 0 .. i \in SUBSET G
    OBVIOUS
  <2>2. Cardinality(0 .. i) <= n
    BY <1>3, <2>1, FS_Subset DEF n
  <2>3. Cardinality(0 .. i) = i + 1
    BY <1>1, <2>1
  <2>4. QED
    BY <1>5, <2>1, <2>2, <2>3
<1>7. IsFiniteSet(0 .. n - 1) /\ Cardinality(0 .. n - 1) = n
  BY <1>1, <1>5
<1>8. G = 0 .. n - 1
  <2>1. G \in SUBSET (0 .. n - 1)
    BY <1>6
  <2>2. QED
    BY <1>7, <2>1, FS_Subset DEF n
<1>9. QED
  BY <1>5, <1>8 DEF n

(* The worker is at packet, the next one to submit, which was written, or  *)
(* is in the circle and not near the end of the numbers.                   *)
PacketReady ==
  /\ {packet, last, eos} \subseteq Numbers /\ eos_empty \in BOOLEAN /\ fallback \in BOOLEAN
  /\ marked \subseteq Numbers /\ cut \in Cuts
  /\ eos \in marked \cup {NoPacket}
  /\ IF last = NoPacket
     THEN cut = "whole" /\ packet + Sources <= NoPacket /\ marked = {}
     ELSE packet <= last /\ (cut # "whole" => packet \in marked)

(* What the worker submits is one block for the packets from packet to its *)
(* last one, all of which were written, or in the circle.                  *)
Submittable(b) ==
  /\ b \in Blocks
  /\ packet <= b.upto /\ (last # NoPacket => b.upto <= last) /\ b.upto < NoPacket
  /\ b.cut # "whole" => b.upto \in marked

(* The packets that fill a fallback period (Gathered) follow one another;  *)
(* none is past what was written, and only the last can be the end of the  *)
(* stream.                                                                 *)
LEMMA GatheredIs ==
  ASSUME PacketReady
  PROVE  /\ Cardinality(Gathered) \in 0 .. Sources
         /\ Gathered = 0 .. Cardinality(Gathered) - 1
         /\ \A i \in Gathered : /\ Plus(packet, i) = packet + i /\ packet + i < NoPacket
                                /\ last # NoPacket => packet + i <= last
                                /\ Plus(packet, i) = eos => i = Cardinality(Gathered) - 1
<1>1. Cardinality(Gathered) \in 0 .. Sources /\ Gathered = 0 .. Cardinality(Gathered) - 1
  <2>1. Gathered \in SUBSET (0 .. Sources - 1)
    BY DEF Gathered
  <2>2. ASSUME NEW i \in Gathered, NEW h \in 0 .. i PROVE h \in Gathered
    <3>1. /\ i \in 0 .. Sources - 1
          /\ \A j \in 0 .. i :
               /\ last # NoPacket => LessOrEqual(Plus(packet, j), last)
               /\ j < i => Plus(packet, j) # eos
      BY DEF Gathered
    <3>2. h \in 0 .. Sources - 1
      BY <3>1, RenderConstants
    <3>3. ASSUME NEW j \in 0 .. h
          PROVE  /\ last # NoPacket => LessOrEqual(Plus(packet, j), last)
                 /\ j < h => Plus(packet, j) # eos
      <4>1. j \in 0 .. i /\ (j < h => j < i)
        BY <3>1, RenderConstants
      <4>2. QED
        BY <3>1, <4>1, Zenon
    <3>4. QED
      BY <3>2, <3>3 DEF Gathered
  <2>3. QED
    BY <2>1, <2>2, RenderConstants, Segment
<1>2. ASSUME NEW i \in Gathered
      PROVE  /\ Plus(packet, i) = packet + i /\ packet + i < NoPacket
             /\ last # NoPacket => packet + i <= last
             /\ Plus(packet, i) = eos => i = Cardinality(Gathered) - 1
  <2>1. i \in 0 .. Sources - 1 /\ i \in Nat /\ packet \in Numbers /\ last \in Numbers
    BY RenderConstants DEF Gathered, PacketReady
  <2>2. last # NoPacket => LessOrEqual(Plus(packet, i), last)
    BY <2>1 DEF Gathered
  <2>3. last # NoPacket => packet + i <= last
    BY <2>1, <2>2, NotFarPast DEF PacketReady
  <2>4. packet + i < NoPacket
    BY <2>1, <2>3, RenderConstants, Constants DEF PacketReady, Numbers, NoPacket
  <2>5. Plus(packet, i) = packet + i
    BY <2>1, <2>4, SumSmall, Constants DEF NoPacket, Numbers
  <2>6. ASSUME Plus(packet, i) = eos PROVE i = Cardinality(Gathered) - 1
    <3> DEFINE n == Cardinality(Gathered)
    <3>1. n \in Nat /\ i \in 0 .. n - 1 /\ Gathered = 0 .. n - 1
      BY <1>1
    <3>2. n - 1 \in Gathered
      BY <3>1
    <3>3. ~(i < n - 1)
      BY <2>1, <2>6, <3>1, <3>2 DEF Gathered
    <3> HIDE DEF n
    <3>4. QED
      BY <3>1, <3>3 DEF n
  <2>7. QED
    BY <2>3, <2>4, <2>5, <2>6
<1>3. QED
  BY <1>1, <1>2

(* Whatever SubmitRenderPacket submits is such a block.                    *)
LEMMA PreparedIs ==
  ASSUME PacketReady, fallback = TRUE => Gathered # {} /\ FallbackBlock.source > 0
  PROVE  Submittable(Prepared)
<1>1. packet \in Numbers /\ packet < NoPacket
  BY RenderConstants, Constants DEF PacketReady, Numbers, NoPacket
<1>2. CASE fallback = FALSE
  <2>1. Prepared = Block(packet, 1, packet, cut)
    BY <1>2 DEF Prepared
  <2>2. Prepared \in Blocks
    BY <1>1, <2>1, RenderConstants DEF PacketReady, Blocks, Block
  <2>3. Prepared.upto = packet /\ Prepared.cut = cut
    BY <2>1 DEF Block
  <2>4. QED
    BY <1>1, <2>2, <2>3 DEF PacketReady, Submittable, Numbers
<1>3. CASE fallback = TRUE
  <2> DEFINE n == Cardinality(Gathered)
             end == \E i \in Gathered : Plus(packet, i) = eos
             source == IF end /\ eos_empty THEN n - 1 ELSE n
             shape == IF ~end THEN "whole" ELSE IF eos_empty THEN "nothing" ELSE "part"
  <2>1. n \in 0 .. Sources /\ Gathered = 0 .. n - 1
    BY GatheredIs
  <2>2. n \in 1 .. Sources /\ n - 1 \in Gathered
    <3> HIDE DEF n
    <3>1. QED
      BY <1>3, <2>1
  <2>3. /\ Plus(packet, n - 1) = packet + (n - 1) /\ packet + (n - 1) < NoPacket
        /\ last # NoPacket => packet + (n - 1) <= last
    BY <2>2, GatheredIs
  <2>4. end => Plus(packet, n - 1) = eos
    BY GatheredIs
  <2>5. Prepared = Block(packet, source, Plus(packet, n - 1), shape)
    BY <1>3 DEF Prepared, FallbackBlock
  <2> HIDE DEF n, end
  <2>6. Plus(packet, n - 1) \in Numbers
    BY <1>1, <2>2, <2>3, Constants DEF Numbers, NoPacket
  <2>7. source \in 0 .. Sources /\ shape \in Cuts
    BY <2>2, RenderConstants DEF Cuts
  <2>8. Prepared \in Blocks
    BY <1>1, <2>5, <2>6, <2>7 DEF Blocks, Block
  <2>9. Prepared.upto = Plus(packet, n - 1) /\ Prepared.cut = shape
    BY <2>5 DEF Block
  <2>10. packet <= packet + (n - 1)
    BY <1>1, <2>2 DEF Numbers
  <2>11. shape # "whole" => Plus(packet, n - 1) \in marked
    <3>1. SUFFICES ASSUME end PROVE Plus(packet, n - 1) \in marked
      OBVIOUS
    <3>2. eos \in marked \cup {NoPacket} /\ eos = packet + (n - 1) /\ eos # NoPacket
      BY <2>3, <2>4, <3>1, <2>6, RenderConstants, Constants DEF PacketReady, Numbers, NoPacket
    <3>3. QED
      BY <2>4, <3>1, <3>2
  <2>12. QED
    BY <2>3, <2>8, <2>9, <2>10, <2>11 DEF Submittable
<1>4. QED
  BY <1>2, <1>3 DEF PacketReady

(* The packets of such a block, one after the other.                       *)
LEMMA TakenIs ==
  ASSUME PacketReady, NEW b, Submittable(b)
  PROVE  /\ Taken(b) \in Seq(Numbers)
         /\ Len(Taken(b)) = b.upto - packet + 1
         /\ \A i \in 1 .. b.upto - packet + 1 : Taken(b)[i] = packet + i - 1
<1> DEFINE u == b.upto
<1>1. packet \in Numbers /\ u \in Numbers /\ packet <= u
  BY DEF PacketReady, Submittable, Blocks
<1> DEFINE n == u - packet + 1
<1>2. Minus(u, packet) + 1 = n
  <2> HIDE DEF u
  <2>1. Minus(u, packet) = Difference(u, packet)
    BY <1>1, MinusIsDifference
  <2>2. QED
    BY <1>1, <2>1 DEF Difference, Numbers
<1>3. Taken(b) = [i \in 1 .. n |-> Plus(packet, i - 1)]
  BY <1>2 DEF Taken
<1> HIDE DEF u, n
<1>4. \A i \in 1 .. n : Plus(packet, i - 1) = packet + i - 1 /\ Plus(packet, i - 1) \in Numbers
  <2> TAKE i \in 1 .. n
  <2>1. i - 1 \in Nat /\ packet + (i - 1) < Modulus
    BY <1>1, Constants DEF Numbers, n
  <2>2. Plus(packet, i - 1) = packet + (i - 1) /\ Plus(packet, i - 1) \in Numbers
    BY <1>1, <2>1, SumSmall
  <2>3. QED
    BY <1>1, <2>1, <2>2 DEF Numbers
<1>5. n \in Nat
  BY <1>1 DEF Numbers, n
<1>6. Taken(b) \in Seq(Numbers) /\ Len(Taken(b)) = n
  BY <1>3, <1>4, <1>5
<1>7. \A i \in 1 .. n : Taken(b)[i] = packet + i - 1
  BY <1>3, <1>4
<1>8. QED
  BY <1>6, <1>7 DEF n, u

PacketsTypes ==
  /\ state \in {"STOP", "PAUSE", "RUN"}
  /\ next_submit \in Numbers /\ last \in Numbers /\ eos \in Numbers /\ eos_empty \in BOOLEAN
  /\ count \in Numbers /\ position \in Nat
  /\ start \in Nat /\ running \in BOOLEAN /\ elapsed \in Nat
  /\ fallback \in BOOLEAN /\ attempted \in BOOLEAN
  /\ tx \in Seq(Blocks) /\ (Len(tx) <= Preroll \/ Len(tx) <= AtMost(Outstanding))
  /\ loop \in {"none", "wait", "monitor", "restart", "submit", "measure", "post"}
  /\ target \in Nat /\ target <= AtMost(Outstanding)
  /\ loop \in {"measure", "post"} => Len(tx) < target
  /\ packet \in Numbers /\ cut \in Cuts
  /\ client \in {"idle", "down", "last", "eos", "length", "clear"} /\ arg \in Numbers
  /\ written \in BOOLEAN /\ first \in Numbers
  /\ sent \in Seq(Numbers) /\ marked \subseteq Numbers
  /\ circled \in BOOLEAN /\ astray \in BOOLEAN

(* The worker runs until the client has stopped the stream.                *)
Threads ==
  /\ loop = "none" <=> state # "RUN" /\ client # "down"
  /\ client = "down" => state # "RUN"
  /\ running = TRUE <=> loop # "none"
  /\ loop = "none" => tx = <<>>

(* What the client is at, and what it has marked.                          *)
Writing ==
  /\ client \in {"last", "eos"} => written = TRUE /\ arg # NoPacket /\ arg \notin marked
  /\ client = "last" => IF last = NoPacket THEN arg = first /\ arg = next_submit
                                           ELSE arg = last + 1
  /\ client = "eos" => arg = last
  /\ written = TRUE /\ last = NoPacket => client = "last"
  /\ eos \in marked \cup {NoPacket}
  /\ last = NoPacket => marked = {} /\ sent = <<>>
  /\ last # NoPacket => \A p \in marked : p <= last

(* What was handed over, from the first packet to the next one.            *)
SentInOrder ==
  last # NoPacket =>
    /\ first <= next_submit /\ next_submit <= last + 1
    /\ Len(sent) = next_submit - first
    /\ \A i \in 1 .. Len(sent) : sent[i] = first + i - 1

(* The packet the worker is at.                                            *)
Chosen ==
  loop \in {"measure", "post"} =>
    /\ packet = next_submit
    /\ IF last = NoPacket
       THEN /\ written = FALSE /\ circled = TRUE /\ cut = "whole" /\ loop = "post"
            /\ packet + Sources <= NoPacket
       ELSE /\ packet <= last
            /\ loop = "measure" \/ cut # "whole" => packet \in marked

Whole == \A i \in 1 .. Len(tx) : tx[i].cut # "whole" => tx[i].upto \in marked

(* The count of packets played, and those that will be, say how far the    *)
(* client may go.  After the circle the count may be ahead of the packets  *)
(* by the blocks the device had, and wrap before them: b is the count      *)
(* without its wrap, a whole turn of the numbers ahead.                    *)
BufferNumbered == Cardinality(NumberedIn(tx))

Ahead(b) ==
  /\ count = Wrap(b)
  /\ b + BufferNumbered <= next_submit + Modulus + (IF circled = TRUE THEN N ELSE 0)
  /\ last # NoPacket => last + Modulus < b + N
  /\ client = "last" => arg + Modulus < b + N

Bounded ==
  /\ BufferNumbered <= N
  /\ client = "last" \/ last # NoPacket => \E b \in Nat : Ahead(b)
  /\ client # "last" /\ last = NoPacket /\ circled = FALSE => count = 0 /\ BufferNumbered = 0

Straight == Writing /\ SentInOrder /\ Chosen /\ Whole /\ Bounded
PacketsIInv == PacketsTypes /\ Threads /\ (astray = FALSE => Straight)

-----------------------------------------------------------------------------
(* The worker aims at no more blocks than the buffer has packets.          *)
LEMMA Targets ==
  /\ \A n \in Nat : AtMost(n) \in Nat /\ AtMost(n) <= N
  /\ AtMost(Fallback) <= AtMost(Outstanding)
  /\ AtMost(Cyclic) <= AtMost(Outstanding)
  /\ TargetOutstanding \in Nat /\ TargetOutstanding <= AtMost(Outstanding)
<1>1. /\ \A n \in Nat : AtMost(n) \in Nat /\ AtMost(n) <= N
      /\ AtMost(Fallback) <= AtMost(Outstanding)
      /\ AtMost(Cyclic) <= AtMost(Outstanding)
  BY RenderConstants, Constants DEF AtMost, Least
<1>2. TargetOutstanding \in {AtMost(Fallback), AtMost(Cyclic), AtMost(Outstanding)}
  BY DEF TargetOutstanding
<1>3. QED
  BY <1>1, <1>2, RenderConstants

(* The silence that starts a stream holds no packet of the buffer.         *)
LEMMA PrerollIs ==
  ASSUME NEW k \in 0 .. Preroll
  PROVE  LET s == SubSeq(Prerolled, 1, k)
         IN  s \in Seq(Blocks) /\ Len(s) = k /\ NumberedIn(s) = {}
             /\ \A i \in 1 .. Len(s) : s[i].cut = "whole"
<1> DEFINE s == SubSeq(Prerolled, 1, k)
<1>1. Silence \in Blocks /\ Silence.number = NoPacket /\ Silence.cut = "whole"
  BY RenderConstants DEF Silence, Block, Blocks, Cuts
<1>2. \A i \in 1 .. k : Prerolled[i] = Silence
  BY RenderConstants DEF Prerolled
<1>3. k \in Nat
  BY RenderConstants
<1>4. /\ s \in Seq(Blocks)
      /\ Len(s) = IF 1 <= k THEN k - 1 + 1 ELSE 0
      /\ \A i \in 1 .. k - 1 + 1 : s[i] = Prerolled[1 + i - 1]
  BY <1>1, <1>2, <1>3, SubSeqProperties
<1> HIDE DEF s
<1>5. Len(s) = k
  BY <1>3, <1>4
<1>6. \A i \in 1 .. k : s[i] = Silence
  <2> TAKE i \in 1 .. k
  <2>1. i \in 1 .. k - 1 + 1 /\ 1 + i - 1 = i
    BY <1>3
  <2>2. QED
    BY <1>2, <1>4, <2>1
<1>7. NumberedIn(s) = {} /\ \A i \in 1 .. Len(s) : s[i].cut = "whole"
  BY <1>1, <1>5, <1>6 DEF NumberedIn
<1>8. QED
  BY <1>4, <1>5, <1>7 DEF s

LEMMA PrerolledIs ==
  /\ Prerolled \in Seq(Blocks) /\ Len(Prerolled) = Preroll /\ NumberedIn(Prerolled) = {}
  /\ \A i \in 1 .. Len(Prerolled) : Prerolled[i].cut = "whole"
<1>1. Silence \in Blocks /\ Silence.number = NoPacket /\ Silence.cut = "whole"
  BY RenderConstants DEF Silence, Block, Blocks, Cuts
<1>2. Prerolled \in Seq(Blocks) /\ Len(Prerolled) = Preroll
  BY <1>1, RenderConstants DEF Prerolled
<1>3. \A i \in 1 .. Preroll : Prerolled[i] = Silence
  BY DEF Prerolled
<1>4. QED
  BY <1>1, <1>2, <1>3 DEF NumberedIn

(* The blocks that come back add to the count and the position, no more    *)
(* packets than were there.                                                *)
LEMMA ReclaimedIs ==
  ASSUME PacketsTypes, NEW k \in 0 .. Len(tx), NEW E
  PROVE  /\ Cardinality(Played(k, E)) \in Nat
         /\ Cardinality(Played(k, E)) + Cardinality(NumberedIn(SubSeq(tx, k + 1, Len(tx))))
              <= BufferNumbered
         /\ Cardinality(PeriodsPlayed(k, E)) \in Nat
<1>1. tx \in Seq(Blocks) /\ Len(tx) \in Nat
  BY DEF PacketsTypes
<1>2. Played(k, E) \subseteq NumberedIn(tx) /\ Played(k, E) \subseteq 1 .. k
  BY <1>1 DEF Played, NumberedIn
<1>3. /\ Cardinality(Played(k, E)) \in Nat
      /\ Cardinality(Played(k, E)) + Cardinality(NumberedIn(SubSeq(tx, k + 1, Len(tx))))
           <= BufferNumbered
  <2> HIDE DEF Played
  <2>1. QED
    BY <1>1, <1>2, NumberedRest DEF BufferNumbered
<1>4. IsFiniteSet(NumberedIn(tx))
  BY <1>1, NumberedFinite
<1>5. IsFiniteSet(Played(k, E)) /\ IsFiniteSet(1 .. Sources)
  <2>1. Played(k, E) \in SUBSET NumberedIn(tx)
    BY <1>2
  <2>2. IsFiniteSet(Played(k, E))
    BY <1>4, <2>1, FS_Subset
  <2>3. 1 \in Int /\ Sources \in Int
    BY RenderConstants
  <2>4. QED
    BY <2>2, <2>3, FS_Interval
<1>6. IsFiniteSet(Played(k, E) \X (1 .. Sources))
  BY <1>5, FS_Product
<1>7. PeriodsPlayed(k, E) \in SUBSET (Played(k, E) \X (1 .. Sources))
  BY Zenon DEF PeriodsPlayed
<1>8. Cardinality(PeriodsPlayed(k, E)) \in Nat
  BY <1>6, <1>7, FS_Subset, FS_CardinalityType
<1>9. QED
  BY <1>3, <1>8

(* The invariant holds at first, ...                                       *)
LEMMA PacketsInitInv == ASSUME PacketsInit PROVE PacketsIInv
<1>1. 0 \in Numbers /\ NoPacket \in Numbers
  BY RenderConstants, Constants DEF Numbers
<1>2. AtMost(Outstanding) \in Nat
  BY Targets, RenderConstants
<1>3. NumberedIn(<<>>) = {} /\ Cardinality({}) = 0
  BY FS_EmptySet DEF NumberedIn
<1>4. PacketsTypes
  <2>1. tx \in Seq(Blocks) /\ Len(tx) <= Preroll /\ sent \in Seq(Numbers)
    BY RenderConstants DEF PacketsInit
  <2>2. marked = {} /\ cut \in Cuts
    BY DEF PacketsInit, Cuts
  <2>3. QED
    <3>1. /\ state \in {"STOP", "PAUSE", "RUN"} /\ client = "idle" /\ loop = "none"
          /\ {next_submit, last, eos, count, packet, arg, first} \subseteq Numbers
      BY <1>1 DEF PacketsInit
    <3>2. /\ eos_empty \in BOOLEAN /\ running \in BOOLEAN /\ fallback \in BOOLEAN
          /\ attempted \in BOOLEAN /\ written \in BOOLEAN /\ circled \in BOOLEAN
          /\ astray \in BOOLEAN
      BY DEF PacketsInit
    <3>3. position = 0 /\ start = 0 /\ elapsed = 0 /\ target = 0 /\ marked \subseteq Numbers
      BY DEF PacketsInit
    <3>4. QED
      BY <1>2, <2>1, <2>2, <3>1, <3>2, <3>3 DEF PacketsTypes
<1>5. Threads /\ Writing /\ SentInOrder /\ Chosen /\ Whole
  BY DEF PacketsInit, Threads, Writing, SentInOrder, Chosen, Whole
<1>6. Bounded
  <2>1. BufferNumbered = 0
    BY <1>3 DEF PacketsInit, BufferNumbered
  <2>2. QED
    BY <2>1, Constants DEF PacketsInit, Bounded
<1>7. QED
  BY <1>4, <1>5, <1>6 DEF PacketsIInv, Straight

(* A packet that the worker is at is ready to be submitted, because the    *)
(* invariant keeps it so.                                                  *)
LEMMA ReadyIs ==
  ASSUME PacketsIInv, astray = FALSE, loop \in {"measure", "post"}
  PROVE  PacketReady
BY DEF PacketsIInv, PacketsTypes, Straight, Writing, Chosen, PacketReady

LEMMA SumNumber == \A m \in Numbers, k \in Nat : Plus(m, k) \in Numbers
BY SumSmall

LEMMA OfferedNumber ==
  ASSUME PacketsTypes, NEW p, Offered(p)
  PROVE  p \in Numbers
BY SumNumber DEF PacketsTypes, Offered

(* What the worker's packets and the number after them are.                *)
LEMMA SubmitIs ==
  ASSUME PacketsIInv, astray = FALSE, SubmitRenderPacket
  PROVE  /\ PacketReady /\ Submittable(Prepared) /\ Prepared.upto \in Numbers
         /\ next_submit' = Prepared.upto + 1 /\ next_submit' \in Numbers
<1>1. PacketReady
  BY ReadyIs DEF SubmitRenderPacket, WorkerGoes
<1>2. Submittable(Prepared)
  BY <1>1, PreparedIs DEF SubmitRenderPacket
<1>3. Prepared.upto \in Numbers /\ Prepared.upto < NoPacket
  BY <1>2 DEF Submittable, Blocks
<1>4. next_submit' = Plus(Prepared.upto, 1)
  BY DEF SubmitRenderPacket
<1>5. QED
  BY <1>1, <1>2, <1>3, <1>4, NextNumber, Constants DEF Numbers, NoPacket

(* The blocks that come back: the position does not go back.               *)
LEMMA ReclaimIs ==
  ASSUME PacketsTypes, NEW k \in 0 .. Len(tx), NEW E, ReclaimRenderPackets(k, E)
  PROVE  count' \in Numbers /\ position' \in Nat /\ position <= position'
<1> DEFINE c == Cardinality(Played(k, E))  d == Cardinality(PeriodsPlayed(k, E))
<1>1. c \in Nat /\ d \in Nat
  BY ReclaimedIs
<1>2. count' = Plus(count, c) /\ position' = position + d
  BY DEF ReclaimRenderPackets
<1> HIDE DEF c, d
<1>3. QED
  BY <1>1, <1>2, SumNumber DEF PacketsTypes

LEMMA ForgetIs ==
  ASSUME Forget
  PROVE  /\ written' \in BOOLEAN /\ first' \in Numbers /\ circled' \in BOOLEAN
         /\ sent' \in Seq(Numbers) /\ marked' \subseteq Numbers
<1>1. <<>> \in Seq(Numbers) /\ {} \subseteq Numbers
  OBVIOUS
<1>2. QED
  BY <1>1, RenderConstants DEF Forget

LEMMA ResetIs ==
  ASSUME Reset
  PROVE  /\ next_submit' \in Numbers /\ last' \in Numbers /\ eos' \in Numbers
         /\ eos_empty' \in BOOLEAN /\ count' \in Numbers /\ position' \in Nat
         /\ fallback' \in BOOLEAN /\ attempted' \in BOOLEAN
<1>1. 0 \in Numbers
  BY Constants DEF Numbers
<1>2. QED
  BY <1>1, RenderConstants DEF Reset

(* The types, ...                                                          *)
LEMMA PacketsTypesStep ==
  ASSUME PacketsIInv, astray = FALSE, [PacketsNext]_packetsVars
  PROVE  PacketsTypes'
<1> USE DEF numberVars, playedVars, clockVars, modeVars, workerVars, clientVars, historyVars,
            clientAll, WorkerGoes
<1>1. PacketsTypes /\ NoPacket \in Numbers /\ 0 \in Numbers /\ "whole" \in Cuts
  BY RenderConstants, Constants DEF PacketsIInv, Numbers, Cuts
<1>2. /\ TargetOutstanding \in Nat /\ TargetOutstanding <= AtMost(Outstanding)
      /\ AtMost(Outstanding) \in Nat /\ Preroll \in Nat /\ Outstanding \in Nat
  BY Targets, RenderConstants
<1>3. CASE SetStateRun
  <2>1. tx' \in Seq(Blocks) /\ (Len(tx') <= Preroll \/ Len(tx') <= AtMost(Outstanding))
    <3>1. CASE tx' = Prerolled
      BY <1>2, <3>1, PrerolledIs
    <3>2. CASE tx' = tx
      BY <1>1, <3>2 DEF PacketsTypes
    <3>3. QED
      BY <1>3, <3>1, <3>2 DEF SetStateRun
  <2>2. /\ state' \in {"STOP", "PAUSE", "RUN"}
        /\ loop' = loop \/ loop' = "wait"
        /\ start' \in Nat /\ running' \in BOOLEAN /\ elapsed' \in Nat
    <3>1. CASE state' = "RUN" /\ loop' = "wait" /\ start' = position /\ running' = TRUE
               /\ elapsed' = 0
      BY <1>1, <3>1 DEF PacketsTypes
    <3>2. CASE UNCHANGED <<state, loop, clockVars>>
      BY <1>1, <3>2 DEF PacketsTypes
    <3>3. QED
      BY <1>3, <3>1, <3>2 DEF SetStateRun
  <2>3. loop' \in {"measure", "post"} => Len(tx') < target'
    BY <1>1, <1>3 DEF PacketsTypes, SetStateRun
  <2>4. QED
    BY <1>1, <1>3, <2>1, <2>2, <2>3 DEF PacketsTypes, SetStateRun
<1>4. CASE SetStateDown
  BY <1>1, <1>4 DEF PacketsTypes, SetStateDown
<1>5. CASE Down
  <2>1. ClockPosition \in Nat
    BY <1>1 DEF PacketsTypes, ClockPosition
  <2>2. count' \in Numbers /\ position' \in Nat
    <3>1. CASE state = "STOP"
      BY <1>5, <3>1, ResetIs DEF Down
    <3>2. CASE state # "STOP"
      <4>1. PICK k \in 0 .. Len(tx) : count' = Plus(count, Cardinality(Played(k, {})))
        BY <1>5, <3>2 DEF Down
      <4>2. Cardinality(Played(k, {})) \in Nat
        BY <1>1, ReclaimedIs
      <4>3. count' \in Numbers
        BY <1>1, <4>1, <4>2, SumNumber DEF PacketsTypes
      <4>4. QED
        BY <1>5, <2>1, <3>2, <4>3 DEF Down, Settle
    <3>3. QED
      BY <3>1, <3>2
  <2>3. tx' \in Seq(Blocks) /\ Len(tx') <= Preroll
    BY <1>2, <1>5 DEF Down
  <2>4. CASE state = "STOP"
    <3>1. Reset /\ Forget
      BY <1>5, <2>4 DEF Down
    <3>2. QED
      BY <1>1, <1>5, <2>3, <3>1, ResetIs, ForgetIs DEF PacketsTypes, Down
  <2>5. CASE state # "STOP"
    BY <1>1, <1>5, <2>2, <2>3, <2>5 DEF PacketsTypes, Down
  <2>6. QED
    BY <2>4, <2>5
<1>6. CASE SetStateOther
  BY <1>1, <1>6 DEF PacketsTypes, SetStateOther
<1>7. CASE FreeAudioBuffer
  <2>1. Reset /\ Forget
    BY <1>7 DEF FreeAudioBuffer
  <2>2. QED
    BY <1>1, <1>7, <2>1, ResetIs, ForgetIs DEF PacketsTypes, FreeAudioBuffer
<1>8. CASE SetWritePacket
  <2>1. PICK p \in 0 .. MaxPacket :
          /\ Offered(p)
          /\ next_submit' = IF last = NoPacket THEN p ELSE next_submit
          /\ first' = IF written THEN first ELSE p
          /\ astray' = (astray \/ Astray(p))
          /\ arg' = p
    BY <1>8 DEF SetWritePacket
  <2>2. p \in Numbers
    BY <1>1, <2>1, OfferedNumber
  <2>3. astray' \in BOOLEAN
    BY <1>1, <2>1 DEF PacketsTypes
  <2>4. QED
    BY <1>1, <1>8, <2>1, <2>2, <2>3 DEF PacketsTypes, SetWritePacket
<1>9. CASE SetLastWritten
  BY <1>1, <1>9 DEF PacketsTypes, SetLastWritten
<1>10. CASE SetEos
  BY <1>1, <1>10 DEF PacketsTypes, SetEos
<1>11. CASE SetEosLength
  <2>1. eos_empty' \in BOOLEAN /\ client' = "idle"
    BY <1>11 DEF SetEosLength
  <2>2. /\ UNCHANGED <<state, next_submit, last, eos, playedVars, clockVars, modeVars, tx>>
        /\ UNCHANGED <<workerVars, arg, historyVars>>
    BY <1>11 DEF SetEosLength
  <2>3. QED
    BY <1>1, <2>1, <2>2 DEF PacketsTypes
<1>12. CASE Reclaim
  <2>1. PICK k \in 0 .. Len(tx) : \E E \in SUBSET (1 .. k) :
          ReclaimRenderPackets(k, E) /\ tx' = SubSeq(tx, k + 1, Len(tx))
    BY <1>12 DEF Reclaim
  <2>2. PICK E \in SUBSET (1 .. k) :
          ReclaimRenderPackets(k, E) /\ tx' = SubSeq(tx, k + 1, Len(tx))
    BY <2>1
  <2>3. count' \in Numbers /\ position' \in Nat
    BY <1>1, <2>2, ReclaimIs
  <2>4. tx \in Seq(Blocks) /\ k + 1 \in 1 .. Len(tx) + 1 /\ Len(tx) \in Nat
    BY <1>1 DEF PacketsTypes
  <2>5. tx' \in Seq(Blocks) /\ Len(tx') <= Len(tx) /\ Len(tx') \in Nat
    BY <2>2, <2>4
  <2>6. Len(tx') <= Preroll \/ Len(tx') <= AtMost(Outstanding)
    BY <1>1, <1>2, <2>4, <2>5 DEF PacketsTypes
  <2>7. QED
    BY <1>1, <1>12, <2>3, <2>5, <2>6 DEF PacketsTypes, Reclaim
<1>13. CASE Monitor
  BY <1>1, <1>2, <1>13 DEF PacketsTypes, Monitor
<1>14. CASE Switch
  <2>1. PICK k \in 0 .. Len(tx) : ReclaimRenderPackets(k, {})
    BY <1>14 DEF Switch, CancelRenderWrites
  <2>3. count' \in Numbers /\ position' \in Nat
    BY <1>1, <2>1, ReclaimIs
  <2>4. tx' \in Seq(Blocks) /\ Len(tx') <= Preroll
    <3>1. CASE tx' = Prerolled
      BY <1>2, <3>1, PrerolledIs
    <3>2. CASE \E i \in 0 .. Preroll : tx' = SubSeq(Prerolled, 1, i)
      BY <1>2, <3>2, PrerollIs
    <3>3. QED
      BY <1>14, <3>1, <3>2 DEF Switch
  <2>5. QED
    BY <1>1, <1>2, <1>14, <2>3, <2>4 DEF PacketsTypes, Switch
<1>15. CASE Restart
  BY <1>1, <1>2, <1>15 DEF PacketsTypes, Restart
<1>16. CASE Choose
  <2>1. astray' \in BOOLEAN /\ circled' \in BOOLEAN /\ loop' \in {"measure", "post"}
    BY <1>1, <1>16 DEF PacketsTypes, Choose
  <2>2. QED
    BY <1>1, <1>16, <2>1 DEF PacketsTypes, Choose
<1>17. CASE Measure
  BY <1>1, <1>17 DEF PacketsTypes, Measure, Cuts
<1>18. CASE SubmitRenderPacket
  <2>1. Prepared \in Blocks /\ next_submit' \in Numbers /\ Taken(Prepared) \in Seq(Numbers)
    BY <1>18, SubmitIs, TakenIs DEF Submittable
  <2>2. tx' \in Seq(Blocks) /\ Len(tx') = Len(tx) + 1
    BY <1>1, <1>18, <2>1 DEF PacketsTypes, SubmitRenderPacket
  <2>3. Len(tx') <= AtMost(Outstanding)
    BY <1>1, <1>2, <1>18, <2>2 DEF PacketsTypes, SubmitRenderPacket
  <2>4. sent' \in Seq(Numbers)
    BY <1>1, <1>18, <2>1 DEF PacketsTypes, SubmitRenderPacket
  <2>5. QED
    BY <1>1, <1>18, <2>1, <2>2, <2>3, <2>4 DEF PacketsTypes, SubmitRenderPacket
<1>19. CASE SubmitDone
  BY <1>1, <1>2, <1>19 DEF PacketsTypes, SubmitDone
<1>20. CASE Tick
  BY <1>1, <1>20 DEF PacketsTypes, Tick
<1>21. CASE UNCHANGED packetsVars
  BY <1>1, <1>21 DEF PacketsTypes, packetsVars
<1>22. QED
  BY <1>3, <1>4, <1>5, <1>6, <1>7, <1>8, <1>9, <1>10, <1>11, <1>12, <1>13, <1>14, <1>15,
     <1>16, <1>17, <1>18, <1>19, <1>20, <1>21
     DEF PacketsNext, ClientNext, WorkerNext, Lost

(* ... and the two threads.                                                *)
LEMMA ThreadsStep ==
  ASSUME PacketsIInv, astray = FALSE, [PacketsNext]_packetsVars
  PROVE  Threads'
<1> USE DEF numberVars, playedVars, clockVars, modeVars, workerVars, clientVars, historyVars,
            clientAll, WorkerGoes
<1>1. PacketsTypes /\ Threads
  BY DEF PacketsIInv
<1>2. CASE SetStateRun \/ SetStateDown \/ Down \/ SetStateOther \/ FreeAudioBuffer
  BY <1>1, <1>2 DEF PacketsTypes, Threads, SetStateRun, SetStateDown, Down, SetStateOther,
                    FreeAudioBuffer
<1>3. CASE SetWritePacket \/ SetLastWritten \/ SetEos \/ SetEosLength
  BY <1>1, <1>3 DEF PacketsTypes, Threads, SetWritePacket, SetLastWritten, SetEos, SetEosLength
<1>4. CASE Reclaim \/ Monitor \/ Switch \/ Restart
  BY <1>1, <1>4 DEF PacketsTypes, Threads, Reclaim, Monitor, Switch, Restart
<1>5. CASE Choose \/ Measure \/ SubmitRenderPacket \/ SubmitDone
  BY <1>1, <1>5 DEF PacketsTypes, Threads, Choose, Measure, SubmitRenderPacket, SubmitDone
<1>6. CASE Tick \/ UNCHANGED packetsVars
  BY <1>1, <1>6 DEF Threads, Tick, packetsVars
<1>7. QED
  BY <1>2, <1>3, <1>4, <1>5, <1>6 DEF PacketsNext, ClientNext, WorkerNext, Lost

(* A write that mixes up no numbers is the stream's first, or the next.    *)
LEMMA WriteIs ==
  ASSUME PacketsIInv, astray = FALSE, SetWritePacket, astray' = FALSE
  PROVE  \E p \in Numbers :
           /\ Offered(p) /\ p # NoPacket /\ arg' = p
           /\ client = "idle" /\ client' = "last" /\ written' = TRUE
           /\ \/ /\ written = TRUE /\ last # NoPacket /\ p = last + 1
                 /\ next_submit' = next_submit /\ first' = first
              \/ /\ written = FALSE /\ last = NoPacket /\ loop \notin {"measure", "post"}
                 /\ p \in {count, Plus(count, 1)}
                 /\ next_submit' = p /\ first' = p
<1>1. PICK p \in 0 .. MaxPacket :
        /\ Offered(p)
        /\ next_submit' = IF last = NoPacket THEN p ELSE next_submit
        /\ first' = IF written THEN first ELSE p
        /\ astray' = (astray \/ Astray(p))
        /\ arg' = p
  BY DEF SetWritePacket
<1>2. PacketsTypes /\ Writing
  BY DEF PacketsIInv, Straight
<1>3. p \in Numbers
  BY <1>1, <1>2, OfferedNumber
<1>4. ~Astray(p)
  BY <1>1
<1>5. client = "idle" /\ client' = "last" /\ written' = TRUE
  BY DEF SetWritePacket
<1>6. CASE written = TRUE
  <2>1. last # NoPacket
    BY <1>2, <1>5, <1>6 DEF Writing
  <2>2. p = Plus(last, 1)
    BY <1>1, <1>6 DEF Offered
  <2>3. p = last + 1
    BY <1>2, <2>1, <2>2, NextNumber DEF PacketsTypes
  <2>4. QED
    BY <1>1, <1>3, <1>4, <1>5, <1>6, <2>1, <2>3 DEF Astray
<1>7. CASE written = FALSE
  <2>1. last = NoPacket /\ loop \notin {"measure", "post"}
    BY <1>4, <1>7 DEF Astray
  <2>2. p \in {count, Plus(count, 1)}
    BY <1>1, <1>7 DEF Offered
  <2>3. QED
    BY <1>1, <1>3, <1>4, <1>5, <1>7, <2>1, <2>2 DEF Astray
<1>8. QED
  BY <1>2, <1>6, <1>7 DEF PacketsTypes

(* The stream is reset.                                                    *)
LEMMA ResetStraight ==
  ASSUME Reset, Forget, client' = "idle", loop' = "none", tx' = <<>>
  PROVE  Straight'
<1>1. NumberedIn(<<>>) = {} /\ Cardinality({}) = 0
  BY FS_EmptySet DEF NumberedIn
<1>2. BufferNumbered' = 0
  BY <1>1 DEF BufferNumbered
<1>3. Writing' /\ SentInOrder' /\ Chosen' /\ Whole'
  BY DEF Reset, Forget, Writing, SentInOrder, Chosen, Whole
<1>4. Bounded'
  BY <1>2, Constants DEF Reset, Forget, Bounded
<1>5. QED
  BY <1>3, <1>4 DEF Straight

LEMMA ResetStep ==
  ASSUME PacketsIInv, astray = FALSE, (Down /\ state = "STOP") \/ FreeAudioBuffer
  PROVE  Straight'
<1>1. Threads
  BY DEF PacketsIInv
<1>2. CASE Down /\ state = "STOP"
  BY <1>2, ResetStraight DEF Down
<1>3. CASE FreeAudioBuffer
  <2>1. Reset /\ Forget
    BY <1>3 DEF FreeAudioBuffer
  <2>2. client' = "idle" /\ loop' = "none" /\ tx' = <<>>
    BY <1>1, <1>3 DEF FreeAudioBuffer, Threads, workerVars, clientVars
  <2>3. QED
    BY <2>1, <2>2, ResetStraight
<1>4. QED
  BY <1>2, <1>3

(* Every other step.                                                       *)
Goes ==
  /\ PacketsIInv /\ astray = FALSE /\ astray' = FALSE
  /\ ~(Down /\ state = "STOP") /\ ~FreeAudioBuffer

(* What the client is at, ...                                              *)
LEMMA WritingStep ==
  ASSUME Goes, [PacketsNext]_packetsVars
  PROVE  Writing'
<1> USE DEF numberVars, playedVars, clockVars, modeVars, workerVars, clientVars, historyVars,
            clientAll, WorkerGoes
<1>1. PacketsTypes /\ Threads /\ Writing /\ Chosen /\ SentInOrder /\ astray = FALSE
      /\ astray' = FALSE /\ ~(Down /\ state = "STOP")
  BY DEF Goes, PacketsIInv, Straight
<1>2. CASE SetStateRun \/ SetStateDown \/ Down \/ SetStateOther
  BY <1>1, <1>2 DEF Writing, SetStateRun, SetStateDown, Down, SetStateOther
<1>3. CASE SetWritePacket
  <2>1. PICK p \in Numbers :
           /\ p # NoPacket /\ arg' = p
           /\ client' = "last" /\ written' = TRUE
           /\ \/ /\ last # NoPacket /\ p = last + 1
              \/ /\ last = NoPacket /\ next_submit' = p /\ first' = p
    BY <1>3, WriteIs DEF Goes
  <2>2. UNCHANGED <<last, eos, sent, marked>>
    BY <1>3 DEF SetWritePacket
  <2>3. last # NoPacket => p \notin marked
    BY <1>1, <2>1 DEF Writing, PacketsTypes, Numbers
  <2>4. QED
    BY <1>1, <2>1, <2>2, <2>3 DEF Writing
<1>4. CASE SetLastWritten
  <2>1. /\ client = "last" /\ client' = "eos" /\ last' = arg
        /\ UNCHANGED <<arg, eos, written, marked, sent, first, next_submit>>
    BY <1>4 DEF SetLastWritten
  <2>2. arg # NoPacket
    BY <1>1, <2>1 DEF Writing
  <2>3. \A p \in marked : p <= arg
    BY <1>1, <2>1 DEF Writing, PacketsTypes, Numbers
  <2>4. QED
    BY <1>1, <2>1, <2>2, <2>3 DEF Writing
<1>5. CASE SetEos
  <2>1. /\ client = "eos" /\ client' \in {"length", "clear", "idle"}
        /\ UNCHANGED <<last, written, sent, first, next_submit>>
    BY <1>5 DEF SetEos
  <2>2. arg = last /\ written = TRUE /\ arg # NoPacket /\ arg \notin marked
    BY <1>1, <2>1 DEF Writing
  <2>3. marked' \subseteq marked \cup {arg}
    BY <1>5 DEF SetEos
  <2>4. eos' \in marked' \cup {NoPacket}
    BY <1>1, <1>5, <2>2 DEF SetEos, Writing
  <2>5. \A p \in marked' : p <= last
    BY <1>1, <2>2, <2>3 DEF Writing, PacketsTypes, Numbers
  <2>6. QED
    BY <1>1, <2>1, <2>2, <2>4, <2>5 DEF Writing
<1>6. CASE SetEosLength
  BY <1>1, <1>6 DEF Writing, SetEosLength
<1>7. CASE Reclaim \/ Monitor \/ Switch \/ Restart
  BY <1>1, <1>7 DEF Writing, Reclaim, Monitor, Switch, Restart
<1>8. CASE Choose \/ Measure \/ SubmitDone
  BY <1>1, <1>8 DEF Writing, Choose, Measure, SubmitDone
<1>9. CASE SubmitRenderPacket
  <2>1. /\ UNCHANGED <<client, arg, last, eos, written, first, marked>>
        /\ loop = "post" /\ (last = NoPacket => sent' = sent)
    BY <1>9 DEF SubmitRenderPacket
  <2>2. last = NoPacket => client # "last"
    BY <1>1, <2>1 DEF Chosen, Writing
  <2>3. QED
    BY <1>1, <2>1, <2>2 DEF Writing
<1>10. CASE Tick \/ UNCHANGED packetsVars
  BY <1>1, <1>10 DEF Writing, Tick, packetsVars
<1>11. QED
  BY <1>2, <1>3, <1>4, <1>5, <1>6, <1>7, <1>8, <1>9, <1>10
     DEF PacketsNext, ClientNext, WorkerNext, Lost, Goes

(* ... what was handed over: SubmitRenderPacket adds the next packets; ... *)
LEMMA SentInOrderStep ==
  ASSUME Goes, [PacketsNext]_packetsVars
  PROVE  SentInOrder'
<1> USE DEF numberVars, playedVars, clockVars, modeVars, workerVars, clientVars, historyVars,
            clientAll, WorkerGoes
<1>1. PacketsTypes /\ Threads /\ Writing /\ Chosen /\ SentInOrder /\ astray = FALSE
      /\ astray' = FALSE /\ ~(Down /\ state = "STOP")
  BY DEF Goes, PacketsIInv, Straight
<1>2. CASE SetStateRun \/ SetStateDown \/ Down \/ SetStateOther
  BY <1>1, <1>2 DEF SentInOrder, SetStateRun, SetStateDown, Down, SetStateOther
<1>3. CASE SetWritePacket
  <2>1. last = NoPacket \/ (next_submit' = next_submit /\ first' = first)
    BY <1>3, WriteIs DEF Goes
  <2>2. UNCHANGED <<last, sent>>
    BY <1>3 DEF SetWritePacket
  <2>3. QED
    BY <1>1, <2>1, <2>2 DEF SentInOrder
<1>4. CASE SetLastWritten
  <2>1. client = "last" /\ last' = arg /\ UNCHANGED <<sent, first, next_submit>>
    BY <1>4 DEF SetLastWritten
  <2>2. CASE last = NoPacket
    <3>1. sent = <<>> /\ first = arg /\ next_submit = arg /\ arg \in Numbers
      BY <1>1, <2>1, <2>2 DEF Writing, PacketsTypes
    <3>2. Len(sent) = 0
      BY <3>1
    <3>3. QED
      BY <2>1, <3>1, <3>2 DEF SentInOrder, Numbers
  <2>3. CASE last # NoPacket
    <3>1. arg = last + 1
      BY <1>1, <2>1, <2>3 DEF Writing
    <3>2. QED
      BY <1>1, <2>1, <2>3, <3>1 DEF SentInOrder, PacketsTypes, Numbers
  <2>4. QED
    BY <2>2, <2>3
<1>5. CASE SetEos \/ SetEosLength
  BY <1>1, <1>5 DEF SentInOrder, SetEos, SetEosLength
<1>6. CASE Reclaim \/ Monitor \/ Switch \/ Restart
  BY <1>1, <1>6 DEF SentInOrder, Reclaim, Monitor, Switch, Restart
<1>7. CASE Choose \/ Measure \/ SubmitDone
  BY <1>1, <1>7 DEF SentInOrder, Choose, Measure, SubmitDone
<1>8. CASE SubmitRenderPacket
  <2> DEFINE b == Prepared  u == Prepared.upto  t == Taken(Prepared)
  <2>1. /\ PacketReady /\ Submittable(b) /\ u \in Numbers
        /\ next_submit' = u + 1
    BY <1>8, SubmitIs DEF Goes
  <2>2. /\ t \in Seq(Numbers) /\ Len(t) = u - packet + 1
        /\ \A i \in 1 .. u - packet + 1 : t[i] = packet + i - 1
    BY <2>1, TakenIs
  <2>3. packet <= u /\ (last # NoPacket => u <= last)
    BY <2>1 DEF Submittable
  <2>4. /\ UNCHANGED <<last, first>> /\ packet = next_submit
        /\ last # NoPacket => sent' = sent \o t
    BY <1>1, <1>8 DEF SubmitRenderPacket, Chosen
  <2> HIDE DEF b, u, t
  <2> DEFINE w == sent \o t
  <2>0. last # NoPacket => sent' = w
    BY <2>4
  <2> HIDE DEF w
  <2>5. SUFFICES ASSUME last # NoPacket PROVE SentInOrder'
    BY <2>4 DEF SentInOrder
  <2>6. /\ sent \in Seq(Numbers) /\ first \in Numbers /\ packet \in Numbers /\ last \in Numbers
        /\ first <= packet /\ Len(sent) = packet - first
        /\ \A i \in 1 .. Len(sent) : sent[i] = first + i - 1
    BY <1>1, <2>4, <2>5 DEF SentInOrder, PacketsTypes
  <2>7. /\ Len(w) = Len(sent) + Len(t)
        /\ \A i \in 1 .. Len(sent) + Len(t) :
             w[i] = IF i <= Len(sent) THEN sent[i] ELSE t[i - Len(sent)]
    BY <2>2, <2>6, ConcatProperties DEF w
  <2>8. Len(w) = (u + 1) - first
    BY <2>1, <2>2, <2>6, <2>7 DEF Numbers
  <2>9. ASSUME NEW i \in 1 .. Len(w) PROVE w[i] = first + i - 1
    <3>1. i \in 1 .. Len(sent) + Len(t) /\ i \in Nat
      BY <2>7, <2>8, <2>1, <2>6 DEF Numbers
    <3>2. CASE i <= Len(sent)
      BY <2>6, <2>7, <3>1, <3>2
    <3>3. CASE ~(i <= Len(sent))
      <4>1. i - Len(sent) \in 1 .. u - packet + 1
        BY <2>2, <2>6, <3>1, <3>3, <2>1 DEF Numbers
      <4>2. t[i - Len(sent)] = packet + (i - Len(sent)) - 1
        BY <2>2, <4>1
      <4>3. QED
        BY <2>6, <2>7, <3>1, <3>3, <4>2 DEF Numbers
    <3>4. QED
      BY <3>2, <3>3
  <2>10. first <= u + 1 /\ u + 1 <= last + 1
    BY <2>1, <2>3, <2>5, <2>6 DEF Numbers
  <2>11. sent' = w /\ first' = first /\ last' = last /\ next_submit' = u + 1
    BY <2>0, <2>1, <2>4, <2>5
  <2>12. QED
    BY <2>8, <2>9, <2>10, <2>11 DEF SentInOrder
<1>9. CASE Tick \/ UNCHANGED packetsVars
  BY <1>1, <1>9 DEF SentInOrder, Tick, packetsVars
<1>10. QED
  BY <1>2, <1>3, <1>4, <1>5, <1>6, <1>7, <1>8, <1>9
     DEF PacketsNext, ClientNext, WorkerNext, Lost, Goes

(* ... the packet the worker is at, which is the next one and was written, *)
(* or is one of the circle; ...                                            *)
LEMMA ChosenStep ==
  ASSUME Goes, [PacketsNext]_packetsVars
  PROVE  Chosen'
<1> USE DEF numberVars, playedVars, clockVars, modeVars, workerVars, clientVars, historyVars,
            clientAll, WorkerGoes
<1>1. PacketsTypes /\ Threads /\ Writing /\ Chosen /\ SentInOrder /\ astray = FALSE
      /\ astray' = FALSE /\ ~(Down /\ state = "STOP")
  BY DEF Goes, PacketsIInv, Straight
<1>2. CASE SetStateRun \/ SetStateDown \/ Down \/ SetStateOther
  BY <1>1, <1>2 DEF Chosen, SetStateRun, SetStateDown, Down, SetStateOther, Threads
<1>3. CASE SetWritePacket
  <2>1. \/ written = TRUE /\ last # NoPacket /\ next_submit' = next_submit
        \/ loop \notin {"measure", "post"}
    BY <1>3, WriteIs DEF Goes
  <2>2. UNCHANGED <<last, loop, packet, cut, marked>>
    BY <1>3 DEF SetWritePacket
  <2>3. QED
    BY <1>1, <2>1, <2>2 DEF Chosen
<1>4. CASE SetLastWritten
  <2>1. client = "last" /\ last' = arg /\ UNCHANGED <<next_submit, loop, packet, cut, marked>>
    BY <1>4 DEF SetLastWritten
  <2>2. written = TRUE /\ arg # NoPacket /\ (last # NoPacket => arg = last + 1)
    BY <1>1, <2>1 DEF Writing
  <2>3. QED
    BY <1>1, <2>1, <2>2 DEF Chosen, PacketsTypes, Numbers
<1>5. CASE SetEos
  <2>1. client = "eos" /\ UNCHANGED <<last, next_submit, loop, packet, cut, written, circled>>
    BY <1>5 DEF SetEos
  <2>2. arg \notin marked
    BY <1>1, <2>1 DEF Writing
  <2>3. \A p \in marked : p \in marked'
    BY <1>5, <2>2 DEF SetEos
  <2>4. QED
    BY <1>1, <2>1, <2>3 DEF Chosen
<1>6. CASE SetEosLength
  BY <1>1, <1>6 DEF Chosen, SetEosLength
<1>7. CASE Reclaim \/ Monitor \/ Switch \/ Restart \/ SubmitRenderPacket \/ SubmitDone
  BY <1>7 DEF Chosen, Reclaim, Monitor, Switch, Restart, SubmitRenderPacket, SubmitDone
<1>8. CASE Choose
  <2>1. packet' = next_submit /\ cut' = "whole" /\ UNCHANGED <<next_submit, last, marked, written>>
    BY <1>8 DEF Choose
  <2>2. CASE HasWritable /\ loop' = IF eos = next_submit THEN "measure" ELSE "post"
    <3>1. last # NoPacket /\ LessOrEqual(next_submit, last)
      BY <2>2 DEF HasWritable
    <3>2. next_submit <= last
      BY <1>1, <3>1, NotPast DEF SentInOrder, PacketsTypes
    <3>3. next_submit # NoPacket
      BY <1>1, <3>1, <3>2 DEF PacketsTypes, Numbers, NoPacket
    <3>4. loop' = "measure" => next_submit \in marked
      BY <1>1, <2>2, <3>3 DEF Writing
    <3>5. QED
      BY <2>1, <3>1, <3>2, <3>4 DEF Chosen
  <2>3. CASE /\ last = NoPacket /\ loop' = "post" /\ circled' = TRUE
             /\ astray' = (astray \/ written \/ Minus(NoPacket, next_submit) < Sources)
    <3>1. written = FALSE /\ ~(Minus(NoPacket, next_submit) < Sources)
      BY <1>1, <2>3 DEF PacketsTypes
    <3>2. Minus(NoPacket, next_submit) = NoPacket - next_submit
      BY <1>1, RenderConstants, MinusIsDifference DEF PacketsTypes, Difference, Numbers, NoPacket
    <3>3. next_submit + Sources <= NoPacket
      BY <1>1, <3>1, <3>2, RenderConstants, Constants DEF PacketsTypes, Numbers, NoPacket
    <3>4. QED
      BY <2>1, <2>3, <3>1, <3>3 DEF Chosen
  <2>4. QED
    BY <1>8, <2>2, <2>3 DEF Choose
<1>9. CASE Measure
  BY <1>1, <1>9 DEF Chosen, Measure
<1>10. CASE Tick \/ UNCHANGED packetsVars
  BY <1>1, <1>10 DEF Chosen, Tick, packetsVars
<1>11. QED
  BY <1>2, <1>3, <1>4, <1>5, <1>6, <1>7, <1>8, <1>9, <1>10
     DEF PacketsNext, ClientNext, WorkerNext, Lost, Goes

(* ... the blocks that are cut: the client takes the mark only from the    *)
(* packet it wrote last, which no block holds as the end; ...              *)
LEMMA WholeStep ==
  ASSUME Goes, [PacketsNext]_packetsVars
  PROVE  Whole'
<1> USE DEF numberVars, playedVars, clockVars, modeVars, workerVars, clientVars, historyVars,
            clientAll, WorkerGoes
<1>1. PacketsTypes /\ Threads /\ Writing /\ Chosen /\ Whole /\ astray = FALSE
      /\ astray' = FALSE /\ ~(Down /\ state = "STOP")
  BY DEF Goes, PacketsIInv, Straight
<1>2. CASE UNCHANGED <<tx, marked>>
  BY <1>1, <1>2 DEF Whole
<1>3. CASE tx' = Prerolled
  BY <1>3, PrerolledIs DEF Whole
<1>4. CASE tx' = <<>>
  BY <1>4 DEF Whole
<1>5. CASE SetStateRun
  <2>1. tx' = Prerolled \/ UNCHANGED <<tx, marked>>
    BY <1>5 DEF SetStateRun
  <2>2. QED
    BY <1>2, <1>3, <2>1
<1>6. CASE SetEos
  <2>1. client = "eos" /\ tx' = tx
    BY <1>6 DEF SetEos
  <2>2. arg \notin marked
    BY <1>1, <2>1 DEF Writing
  <2>3. \A p \in marked : p \in marked'
    BY <1>6, <2>2 DEF SetEos
  <2>4. QED
    BY <1>1, <2>1, <2>3 DEF Whole
<1>7. CASE SetStateDown \/ SetStateOther \/ SetWritePacket \/ SetLastWritten \/ SetEosLength
  <2>1. UNCHANGED <<tx, marked>>
    BY <1>7 DEF SetStateDown, SetStateOther, SetWritePacket, SetLastWritten, SetEosLength
  <2>2. QED
    BY <1>2, <2>1
<1>8. CASE Down
  BY <1>4, <1>8 DEF Down
<1>9. CASE Reclaim
  <2>1. PICK k \in 0 .. Len(tx) : tx' = SubSeq(tx, k + 1, Len(tx))
    BY <1>9 DEF Reclaim
  <2>2. tx \in Seq(Blocks) /\ k + 1 \in 1 .. Len(tx) + 1 /\ Len(tx) \in Nat /\ k \in Nat
    BY <1>1 DEF PacketsTypes
  <2>3. Len(tx') = Len(tx) - k /\ \A i \in 1 .. Len(tx') : tx'[i] = tx[k + i]
    BY <2>1, <2>2
  <2>4. \A i \in 1 .. Len(tx') : k + i \in 1 .. Len(tx)
    BY <2>2, <2>3
  <2>5. marked' = marked
    BY <1>9 DEF Reclaim
  <2>6. QED
    BY <1>1, <2>3, <2>4, <2>5 DEF Whole
<1>10. CASE Switch
  <2>1. CASE tx' = Prerolled
    BY <1>3, <2>1
  <2>2. CASE \E i \in 0 .. Preroll : tx' = SubSeq(Prerolled, 1, i)
    BY <2>2, PrerollIs DEF Whole
  <2>3. QED
    BY <1>10, <2>1, <2>2 DEF Switch
<1>11. CASE Monitor \/ Restart \/ Choose \/ Measure \/ SubmitDone \/ Tick
  <2>1. UNCHANGED <<tx, marked>>
    BY <1>11 DEF Monitor, Restart, Choose, Measure, SubmitDone, Tick
  <2>2. QED
    BY <1>2, <2>1
<1>12. CASE SubmitRenderPacket
  <2> DEFINE b == Prepared
  <2>1. b \in Blocks /\ (b.cut # "whole" => b.upto \in marked)
    BY <1>12, SubmitIs DEF Goes, Submittable
  <2>2. tx' = Append(tx, b) /\ marked' = marked /\ tx \in Seq(Blocks)
    BY <1>1, <1>12 DEF SubmitRenderPacket, PacketsTypes
  <2> HIDE DEF b
  <2>3. QED
    BY <1>1, <2>1, <2>2 DEF Whole
<1>13. CASE UNCHANGED packetsVars
  <2>1. UNCHANGED <<tx, marked>>
    BY <1>13 DEF packetsVars
  <2>2. QED
    BY <1>2, <2>1
<1>14. QED
  BY <1>5, <1>6, <1>7, <1>8, <1>9, <1>10, <1>11, <1>12, <1>13
     DEF PacketsNext, ClientNext, WorkerNext, Lost, Goes

(* ... and how far the client may go.                                      *)
LEMMA NumberedNatural ==
  ASSUME PacketsTypes PROVE BufferNumbered \in Nat /\ BufferNumbered <= Len(tx)
<1>1. tx \in Seq(Blocks) /\ Len(tx) \in Nat
  BY DEF PacketsTypes
<1>2. Cardinality(NumberedIn(tx)) \in 0 .. Len(tx)
  BY <1>1, NumberedFinite
<1>3. QED
  BY <1>1, <1>2 DEF BufferNumbered

(* Blocks are played, or leave unplayed, or nothing of this changes.       *)
LEMMA PlayedBounded ==
  ASSUME PacketsTypes, Bounded, NEW c \in Nat,
         count' = Plus(count, c), BufferNumbered' \in Nat,
         BufferNumbered' + c <= BufferNumbered,
         next_submit' = next_submit, last' = last, circled' = circled,
         client' = "last" <=> client = "last", client = "last" => arg' = arg
  PROVE  Bounded'
<1> DEFINE m == BufferNumbered
<1>1. PICK n \in Nat : BufferNumbered' = n
  OBVIOUS
<1>2. m \in Nat /\ n + c <= m
  BY <1>1, NumberedNatural
<1>3. n <= N
  <2>1. m <= N
    BY DEF Bounded
  <2> HIDE DEF m
  <2>2. QED
    BY <1>2, <2>1, Constants
<1>4. ASSUME client' = "last" \/ last' # NoPacket PROVE \E b \in Nat : Ahead(b)'
  <2>1. PICK b \in Nat : Ahead(b)
    BY <1>4 DEF Bounded
  <2> DEFINE e == b + c
  <2>2. e \in Nat
    OBVIOUS
  <2>3. count' = Wrap(e)
    BY <2>1, WrapAdd DEF Ahead, Plus
  <2>4. b + m <= next_submit + Modulus + (IF circled = TRUE THEN N ELSE 0)
    BY <2>1 DEF Ahead
  <2>5. next_submit \in Numbers /\ last \in Numbers
    BY DEF PacketsTypes
  <2> HIDE DEF m
  <2>6. e + n <= next_submit + Modulus + (IF circled = TRUE THEN N ELSE 0)
    BY <1>2, <2>4, <2>5, Constants DEF Numbers
  <2>7. last' # NoPacket => last' + Modulus < e + N
    BY <2>1, <2>5, Constants DEF Ahead, Numbers
  <2>8. client' = "last" => arg' + Modulus < e + N
    <3>1. arg \in Numbers
      BY DEF PacketsTypes
    <3>2. QED
      BY <2>1, <3>1, Constants DEF Ahead, Numbers
  <2> HIDE DEF e
  <2>9. Ahead(e)'
    BY <1>1, <2>3, <2>6, <2>7, <2>8 DEF Ahead
  <2>10. QED
    BY <2>2, <2>9
<1>5. ASSUME client' # "last", last' = NoPacket, circled' = FALSE
      PROVE  count' = 0 /\ n = 0
  <2>1. count = 0 /\ m = 0
    BY <1>5 DEF Bounded
  <2> HIDE DEF m
  <2>2. c = 0 /\ n = 0
    BY <1>2, <2>1
  <2>3. Plus(0, 0) = 0
    BY SumSmall, Constants DEF Numbers
  <2>4. QED
    BY <2>1, <2>2, <2>3
<1>6. QED
  BY <1>1, <1>3, <1>4, <1>5 DEF Bounded

LEMMA SameBounded ==
  ASSUME PacketsTypes, Bounded, BufferNumbered' \in Nat, BufferNumbered' <= BufferNumbered,
         count' = count, next_submit' = next_submit, last' = last, circled' = circled,
         client' = "last" <=> client = "last", client = "last" => arg' = arg
  PROVE  Bounded'
<1>1. Plus(count, 0) = count
  BY SumSmall, Constants DEF PacketsTypes, Numbers
<1>2. count' = Plus(count, 0) /\ BufferNumbered' + 0 <= BufferNumbered
  BY <1>1
<1>3. QED
  BY <1>2, PlayedBounded

(* The client writes as far as GetPacketCount lets it.                     *)
LEMMA WriteBounded ==
  ASSUME Goes, SetWritePacket
  PROVE  Bounded'
<1>1. PacketsTypes /\ Bounded /\ astray = FALSE /\ BufferNumbered \in Nat
  BY NumberedNatural DEF Goes, PacketsIInv, Straight
<1>2. PICK p \in Numbers :
        /\ Offered(p) /\ p # NoPacket /\ arg' = p
        /\ client = "idle" /\ client' = "last" /\ written' = TRUE
        /\ \/ /\ written = TRUE /\ last # NoPacket /\ p = last + 1
              /\ next_submit' = next_submit /\ first' = first
           \/ /\ written = FALSE /\ last = NoPacket /\ loop \notin {"measure", "post"}
              /\ p \in {count, Plus(count, 1)}
              /\ next_submit' = p /\ first' = p
  BY WriteIs DEF Goes
<1>3. last' = last /\ count' = count /\ circled' = circled /\ BufferNumbered' = BufferNumbered
  BY DEF SetWritePacket, playedVars, BufferNumbered
<1>4. BufferNumbered' <= N
  BY <1>1, <1>3 DEF Bounded
<1>5. LessOrEqual(p, Plus(count, N - 1))
  BY <1>2 DEF Offered
<1>6. CASE last # NoPacket
  <2>1. PICK b \in Nat : Ahead(b)
    BY <1>1, <1>6 DEF Bounded
  <2>2. p + Modulus <= b + N
    BY <1>1, <1>2, <1>6, <2>1, Constants DEF Ahead, PacketsTypes, Numbers
  <2>3. p + Modulus < b + N
    BY <1>5, <2>1, <2>2, NotTooFar DEF Ahead
  <2>4. Ahead(b)'
    BY <1>2, <1>3, <1>6, <2>1, <2>3 DEF Ahead
  <2>5. QED
    BY <1>2, <1>4, <2>4 DEF Bounded
<1>7. CASE last = NoPacket
  <2>1. p \in {count, Plus(count, 1)} /\ next_submit' = p
    BY <1>2, <1>7
  <2>2. circled = FALSE => BufferNumbered = 0
    BY <1>1, <1>2, <1>7 DEF Bounded
  <2>3. \E b \in Nat : count = Wrap(b) /\ b <= p + Modulus /\ p + Modulus <= b + 1
    <3>1. count \in Numbers /\ count + Modulus \in Modulus .. 2 * Modulus - 1
      BY <1>1, Constants DEF PacketsTypes, Numbers
    <3>2. Wrap(count) = count /\ Wrap(count + Modulus) = count
      BY <3>1, WrapSmall, Constants DEF Numbers
    <3>3. CASE p = count
      BY <3>1, <3>2, <3>3, Constants DEF Numbers
    <3>4. CASE p = Plus(count, 1) /\ count # NoPacket
      BY <3>1, <3>2, <3>4, NextNumber, Constants DEF Numbers
    <3>5. CASE p = Plus(count, 1) /\ count = NoPacket
      <4>1. Wrap(count + 1) = 0
        BY <3>1, <3>5, WrapPlusOne DEF NoPacket
      <4>2. p = 0 /\ count = Modulus - 1
        BY <3>5, <4>1 DEF Plus, NoPacket
      <4>3. QED
        BY <3>1, <3>2, <4>2, Constants DEF Numbers
    <3>6. QED
      BY <2>1, <3>3, <3>4, <3>5
  <2>4. PICK b \in Nat : count = Wrap(b) /\ b <= p + Modulus /\ p + Modulus <= b + 1
    BY <2>3
  <2>5. p + Modulus <= b + N
    BY <2>4, Constants DEF Numbers
  <2>6. p + Modulus < b + N
    BY <1>5, <2>4, <2>5, NotTooFar
  <2>7. b + BufferNumbered <= p + Modulus + (IF circled = TRUE THEN N ELSE 0)
    BY <1>1, <2>2, <2>4, Constants DEF Bounded, PacketsTypes, Numbers
  <2>8. Ahead(b)'
    BY <1>2, <1>3, <1>7, <2>1, <2>4, <2>6, <2>7 DEF Ahead
  <2>9. QED
    BY <1>2, <1>4, <2>8 DEF Bounded
<1>8. QED
  BY <1>6, <1>7

LEMMA BoundedStep ==
  ASSUME Goes, [PacketsNext]_packetsVars
  PROVE  Bounded'
<1> USE DEF numberVars, playedVars, clockVars, modeVars, workerVars, clientVars, historyVars,
            clientAll, WorkerGoes
<1>1. PacketsTypes /\ Writing /\ Chosen /\ Bounded /\ astray = FALSE
      /\ astray' = FALSE /\ ~(Down /\ state = "STOP")
  BY DEF Goes, PacketsIInv, Straight
<1>2. BufferNumbered \in Nat /\ (UNCHANGED tx => BufferNumbered' = BufferNumbered)
  BY <1>1, NumberedNatural DEF BufferNumbered
<1>3. NumberedIn(tx') = {} => BufferNumbered' = 0
  BY FS_EmptySet DEF BufferNumbered
<1>4. NumberedIn(Prerolled) = {} /\ NumberedIn(<<>>) = {}
  BY PrerolledIs DEF NumberedIn
<1>5. CASE SetStateRun
  <2>1. BufferNumbered' \in Nat /\ BufferNumbered' <= BufferNumbered
    <3>1. tx' = Prerolled \/ tx' = tx
      BY <1>5 DEF SetStateRun
    <3>2. QED
      BY <1>2, <1>3, <1>4, <3>1
  <2>2. UNCHANGED <<count, next_submit, last, circled, client, arg>>
    BY <1>5 DEF SetStateRun
  <2>3. QED
    BY <1>1, <2>1, <2>2, SameBounded
<1>6. CASE SetStateDown \/ SetStateOther \/ SetEos \/ SetEosLength
  <2>1. /\ UNCHANGED <<count, next_submit, last, circled, tx>>
        /\ client # "last" /\ client' # "last"
    BY <1>6 DEF SetStateDown, SetStateOther, SetEos, SetEosLength
  <2>2. BufferNumbered' = BufferNumbered
    BY <1>2, <2>1
  <2>3. QED
    BY <1>1, <1>2, <2>1, <2>2, SameBounded
<1>7. CASE Down
  <2>1. /\ UNCHANGED <<next_submit, last, circled>> /\ tx' = <<>>
        /\ client # "last" /\ client' # "last"
    BY <1>1, <1>7 DEF Down
  <2>2. PICK k \in 0 .. Len(tx) : count' = Plus(count, Cardinality(Played(k, {})))
    BY <1>1, <1>7 DEF Down
  <2> DEFINE c == Cardinality(Played(k, {}))
             r == Cardinality(NumberedIn(SubSeq(tx, k + 1, Len(tx))))
  <2>3. c \in Nat /\ c + r <= BufferNumbered
    BY <1>1, ReclaimedIs
  <2>4. r \in Nat
    <3>1. tx \in Seq(Blocks) /\ k + 1 \in 1 .. Len(tx) + 1 /\ Len(tx) \in Nat
      BY <1>1 DEF PacketsTypes
    <3> DEFINE q == SubSeq(tx, k + 1, Len(tx))
    <3>2. q \in Seq(Blocks)
      BY <3>1
    <3> HIDE DEF q
    <3>3. Cardinality(NumberedIn(q)) \in 0 .. Len(q) /\ Len(q) \in Nat
      BY <3>2, NumberedFinite
    <3>4. QED
      BY <3>3 DEF q
  <2> HIDE DEF c, r
  <2>5. BufferNumbered' = 0
    BY <1>3, <1>4, <2>1
  <2>6. BufferNumbered' + c <= BufferNumbered
    BY <1>2, <2>3, <2>4, <2>5
  <2>7. QED
    BY <1>1, <2>1, <2>2, <2>3, <2>5, <2>6, PlayedBounded DEF c
<1>8. CASE SetWritePacket
  BY <1>8, WriteBounded
<1>9. CASE SetLastWritten
  <2>1. /\ client = "last" /\ client' = "eos" /\ last' = arg
        /\ UNCHANGED <<count, next_submit, circled, tx>>
    BY <1>9 DEF SetLastWritten
  <2>2. arg # NoPacket
    BY <1>1, <2>1 DEF Writing
  <2>3. PICK b \in Nat : Ahead(b)
    BY <1>1, <2>1 DEF Bounded
  <2>4. BufferNumbered' = BufferNumbered
    BY <1>2, <2>1
  <2>5. Ahead(b)'
    BY <2>1, <2>3, <2>4 DEF Ahead
  <2>6. QED
    BY <1>1, <2>1, <2>2, <2>4, <2>5 DEF Bounded
<1>10. CASE Reclaim
  <2>1. PICK k \in 0 .. Len(tx) : \E E \in SUBSET (1 .. k) :
          ReclaimRenderPackets(k, E) /\ tx' = SubSeq(tx, k + 1, Len(tx))
    BY <1>10 DEF Reclaim
  <2>2. PICK E \in SUBSET (1 .. k) :
          ReclaimRenderPackets(k, E) /\ tx' = SubSeq(tx, k + 1, Len(tx))
    BY <2>1
  <2> DEFINE c == Cardinality(Played(k, E))
  <2>3. c \in Nat /\ c + BufferNumbered' <= BufferNumbered
    BY <1>1, <2>2, ReclaimedIs DEF BufferNumbered
  <2>4. count' = Plus(count, c)
    BY <2>2 DEF ReclaimRenderPackets
  <2>5. BufferNumbered' \in Nat
    <3>1. PacketsTypes'
      BY <1>10, PacketsTypesStep DEF Goes, PacketsNext, WorkerNext
    <3>2. tx' \in Seq(Blocks) /\ Len(tx') \in Nat
      BY <3>1 DEF PacketsTypes
    <3>3. QED
      BY <3>2, NumberedFinite DEF BufferNumbered
  <2> HIDE DEF c
  <2>6. UNCHANGED <<next_submit, last, circled, client, arg>>
    BY <1>10 DEF Reclaim
  <2>7. BufferNumbered' + c <= BufferNumbered
    <3> DEFINE n == BufferNumbered'  m == BufferNumbered
    <3>1. n \in Nat /\ c \in Nat /\ c + n <= m
      BY <2>3, <2>5
    <3> HIDE DEF n, m
    <3>2. n + c <= m
      BY <3>1
    <3>3. QED
      BY <3>2 DEF n, m
  <2>8. QED
    BY <1>1, <2>3, <2>4, <2>5, <2>6, <2>7, PlayedBounded
<1>11. CASE Switch
  <2>1. PICK k \in 0 .. Len(tx) : ReclaimRenderPackets(k, {})
    BY <1>11 DEF Switch, CancelRenderWrites
  <2> DEFINE c == Cardinality(Played(k, {}))
             r == Cardinality(NumberedIn(SubSeq(tx, k + 1, Len(tx))))
  <2>2. c \in Nat /\ c + r <= BufferNumbered
    BY <1>1, ReclaimedIs
  <2>3. r \in Nat
    <3>1. tx \in Seq(Blocks) /\ k + 1 \in 1 .. Len(tx) + 1 /\ Len(tx) \in Nat
      BY <1>1 DEF PacketsTypes
    <3> DEFINE q == SubSeq(tx, k + 1, Len(tx))
    <3>2. q \in Seq(Blocks)
      BY <3>1
    <3> HIDE DEF q
    <3>3. Cardinality(NumberedIn(q)) \in 0 .. Len(q) /\ Len(q) \in Nat
      BY <3>2, NumberedFinite
    <3>4. QED
      BY <3>3 DEF q
  <2>4. count' = Plus(count, c)
    BY <2>1 DEF ReclaimRenderPackets
  <2> HIDE DEF c, r
  <2>5. BufferNumbered' = 0
    <3>1. CASE tx' = Prerolled
      BY <1>3, <1>4, <3>1
    <3>2. CASE \E i \in 0 .. Preroll : tx' = SubSeq(Prerolled, 1, i)
      BY <1>3, <3>2, PrerollIs
    <3>3. QED
      BY <1>11, <3>1, <3>2 DEF Switch
  <2>6. BufferNumbered' + c <= BufferNumbered
    BY <1>2, <2>2, <2>3, <2>5
  <2>7. UNCHANGED <<next_submit, last, circled, client, arg>>
    BY <1>11 DEF Switch
  <2>8. QED
    BY <1>1, <2>2, <2>4, <2>5, <2>6, <2>7, PlayedBounded
<1>12. CASE Monitor \/ Restart \/ Measure \/ SubmitDone \/ Tick \/ UNCHANGED packetsVars
  <2>1. UNCHANGED <<count, next_submit, last, circled, tx, client, arg>>
    BY <1>12 DEF Monitor, Restart, Measure, SubmitDone, Tick, packetsVars
  <2>2. BufferNumbered' = BufferNumbered
    BY <1>2, <2>1
  <2>3. QED
    BY <1>1, <1>2, <2>1, <2>2, SameBounded
<1>13. CASE Choose
  <2>1. UNCHANGED <<count, next_submit, last, tx, client, arg>>
    BY <1>13 DEF Choose
  <2>2. BufferNumbered' = BufferNumbered
    BY <1>2, <2>1
  <2>3. CASE circled' = circled
    BY <1>1, <1>2, <2>1, <2>2, <2>3, SameBounded
  <2>4. CASE circled' # circled
    <3>1. last = NoPacket /\ circled' = TRUE /\ astray' = (astray \/ written
                                              \/ Minus(NoPacket, next_submit) < Sources)
      BY <1>13, <2>4 DEF Choose
    <3>2. client # "last"
      BY <1>1, <3>1 DEF Writing
    <3>3. QED
      BY <1>1, <2>1, <2>2, <3>1, <3>2 DEF Bounded
  <2>5. QED
    BY <2>3, <2>4
<1>14. CASE SubmitRenderPacket
  <2> DEFINE b == Prepared
  <2>1. b \in Blocks /\ packet <= b.upto /\ b.upto \in Numbers /\ next_submit' = b.upto + 1
    BY <1>14, SubmitIs DEF Goes, Submittable
  <2>2. /\ tx' = Append(tx, b) /\ loop = "post"
        /\ UNCHANGED <<last, count, circled, client, arg, written>>
    BY <1>14 DEF SubmitRenderPacket
  <2> HIDE DEF b
  <2>3. packet = next_submit /\ next_submit' >= next_submit + 1
    BY <1>1, <2>1, <2>2 DEF Chosen, PacketsTypes, Numbers
  <2>4. tx \in Seq(Blocks) /\ tx' \in Seq(Blocks) /\ Len(tx') = Len(tx) + 1
    BY <1>1, <2>1, <2>2 DEF PacketsTypes
  <2>5. BufferNumbered' <= BufferNumbered + 1
    BY <2>1, <2>2, <2>4, NumberedAppend DEF BufferNumbered
  <2>6. BufferNumbered' \in 0 .. Len(tx')
    BY <2>4, NumberedFinite DEF BufferNumbered
  <2>7. BufferNumbered' <= N /\ BufferNumbered' \in Nat
    <3>1. Len(tx) < target /\ target <= AtMost(Outstanding) /\ AtMost(Outstanding) <= N
          /\ Len(tx) \in Nat /\ target \in Nat /\ AtMost(Outstanding) \in Nat
      BY <1>1, <2>2, Targets, RenderConstants DEF PacketsTypes
    <3>2. QED
      BY <2>4, <2>6, <3>1, Constants
  <2>8. CASE last = NoPacket
    <3>1. client # "last" /\ circled = TRUE
      BY <1>1, <2>2, <2>8 DEF Chosen, Writing
    <3>2. QED
      BY <2>2, <2>7, <2>8, <3>1 DEF Bounded
  <2>9. CASE last # NoPacket
    <3>1. PICK e \in Nat : Ahead(e)
      BY <1>1, <2>9 DEF Bounded
    <3>2. e + BufferNumbered' <= next_submit' + Modulus + (IF circled = TRUE THEN N ELSE 0)
      <4> DEFINE n == BufferNumbered'  m == BufferNumbered
                 x == next_submit' y == next_submit
      <4>1. /\ n \in Nat /\ m \in Nat /\ n <= m + 1 /\ x \in Int /\ y \in Int /\ x >= y + 1
            /\ e + m <= y + Modulus + (IF circled = TRUE THEN N ELSE 0)
        BY <1>1, <1>2, <2>1, <2>3, <2>5, <2>7, <3>1 DEF Ahead, PacketsTypes, Numbers
      <4> HIDE DEF n, m, x, y
      <4>2. e + n <= x + Modulus + (IF circled = TRUE THEN N ELSE 0)
        BY <4>1, Constants
      <4>3. QED
        BY <4>2 DEF n, x
    <3>3. Ahead(e)'
      BY <2>2, <3>1, <3>2 DEF Ahead
    <3>4. QED
      BY <2>2, <2>7, <2>9, <3>3 DEF Bounded
  <2>10. QED
    BY <2>8, <2>9
<1>15. QED
  BY <1>5, <1>6, <1>7, <1>8, <1>9, <1>10, <1>11, <1>12, <1>13, <1>14
     DEF PacketsNext, ClientNext, WorkerNext, Lost, Goes

(* ... and every step keeps it; once the numbers are mixed up, nothing is  *)
(* left to keep but the types.                                             *)
LEMMA PacketsStepInv ==
  ASSUME PacketsIInv, [PacketsNext]_packetsVars
  PROVE  PacketsIInv'
<1>1. CASE UNCHANGED packetsVars
  <2>1. UNCHANGED <<PacketsTypes, Threads, Straight, astray>>
    BY <1>1, Zenon DEF packetsVars, numberVars, playedVars, clockVars, modeVars, workerVars,
       clientVars, historyVars, PacketsTypes, Threads, Straight, Writing, SentInOrder, Chosen,
       Whole, Bounded, Ahead, BufferNumbered
  <2>2. QED
    BY <2>1 DEF PacketsIInv
<1>2. CASE ~(UNCHANGED packetsVars)
  <2>1. PacketsNext /\ astray = FALSE
    BY <1>2 DEF PacketsNext, Lost, PacketsIInv, PacketsTypes
  <2>2. PacketsTypes' /\ Threads'
    BY <2>1, PacketsTypesStep, ThreadsStep
  <2>3. CASE astray' = FALSE
    <3>1. CASE (Down /\ state = "STOP") \/ FreeAudioBuffer
      BY <2>1, <2>2, <3>1, ResetStep DEF PacketsIInv
    <3>2. CASE ~(Down /\ state = "STOP") /\ ~FreeAudioBuffer
      <4>1. Goes
        BY <2>1, <2>3, <3>2 DEF Goes
      <4>2. Straight'
        BY <2>1, <4>1, WritingStep, SentInOrderStep, ChosenStep, WholeStep, BoundedStep
           DEF Straight
      <4>3. QED
        BY <2>2, <4>2 DEF PacketsIInv
    <3>3. QED
      BY <3>1, <3>2
  <2>4. CASE astray' # FALSE
    BY <2>2, <2>4 DEF PacketsIInv
  <2>5. QED
    BY <2>3, <2>4
<1>3. QED
  BY <1>1, <1>2

LEMMA PacketsInvariance == PacketsSpec => []PacketsIInv
<1>1. PacketsInit => PacketsIInv
  BY PacketsInitInv
<1>2. PacketsIInv /\ [PacketsNext]_packetsVars => PacketsIInv'
  BY PacketsStepInv
<1>3. QED
  BY <1>1, <1>2, PTL DEF PacketsSpec

(* How far the client and the worker are apart.                            *)
LEMMA Apart ==
  ASSUME PacketsIInv, astray = FALSE, last # NoPacket
  PROVE  /\ next_submit \in Numbers /\ last \in Numbers
         /\ next_submit <= last + 1
         /\ last < next_submit + 2 * N
         /\ circled = FALSE => last < next_submit + N
<1>1. PacketsTypes /\ SentInOrder /\ Bounded
  BY DEF PacketsIInv, Straight
<1>2. next_submit \in Numbers /\ last \in Numbers /\ next_submit <= last + 1
  BY <1>1 DEF PacketsTypes, SentInOrder
<1>3. PICK b \in Nat : Ahead(b)
  BY <1>1 DEF Bounded
<1>4. BufferNumbered \in Nat
  BY <1>1, NumberedNatural
<1> DEFINE m == BufferNumbered
<1>5. /\ last + Modulus < b + N
      /\ b + m <= next_submit + Modulus + (IF circled = TRUE THEN N ELSE 0)
      /\ m \in Nat /\ next_submit \in Int /\ last \in Int
  BY <1>2, <1>3, <1>4 DEF Ahead, Numbers
<1> HIDE DEF m
<1>6. last < next_submit + 2 * N /\ (circled = FALSE => last < next_submit + N)
  <2>1. CASE circled = TRUE
    BY <1>5, <2>1, Constants
  <2>2. CASE circled # TRUE
    BY <1>5, <2>2, Constants
  <2>3. QED
    BY <2>1, <2>2
<1>7. QED
  BY <1>2, <1>6

LEMMA HandedInOrderHolds ==
  ASSUME PacketsIInv PROVE HandedInOrder
<1> SUFFICES ASSUME astray = FALSE PROVE HandedInOrder
  BY DEF HandedInOrder, PacketsIInv, PacketsTypes
<1>1. PacketsTypes /\ Writing /\ SentInOrder
  BY DEF PacketsIInv, Straight
<1>2. CASE last = NoPacket
  BY <1>1, <1>2 DEF Writing, HandedInOrder
<1>3. CASE last # NoPacket
  <2>1. /\ first \in Numbers /\ next_submit \in Numbers /\ last \in Numbers
        /\ first <= next_submit /\ next_submit <= last + 1
        /\ sent \in Seq(Numbers) /\ Len(sent) = next_submit - first
        /\ \A i \in 1 .. Len(sent) : sent[i] = first + i - 1
    BY <1>1, <1>3 DEF PacketsTypes, SentInOrder
  <2>2. ASSUME NEW i \in 1 .. Len(sent) PROVE sent[i] = Plus(first, i - 1)
    <3>1. i - 1 \in Nat /\ first + (i - 1) < Modulus
      BY <2>1, Constants DEF Numbers
    <3>2. Plus(first, i - 1) = first + (i - 1)
      BY <2>1, <3>1, SumSmall
    <3>3. QED
      BY <2>1, <3>1, <3>2 DEF Numbers
  <2>3. ASSUME sent # <<>> PROVE LessOrEqual(sent[Len(sent)], last)
    <3> DEFINE l == Len(sent)  m == sent[l]
    <3>1. l \in 1 .. l /\ l \in Nat
      BY <2>1, <2>3
    <3>2. m \in Numbers /\ m = first + l - 1 /\ l = next_submit - first
      BY <2>1, <3>1
    <3>3. last < next_submit + 2 * N
      BY <1>3, Apart
    <3> HIDE DEF l, m
    <3>4. m = next_submit - 1
      BY <2>1, <3>1, <3>2 DEF Numbers
    <3>5. m <= last /\ last - m <= 2 * N
      BY <2>1, <3>3, <3>4, Constants DEF Numbers
    <3>6. QED
      BY <2>1, <3>2, <3>5, NotBeyond DEF l, m
  <2>4. QED
    BY <2>2, <2>3 DEF HandedInOrder
<1>4. QED
  BY <1>2, <1>3

LEMMA NothingOverwrittenHolds ==
  ASSUME PacketsIInv PROVE NothingOverwritten
<1> SUFFICES ASSUME astray = FALSE, circled = FALSE, written = TRUE, client # "last"
             PROVE  Minus(Plus(last, 1), next_submit) <= N
  BY DEF NothingOverwritten, PacketsIInv, PacketsTypes
<1>1. last # NoPacket
  BY DEF PacketsIInv, Straight, Writing
<1>2. /\ next_submit \in Numbers /\ last \in Numbers
      /\ next_submit <= last + 1 /\ last < next_submit + N
  BY <1>1, Apart
<1> DEFINE e == last + 1
<1>3. Plus(last, 1) = e /\ e \in Numbers
  BY <1>1, <1>2, NextNumber
<1> HIDE DEF e
<1>4. Minus(e, next_submit) = Difference(e, next_submit)
  BY <1>2, <1>3, MinusIsDifference
<1>5. Minus(e, next_submit) <= N
  BY <1>2, <1>4, Constants DEF Difference, Numbers, e
<1>6. QED
  BY <1>3, <1>5

LEMMA PacketsTypeOKHolds == ASSUME PacketsTypes PROVE PacketsTypeOK
<1>1. \A i \in 1 .. Len(tx) :
        tx[i] \in [number : Numbers, source : 0 .. Sources, upto : Numbers, cut : Cuts]
  <2>1. \A i \in 1 .. Len(tx) : tx[i] \in Blocks
    BY DEF PacketsTypes
  <2>2. QED
    BY <2>1 DEF Blocks
<1>2. QED
  BY <1>1 DEF PacketsTypes, PacketsTypeOK

(* Whatever the interleaving of SetWritePacket and the worker, through     *)
(* pauses, failures and the switch of formats, the packets handed to the   *)
(* device (SubmitRenderPacket) are those the client wrote, from its first  *)
(* on, each once and in order, none before it was written; and no block    *)
(* but the one with the end of the stream is cut short: the type           *)
(* invariant, HandedInOrder and OnlyTheEndIsCut.                           *)
THEOREM PacketsHold == PacketsSpec => []PacketsInv
<1>1. PacketsIInv => PacketsInv
  BY PacketsTypeOKHolds, HandedInOrderHolds
     DEF PacketsIInv, Straight, Whole, PacketsInv, OnlyTheEndIsCut, PacketsTypes
<1>2. QED
  BY <1>1, PacketsInvariance, PTL

(* A client that keeps to GetPacketCount never writes (SetWritePacket)     *)
(* into the place of a packet that the worker has not handed over, unless  *)
(* the buffer was played in a circle before.                               *)
THEOREM NoneOverwritten == PacketsSpec => []NothingOverwritten
<1>1. PacketsIInv => NothingOverwritten
  BY NothingOverwrittenHolds
<1>2. QED
  BY <1>1, PacketsInvariance, PTL

(* No step but a reset and the switch takes the clock back.                *)
LEMMA PositionStep ==
  ASSUME PacketsIInv, [PacketsNext]_packetsVars
  PROVE  [ClockPosition' >= ClockPosition \/ Reset \/ "restart" \in {loop, loop'}]_packetsVars
<1> USE DEF numberVars, playedVars, clockVars, modeVars, workerVars, clientVars, historyVars,
            clientAll, WorkerGoes
<1> SUFFICES ASSUME ~UNCHANGED packetsVars
             PROVE  ClockPosition' >= ClockPosition \/ Reset \/ "restart" \in {loop, loop'}
  OBVIOUS
<1>1. PacketsTypes /\ Threads
  BY DEF PacketsIInv
<1>2. /\ position \in Nat /\ start \in Nat /\ elapsed \in Nat /\ running \in BOOLEAN
      /\ ClockPosition \in Nat
  BY <1>1 DEF PacketsTypes, ClockPosition
<1>3. CASE UNCHANGED <<clockVars, position>>
  BY <1>2, <1>3 DEF ClockPosition
<1>4. CASE SetStateRun
  <2>1. running = FALSE /\ position' = position
    BY <1>1, <1>2, <1>4 DEF SetStateRun, Threads
  <2>2. CASE start' = position /\ running' = TRUE /\ elapsed' = 0
    BY <1>2, <2>1, <2>2 DEF ClockPosition
  <2>3. CASE UNCHANGED clockVars
    BY <1>3, <2>1, <2>3
  <2>4. QED
    BY <1>4, <2>2, <2>3 DEF SetStateRun
<1>5. CASE Down
  <2>1. CASE state = "STOP"
    BY <1>5, <2>1 DEF Down
  <2>2. CASE state # "STOP"
    <3>1. position' = ClockPosition /\ running' = FALSE
      BY <1>5, <2>2 DEF Down, Settle
    <3>2. ClockPosition' = position'
      BY <3>1 DEF ClockPosition
    <3>3. QED
      BY <1>2, <3>1, <3>2
  <2>3. QED
    BY <2>1, <2>2
<1>6. CASE FreeAudioBuffer
  BY <1>6 DEF FreeAudioBuffer
<1>7. CASE SetStateDown \/ SetStateOther \/ SetWritePacket \/ SetLastWritten \/ SetEos
           \/ SetEosLength
  <2>1. UNCHANGED <<clockVars, position>>
    BY <1>7 DEF SetStateDown, SetStateOther, SetWritePacket, SetLastWritten, SetEos,
                SetEosLength
  <2>2. QED
    BY <1>3, <2>1
<1>8. CASE Monitor \/ Choose \/ Measure \/ SubmitRenderPacket \/ SubmitDone
  <2>1. UNCHANGED <<clockVars, position>>
    BY <1>8 DEF Monitor, Choose, Measure, SubmitRenderPacket, SubmitDone
  <2>2. QED
    BY <1>3, <2>1
<1>9. ASSUME position' \in Nat, position <= position', UNCHANGED clockVars
      PROVE  ClockPosition' >= ClockPosition
  BY <1>2, <1>9 DEF ClockPosition
<1>10. CASE Reclaim
  <2>1. PICK k \in 0 .. Len(tx) : \E E \in SUBSET (1 .. k) : ReclaimRenderPackets(k, E)
    BY <1>10 DEF Reclaim
  <2>2. position' \in Nat /\ position <= position'
    BY <1>1, <2>1, ReclaimIs
  <2>3. UNCHANGED clockVars
    BY <1>10 DEF Reclaim
  <2>4. QED
    BY <1>9, <2>2, <2>3
<1>11. CASE Switch
  <2>1. PICK k \in 0 .. Len(tx) : ReclaimRenderPackets(k, {})
    BY <1>11 DEF Switch, CancelRenderWrites
  <2>2. position' \in Nat /\ position <= position'
    BY <1>1, <2>1, ReclaimIs
  <2>3. CASE loop' = "restart"
    BY <2>3
  <2>4. CASE loop' # "restart"
    <3>1. UNCHANGED clockVars
      BY <1>11, <2>4 DEF Switch
    <3>2. QED
      BY <1>9, <2>2, <3>1
  <2>5. QED
    BY <2>3, <2>4
<1>12. CASE Restart
  BY <1>12 DEF Restart
<1>13. CASE Tick
  <2>1. running = TRUE /\ elapsed' = elapsed + 1 /\ UNCHANGED <<start, running>>
    BY <1>13 DEF Tick
  <2>2. QED
    BY <1>2, <2>1 DEF ClockPosition
<1>14. QED
  BY <1>4, <1>5, <1>6, <1>7, <1>8, <1>10, <1>11, <1>12, <1>13
     DEF PacketsNext, ClientNext, WorkerNext, Lost

(* The position that GetRenderClockPosition computes goes back in no step  *)
(* but a STOP or FreeAudioBuffer, which reset it, and the two in which     *)
(* SwitchRenderToFallback restarts the clock.                              *)
THEOREM PositionDoesNotGoBack == PacketsSpec => PositionHolds
<1>1. PacketsIInv /\ [PacketsNext]_packetsVars =>
        [ClockPosition' >= ClockPosition \/ Reset \/ "restart" \in {loop, loop'}]_packetsVars
  BY PositionStep
<1>2. QED
  BY <1>1, PacketsInvariance, PTL DEF PacketsSpec, PositionHolds
=============================================================================

------------------------ MODULE ControlQueue_proofs -------------------------
(***************************************************************************)
(* Memory safety of the control queue for any number of threads, any ring  *)
(* size and any timeout: type correctness, and that a message is freed     *)
(* exactly when neither the device nor a command can reach it any more;    *)
(* and, resting on it, that a success is backed by the device's answer.    *)
(***************************************************************************)
EXTENDS ControlQueue, FiniteSetTheorems, TLAPS

(***************************************************************************)
(* What the two safety properties rest on: where a command stands decides  *)
(* whether it owns a message, whether that message is on the ring, and     *)
(* whether it holds the mutex.                                             *)
(***************************************************************************)
Ownership ==
  \A c \in Clients :
    /\ pc[c] = "poll" <=> mutex = c
    /\ msg[c] # NoAddr <=> pc[c] \in {"lock", "poll"}
    /\ pc[c] = "lock" => msg[c] \in allocated \ Queued
    /\ pc[c] = "poll" => msg[c] \in Queued

OneOwner == \A c, d \in Clients : msg[c] = msg[d] /\ msg[c] # NoAddr => c = d

IInv == TypeOK /\ NoUseAfterFree /\ NoMessageLost /\ Ownership /\ OneOwner

Messages == [msg : Addrs, code : Codes]

-----------------------------------------------------------------------------
(* The messages on the used ring after a completion is appended.           *)
LEMMA ReturnedAppend ==
  ASSUME used \in Seq(Messages), NEW e \in Messages, used' = Append(used, e)
  PROVE  /\ Returned' = Returned \cup {e.msg}
         /\ DOMAIN used' = 1 .. Len(used) + 1
         /\ \A i \in 1 .. Len(used) : used'[i] = used[i]
         /\ used'[Len(used) + 1] = e
<1>1. /\ DOMAIN used = 1 .. Len(used)
      /\ DOMAIN used' = 1 .. Len(used) + 1
      /\ \A i \in 1 .. Len(used) : used'[i] = used[i]
      /\ used'[Len(used) + 1] = e
      /\ Len(used) \in Nat
  OBVIOUS
<1>2. Returned' = Returned \cup {e.msg}
  BY <1>1 DEF Returned
<1>3. QED
  BY <1>1, <1>2

(* The messages on the used ring after get_buf took the oldest one, when   *)
(* no message is there twice.                                              *)
LEMMA ReturnedTail ==
  ASSUME used \in Seq(Messages), used # <<>>, used' = Tail(used),
         \A i, j \in DOMAIN used : used[i].msg = used[j].msg => i = j
  PROVE  /\ Returned' = Returned \ {Head(used).msg}
         /\ Head(used).msg \in Returned
         /\ Head(used) \in Messages
         /\ used' \in Seq(Messages)
         /\ \A i, j \in DOMAIN used' : used'[i].msg = used'[j].msg => i = j
<1>1. /\ DOMAIN used = 1 .. Len(used)
      /\ Len(used) \in Nat \ {0}
      /\ Head(used) = used[1]
      /\ Head(used) \in Messages
      /\ used' \in Seq(Messages)
      /\ DOMAIN used' = 1 .. Len(used) - 1
      /\ \A i \in 1 .. Len(used) - 1 : used'[i] = used[i + 1]
  OBVIOUS
<1>2. Head(used).msg \in Returned
  BY <1>1 DEF Returned
<1>3. ASSUME NEW i \in DOMAIN used', NEW j \in DOMAIN used',
             used'[i].msg = used'[j].msg
      PROVE  i = j
  <2>1. i + 1 \in DOMAIN used /\ j + 1 \in DOMAIN used
    BY <1>1, <1>3
  <2>2. used[i + 1].msg = used[j + 1].msg
    BY <1>1, <1>3
  <2>3. i + 1 = j + 1
    BY <2>1, <2>2
  <2>4. i \in Nat /\ j \in Nat
    BY <1>1, <1>3
  <2>5. QED
    BY <2>3, <2>4
<1>4. Returned' \subseteq Returned \ {Head(used).msg}
  <2>1. ASSUME NEW i \in DOMAIN used'
        PROVE  used'[i].msg \in Returned /\ used'[i].msg # Head(used).msg
    <3>1. i + 1 \in DOMAIN used /\ 1 \in DOMAIN used /\ i + 1 # 1
      BY <1>1, <2>1
    <3>2. used'[i] = used[i + 1]
      BY <1>1, <2>1
    <3>3. QED
      BY <1>1, <3>1, <3>2 DEF Returned
  <2>2. QED
    BY <2>1 DEF Returned
<1>5. Returned \ {Head(used).msg} \subseteq Returned'
  <2>1. ASSUME NEW i \in DOMAIN used, used[i].msg # Head(used).msg
        PROVE  used[i].msg \in Returned'
    <3>1. i # 1 /\ i \in Nat /\ i - 1 \in DOMAIN used'
      BY <1>1, <2>1
    <3>2. used'[i - 1] = used[i]
      BY <1>1, <3>1
    <3>3. QED
      BY <3>1, <3>2 DEF Returned
  <2>2. QED
    BY <2>1 DEF Returned
<1>6. QED
  BY <1>1, <1>2, <1>3, <1>4, <1>5

-----------------------------------------------------------------------------
LEMMA InitInv == Init => IInv
<1> SUFFICES ASSUME Init PROVE IInv
  OBVIOUS
<1> USE ControlQueueAssumption DEF Init
<1>1. TypeOK
  <2>1. polls \in [Clients -> 0 .. MaxPolls - 1]
    OBVIOUS
  <2>2. used \in Seq([msg : Addrs, code : Codes])
    OBVIOUS
  <2>3. codes \in [Clients -> Seq(Codes)]
    <3>1. <<>> \in Seq(Codes)
      OBVIOUS
    <3>2. QED
      BY <3>1
  <2>4. QED
    BY <2>1, <2>2, <2>3 DEF TypeOK, Commands
<1>2. Returned = {}
  BY DEF Returned
<1>3. NoUseAfterFree /\ NoMessageLost
  BY <1>2 DEF NoUseAfterFree, NoMessageLost, Queued
<1>4. Ownership /\ OneOwner
  BY <1>2 DEF Ownership, OneOwner
<1>5. QED
  BY <1>1, <1>3, <1>4 DEF IInv

(* A step that leaves the ring, the memory, the mutex and every command's  *)
(* hold on its message alone preserves all but the type invariant.         *)
LEMMA Untouched ==
  ASSUME IInv, TypeOK',
         UNCHANGED <<mutex, allocated, posted, used, msg>>,
         \A c \in Clients : pc'[c] = pc[c]
                            \/ {pc[c], pc'[c]} \subseteq {"idle", "alloc", "answered"}
  PROVE  IInv'
<1>1. Returned' = Returned
  BY DEF Returned
<1>2. NoUseAfterFree' /\ NoMessageLost'
  BY <1>1 DEF IInv, NoUseAfterFree, NoMessageLost, Queued, Held
<1>3. Ownership'
  <2> SUFFICES ASSUME NEW c \in Clients
               PROVE  /\ pc'[c] = "poll" <=> mutex' = c
                      /\ msg'[c] # NoAddr <=> pc'[c] \in {"lock", "poll"}
                      /\ pc'[c] = "lock" => msg'[c] \in allocated' \ Queued'
                      /\ pc'[c] = "poll" => msg'[c] \in Queued'
    BY DEF Ownership
  <2>1. Queued' = Queued
    BY <1>1 DEF Queued
  <2>2. CASE pc'[c] = pc[c]
    BY <2>1, <2>2 DEF IInv, Ownership
  <2>3. CASE {pc[c], pc'[c]} \subseteq {"idle", "alloc", "answered"}
    BY <2>1, <2>3 DEF IInv, Ownership
  <2>4. QED
    BY <2>2, <2>3
<1>4. OneOwner'
  BY DEF IInv, OneOwner
<1>5. QED
  BY <1>2, <1>3, <1>4 DEF IInv

-----------------------------------------------------------------------------
(* The caller's own steps: between commands, ring and memory are alone.    *)
LEMMA BeginStep ==
  ASSUME IInv, NEW c \in Clients, NEW k \in Commands, Begin(c, k),
         pc[c] \in {"idle", "answered"}
  PROVE  IInv'
<1>1. TypeOK'
  <2>1. <<>> \in Seq(Codes)
    OBVIOUS
  <2>2. codes' \in [Clients -> Seq(Codes)]
    BY <2>1 DEF IInv, TypeOK, Begin
  <2>3. QED
    BY <2>2 DEF IInv, TypeOK, Begin, deviceVars
<1>2. \A d \in Clients : pc'[d] = pc[d]
                         \/ {pc[d], pc'[d]} \subseteq {"idle", "alloc", "answered"}
  BY DEF Begin, IInv, TypeOK
<1>3. QED
  BY <1>1, <1>2, Untouched DEF Begin, deviceVars

LEMMA CallStep ==
  ASSUME IInv, NEW c \in Clients, Call(c) PROVE IInv'
  BY BeginStep, ControlQueueAssumption DEF Call, Commands

LEMMA PrepareStep ==
  ASSUME IInv, NEW c \in Clients, Prepare(c) PROVE IInv'
  BY BeginStep DEF Prepare, Commands

LEMMA AllocationFailsStep ==
  ASSUME IInv, NEW c \in Clients, AllocationFails(c) PROVE IInv'
<1>1. TypeOK'
  BY ControlQueueAssumption
  DEF AllocationFails, Leave, IInv, TypeOK, Failures, callVars
<1>2. msg' = msg
  BY DEF AllocationFails, Leave, IInv, Ownership, TypeOK
<1>3. \A d \in Clients : pc'[d] = pc[d]
                         \/ {pc[d], pc'[d]} \subseteq {"idle", "alloc", "answered"}
  BY DEF AllocationFails, Leave, IInv, TypeOK
<1>4. QED
  BY <1>1, <1>2, <1>3, Untouched DEF AllocationFails, Leave

LEMMA RetryStep ==
  ASSUME IInv, NEW c \in Clients, Retry(c) PROVE IInv'
<1>1. TypeOK'
  BY DEF Retry, IInv, TypeOK, deviceVars
<1>2. \A d \in Clients : pc'[d] = pc[d]
                         \/ {pc[d], pc'[d]} \subseteq {"idle", "alloc", "answered"}
  BY DEF Retry, IInv, TypeOK
<1>3. QED
  BY <1>1, <1>2, Untouched DEF Retry, deviceVars

LEMMA ReturnStep ==
  ASSUME IInv, NEW c \in Clients, Return(c) PROVE IInv'
<1>1. TypeOK'
  BY DEF Return, IInv, TypeOK, deviceVars
<1>2. \A d \in Clients : pc'[d] = pc[d]
                         \/ {pc[d], pc'[d]} \subseteq {"idle", "alloc", "answered"}
  BY DEF Return, IInv, TypeOK
<1>3. QED
  BY <1>1, <1>2, Untouched DEF Return, deviceVars

(* A poll that finds nothing changes the clock and the bell only.          *)
LEMMA PollAgainStep ==
  ASSUME IInv, NEW c \in Clients, PollAgain(c) PROVE IInv'
<1>1. bell' \in BOOLEAN
  BY DEF PollAgain, Renotify, IInv, TypeOK
<1>2. polls' \in [Clients -> 0 .. MaxPolls - 1]
  <2>1. polls[c] + 1 \in 0 .. MaxPolls - 1
    BY ControlQueueAssumption DEF PollAgain, IInv, TypeOK
  <2>2. QED
    BY <2>1 DEF PollAgain, IInv, TypeOK
<1>3. TypeOK'
  BY <1>1, <1>2 DEF PollAgain, IInv, TypeOK, callVars
<1>4. QED
  BY <1>3, Untouched DEF PollAgain

(* The device's own steps.                                                 *)
LEMMA DeviceFetchStep ==
  ASSUME IInv, NEW a \in Addrs, DeviceFetch(a) PROVE IInv'
<1>1. TypeOK'
  BY DEF DeviceFetch, IInv, TypeOK, callVars
<1>2. QED
  BY <1>1, Untouched DEF DeviceFetch

LEMMA DeviceIdleStep ==
  ASSUME IInv, DeviceIdle PROVE IInv'
<1>1. TypeOK'
  BY DEF DeviceIdle, IInv, TypeOK, callVars
<1>2. QED
  BY <1>1, Untouched DEF DeviceIdle

LEMMA StutterStep ==
  ASSUME IInv, UNCHANGED vars PROVE IInv'
<1>1. TypeOK'
  BY DEF vars, IInv, TypeOK, deviceVars, callVars
<1>2. QED
  BY <1>1, Untouched DEF vars, deviceVars

-----------------------------------------------------------------------------
(* A new message is owned by its command only.                             *)
LEMMA AllocateStep ==
  ASSUME IInv, NEW c \in Clients, AllocateMessage(c) PROVE IInv'
<1>1. PICK a \in Addrs \ allocated : /\ allocated' = allocated \cup {a}
                                     /\ msg' = [msg EXCEPT ![c] = a]
  BY DEF AllocateMessage
<1>2. Returned' = Returned /\ Queued' = Queued
  BY DEF AllocateMessage, Returned, Queued, deviceVars
<1>3. a \notin Queued /\ a \notin Held /\ a # NoAddr
  <2>1. Held \subseteq allocated
    BY DEF Held, IInv, Ownership, NoUseAfterFree, TypeOK
  <2>2. QED
    BY <1>1, <2>1, ControlQueueAssumption DEF IInv, NoUseAfterFree
<1>4. TypeOK'
  BY <1>1 DEF AllocateMessage, IInv, TypeOK, deviceVars, callVars
<1>5. NoUseAfterFree'
  BY <1>1, <1>2 DEF AllocateMessage, IInv, NoUseAfterFree, Queued, deviceVars
<1>6. msg[c] = NoAddr
  BY DEF AllocateMessage, IInv, Ownership
<1>7. NoMessageLost'
  <2>1. ASSUME NEW b \in Held PROVE b \in Held'
    <3>1. PICK d \in Clients : msg[d] = b /\ b # NoAddr
      BY <2>1 DEF Held
    <3>2. d # c
      BY <1>6, <3>1
    <3>3. msg'[d] = b
      BY <1>1, <3>1, <3>2 DEF IInv, TypeOK
    <3>4. QED
      BY <3>1, <3>3 DEF Held
  <2>2. a \in Held'
    BY <1>1, <1>3 DEF Held, IInv, TypeOK
  <2>3. QED
    BY <1>1, <1>2, <2>1, <2>2 DEF IInv, NoMessageLost
<1>8. Ownership'
  BY <1>1, <1>2, <1>3 DEF AllocateMessage, IInv, Ownership, TypeOK
<1>9. OneOwner'
  <2>1. ASSUME NEW d \in Clients, d # c PROVE msg[d] # a
    BY <1>3, <2>1 DEF Held
  <2>2. QED
    BY <1>1, <2>1 DEF IInv, OneOwner, TypeOK
<1>10. QED
  BY <1>4, <1>5, <1>7, <1>8, <1>9 DEF IInv

(* The mutex was free, so nobody polls; the message goes onto the ring.    *)
LEMMA SubmitStep ==
  ASSUME IInv, NEW c \in Clients, Submit(c) PROVE IInv'
<1> DEFINE a == msg[c]
<1>1. a \in allocated \ Queued /\ a \in Addrs /\ a # NoAddr
  BY DEF Submit, IInv, Ownership, TypeOK
<1>2. Returned' = Returned /\ Queued' = Queued \cup {a}
  BY DEF Submit, Returned, Queued
<1>3. TypeOK'
  BY <1>1 DEF Submit, IInv, TypeOK, callVars
<1>4. NoUseAfterFree'
  BY <1>1, <1>2 DEF Submit, IInv, NoUseAfterFree, Queued
<1>5. NoMessageLost'
  BY <1>2 DEF Submit, IInv, NoMessageLost, Held
<1>6. Ownership'
  <2> SUFFICES ASSUME NEW d \in Clients
               PROVE  /\ pc'[d] = "poll" <=> mutex' = d
                      /\ msg'[d] # NoAddr <=> pc'[d] \in {"lock", "poll"}
                      /\ pc'[d] = "lock" => msg'[d] \in allocated' \ Queued'
                      /\ pc'[d] = "poll" => msg'[d] \in Queued'
    BY DEF Ownership
  <2>1. CASE d = c
    BY <1>1, <1>2, <2>1 DEF Submit, IInv, TypeOK
  <2>2. CASE d # c
    <3>1. pc'[d] = pc[d] /\ msg' = msg /\ allocated' = allocated
      BY <2>2 DEF Submit, IInv, TypeOK
    <3>2. pc[d] # "poll" /\ mutex' # d
      BY <2>2, ControlQueueAssumption DEF Submit, IInv, Ownership
    <3>3. msg[d] # NoAddr => msg[d] # a
      BY <2>2 DEF IInv, OneOwner
    <3>4. QED
      BY <1>2, <3>1, <3>2, <3>3 DEF IInv, Ownership
  <2>3. QED
    BY <2>1, <2>2
<1>7. OneOwner'
  BY DEF Submit, IInv, OneOwner
<1>8. QED
  BY <1>3, <1>4, <1>5, <1>6, <1>7 DEF IInv

(* A command that leaves without its message on the ring has freed it.     *)
LEMMA SubmitBusyStep ==
  ASSUME IInv, NEW c \in Clients, SubmitBusy(c) PROVE IInv'
<1> DEFINE a == msg[c]
<1>1. a \in allocated \ Queued /\ a # NoAddr
  BY DEF SubmitBusy, IInv, Ownership
<1>2. /\ allocated' = allocated \ {a}
      /\ msg' = [msg EXCEPT ![c] = NoAddr]
      /\ pc' = [pc EXCEPT ![c] = "answered"]
      /\ UNCHANGED <<mutex, posted, used>>
  BY DEF SubmitBusy, Leave
<1>3. Returned' = Returned /\ Queued' = Queued
  BY <1>2 DEF Returned, Queued
<1>4. TypeOK'
  BY ControlQueueAssumption DEF SubmitBusy, Leave, IInv, TypeOK, callVars, Failures
<1>5. NoUseAfterFree'
  BY <1>1, <1>2, <1>3 DEF IInv, NoUseAfterFree, Queued
<1>6. \A d \in Clients : d # c => msg'[d] = msg[d] /\ (msg[d] # NoAddr => msg[d] # a)
  BY <1>1, <1>2 DEF IInv, TypeOK, OneOwner
<1>7. NoMessageLost'
  BY <1>2, <1>3, <1>6 DEF IInv, NoMessageLost, Held
<1>8. Ownership'
  BY <1>1, <1>2, <1>3, <1>6 DEF SubmitBusy, IInv, Ownership, TypeOK
<1>9. OneOwner'
  BY <1>2, <1>6 DEF IInv, OneOwner, TypeOK
<1>10. QED
  BY <1>4, <1>5, <1>7, <1>8, <1>9 DEF IInv

-----------------------------------------------------------------------------
(* Taking the oldest completion off the used ring.                         *)
LEMMA GetBuf ==
  ASSUME IInv, used # <<>>, used' = Tail(used), posted' = posted
  PROVE  /\ Head(used).msg \in Returned
         /\ Head(used) \in Messages
         /\ used' \in Seq(Messages)
         /\ Returned' = Returned \ {Head(used).msg}
         /\ Queued' = Queued \ {Head(used).msg}
         /\ posted' \cap Returned' = {}
         /\ \A i, j \in DOMAIN used' : used'[i].msg = used'[j].msg => i = j
<1>1. used \in Seq(Messages)
  BY DEF IInv, TypeOK, Messages
<1>2. \A i, j \in DOMAIN used : used[i].msg = used[j].msg => i = j
  BY DEF IInv, NoUseAfterFree
<1>3. /\ Returned' = Returned \ {Head(used).msg}
      /\ Head(used).msg \in Returned
      /\ Head(used) \in Messages
      /\ used' \in Seq(Messages)
      /\ \A i, j \in DOMAIN used' : used'[i].msg = used'[j].msg => i = j
  BY <1>1, <1>2, ReturnedTail
<1>4. posted \cap Returned = {}
  BY DEF IInv, NoUseAfterFree
<1>5. QED
  BY <1>3, <1>4 DEF Queued

(* A stranger's message is awaited by nobody: whoever put it there timed   *)
(* out, or it would hold the mutex.                                        *)
LEMMA ReapStaleStep ==
  ASSUME IInv, NEW c \in Clients, ReapStale(c) PROVE IInv'
<1> DEFINE a == Head(used).msg
<1>1. /\ used # <<>> /\ used' = Tail(used) /\ a # msg[c]
      /\ allocated' = allocated \ {a}
      /\ UNCHANGED <<mutex, posted, fetched, bell, pc, callVars, msg, polls, answer>>
      /\ mutex = c
  BY DEF ReapStale, Polling
<1>2. /\ a \in Returned /\ used' \in Seq(Messages)
      /\ Returned' = Returned \ {a} /\ Queued' = Queued \ {a}
      /\ posted' \cap Returned' = {}
      /\ \A i, j \in DOMAIN used' : used'[i].msg = used'[j].msg => i = j
  BY <1>1, GetBuf
<1>3. TypeOK'
  BY <1>1, <1>2 DEF IInv, TypeOK, Messages, callVars
<1>4. NoUseAfterFree'
  BY <1>1, <1>2 DEF IInv, NoUseAfterFree
<1>5. NoMessageLost'
  BY <1>1, <1>2 DEF IInv, NoMessageLost, Held
<1>6. \A d \in Clients : msg[d] # a
  <2> SUFFICES ASSUME NEW d \in Clients, msg[d] = a PROVE FALSE
    OBVIOUS
  <2>1. a \in Queued /\ a # NoAddr
    BY <1>2, ControlQueueAssumption DEF Queued, IInv, NoUseAfterFree, TypeOK
  <2>2. pc[d] = "poll"
    BY <2>1 DEF IInv, Ownership
  <2>3. d = c
    BY <1>1, <2>2 DEF IInv, Ownership
  <2>4. QED
    BY <1>1, <2>3
<1>7. Ownership'
  BY <1>1, <1>2, <1>6 DEF IInv, Ownership
<1>8. OneOwner'
  BY <1>1 DEF IInv, OneOwner
<1>9. QED
  BY <1>3, <1>4, <1>5, <1>7, <1>8 DEF IInv

LEMMA CompleteStep ==
  ASSUME IInv, NEW c \in Clients, Complete(c) PROVE IInv'
<1> DEFINE a == msg[c]
<1>1. /\ used # <<>> /\ used' = Tail(used) /\ Head(used).msg = a
      /\ allocated' = allocated \ {a}
      /\ mutex' = NoClient
      /\ answer' = [answer EXCEPT ![c] = Head(used).code]
      /\ msg' = [msg EXCEPT ![c] = NoAddr]
      /\ polls' = [polls EXCEPT ![c] = 0]
      /\ pc' = [pc EXCEPT ![c] = "answered"]
      /\ UNCHANGED <<posted, fetched, callVars, bell>>
      /\ pc[c] = "poll" /\ mutex = c
  BY DEF Complete, Polling, Leave
<1>2. /\ a \in Returned /\ used' \in Seq(Messages) /\ Head(used) \in Messages
      /\ Returned' = Returned \ {a} /\ Queued' = Queued \ {a}
      /\ posted' \cap Returned' = {}
      /\ \A i, j \in DOMAIN used' : used'[i].msg = used'[j].msg => i = j
  BY <1>1, GetBuf
<1>3. TypeOK'
  BY <1>1, <1>2, ControlQueueAssumption DEF IInv, TypeOK, Messages, callVars
<1>4. NoUseAfterFree'
  BY <1>1, <1>2 DEF IInv, NoUseAfterFree
<1>5. a # NoAddr
  BY <1>1 DEF IInv, Ownership
<1>6. \A d \in Clients : d # c => msg'[d] = msg[d] /\ (msg[d] # NoAddr => msg[d] # a)
  BY <1>1, <1>5 DEF IInv, TypeOK, OneOwner
<1>7. NoMessageLost'
  BY <1>1, <1>2, <1>6 DEF IInv, NoMessageLost, Held
<1>8. Ownership'
  <2> SUFFICES ASSUME NEW d \in Clients
               PROVE  /\ pc'[d] = "poll" <=> mutex' = d
                      /\ msg'[d] # NoAddr <=> pc'[d] \in {"lock", "poll"}
                      /\ pc'[d] = "lock" => msg'[d] \in allocated' \ Queued'
                      /\ pc'[d] = "poll" => msg'[d] \in Queued'
    BY DEF Ownership
  <2>1. mutex' # d
    BY <1>1, ControlQueueAssumption
  <2>2. CASE d = c
    BY <1>1, <2>1, <2>2 DEF IInv, TypeOK
  <2>3. CASE d # c
    <3>1. pc'[d] = pc[d] /\ pc[d] # "poll"
      BY <1>1, <2>3 DEF IInv, Ownership, TypeOK
    <3>2. QED
      BY <1>1, <1>2, <1>6, <2>1, <2>3, <3>1 DEF IInv, Ownership
  <2>4. QED
    BY <2>2, <2>3
<1>9. OneOwner'
  BY <1>1, <1>6 DEF IInv, OneOwner, TypeOK
<1>10. QED
  BY <1>3, <1>4, <1>7, <1>8, <1>9 DEF IInv

(* After a timeout the message is on the ring, which now alone keeps it.   *)
LEMMA PollTimeoutStep ==
  ASSUME IInv, NEW c \in Clients, PollTimeout(c) PROVE IInv'
<1> DEFINE a == msg[c]
<1>1. /\ mutex' = NoClient
      /\ bell' = Renotify(polls[c] + 1)
      /\ answer' = [answer EXCEPT ![c] = "IO_TIMEOUT"]
      /\ msg' = [msg EXCEPT ![c] = NoAddr]
      /\ polls' = [polls EXCEPT ![c] = 0]
      /\ pc' = [pc EXCEPT ![c] = "answered"]
      /\ UNCHANGED <<allocated, used, posted, fetched, callVars>>
      /\ pc[c] = "poll" /\ mutex = c
  BY DEF PollTimeout, Polling, Leave
<1>2. Returned' = Returned /\ Queued' = Queued
  BY <1>1 DEF Returned, Queued
<1>3. TypeOK'
  <2>1. bell' \in BOOLEAN
    BY <1>1 DEF Renotify, IInv, TypeOK
  <2>2. answer' \in [Clients -> Codes \cup Failures \cup {"none"}]
    BY <1>1 DEF IInv, TypeOK, Failures
  <2>3. polls' \in [Clients -> 0 .. MaxPolls - 1]
    BY <1>1, ControlQueueAssumption DEF IInv, TypeOK
  <2>4. QED
    BY <1>1, <2>1, <2>2, <2>3 DEF IInv, TypeOK, callVars
<1>4. NoUseAfterFree'
  BY <1>1, <1>2 DEF IInv, NoUseAfterFree
<1>5. a \in Queued /\ a # NoAddr
  BY <1>1 DEF IInv, Ownership
<1>6. \A d \in Clients : d # c => msg'[d] = msg[d]
  BY <1>1 DEF IInv, TypeOK
<1>7. NoMessageLost'
  BY <1>1, <1>2, <1>5, <1>6 DEF IInv, NoMessageLost, Held
<1>8. Ownership'
  <2> SUFFICES ASSUME NEW d \in Clients
               PROVE  /\ pc'[d] = "poll" <=> mutex' = d
                      /\ msg'[d] # NoAddr <=> pc'[d] \in {"lock", "poll"}
                      /\ pc'[d] = "lock" => msg'[d] \in allocated' \ Queued'
                      /\ pc'[d] = "poll" => msg'[d] \in Queued'
    BY DEF Ownership
  <2>1. mutex' # d
    BY <1>1, ControlQueueAssumption
  <2>2. CASE d = c
    BY <1>1, <2>1, <2>2 DEF IInv, TypeOK
  <2>3. CASE d # c
    <3>1. pc'[d] = pc[d] /\ pc[d] # "poll"
      BY <1>1, <2>3 DEF IInv, Ownership, TypeOK
    <3>2. QED
      BY <1>1, <1>2, <1>6, <2>1, <2>3, <3>1 DEF IInv, Ownership
  <2>4. QED
    BY <2>2, <2>3
<1>9. OneOwner'
  BY <1>1, <1>6 DEF IInv, OneOwner, TypeOK
<1>10. QED
  BY <1>3, <1>4, <1>7, <1>8, <1>9 DEF IInv

(* An answer moves a message from the available to the used ring.          *)
LEMMA DeviceAnswerStep ==
  ASSUME IInv, NEW a \in Addrs, DeviceAnswer(a) PROVE IInv'
<1>1. PICK k \in Codes :
        /\ used' = Append(used, [msg |-> a, code |-> k])
        /\ codes' = [c \in Clients |-> IF msg[c] = a THEN Append(codes[c], k)
                                       ELSE codes[c]]
  BY DEF DeviceAnswer
<1>2. /\ a \in posted /\ posted' = posted \ {a} /\ fetched' = fetched \ {a}
      /\ UNCHANGED <<mutex, allocated, bell, pc, cmd, attempt, msg, polls, answer>>
  BY DEF DeviceAnswer, IInv, TypeOK
<1> DEFINE e == [msg |-> a, code |-> k]
<1>3. e \in Messages /\ used \in Seq(Messages) /\ e.msg = a
  BY DEF IInv, TypeOK, Messages
<1>4. /\ Returned' = Returned \cup {a}
      /\ DOMAIN used' = 1 .. Len(used) + 1
      /\ \A i \in 1 .. Len(used) : used'[i] = used[i]
      /\ used'[Len(used) + 1] = e
  BY <1>1, <1>3, ReturnedAppend
<1>5. Queued' = Queued
  BY <1>2, <1>4 DEF Queued
<1>6. TypeOK'
  <2>1. used' \in Seq([msg : Addrs, code : Codes])
    BY <1>1, <1>3 DEF Messages
  <2>2. codes' \in [Clients -> Seq(Codes)]
    BY <1>1 DEF IInv, TypeOK
  <2>3. QED
    BY <1>2, <2>1, <2>2 DEF IInv, TypeOK
<1>7. NoUseAfterFree'
  <2>1. Queued' \subseteq allocated' /\ posted' \cap Returned' = {}
    BY <1>2, <1>4, <1>5 DEF IInv, NoUseAfterFree
  <2>2. ASSUME NEW i \in DOMAIN used', NEW j \in DOMAIN used',
               used'[i].msg = used'[j].msg
        PROVE  i = j
    <3>1. Len(used) \in Nat /\ DOMAIN used = 1 .. Len(used)
      BY <1>3
    <3>2. \A n \in 1 .. Len(used) : used[n].msg # a
      BY <1>2, <3>1 DEF IInv, NoUseAfterFree, Returned
    <3>3. CASE i \in 1 .. Len(used) /\ j \in 1 .. Len(used)
      BY <1>4, <2>2, <3>1, <3>3 DEF IInv, NoUseAfterFree
    <3>4. CASE ~(i \in 1 .. Len(used) /\ j \in 1 .. Len(used))
      BY <1>3, <1>4, <2>2, <3>1, <3>2, <3>4
    <3>5. QED
      BY <3>3, <3>4
  <2>3. QED
    BY <2>1, <2>2 DEF NoUseAfterFree
<1>8. NoMessageLost'
  BY <1>2, <1>5 DEF IInv, NoMessageLost, Held
<1>9. Ownership' /\ OneOwner'
  BY <1>2, <1>5 DEF IInv, Ownership, OneOwner
<1>10. QED
  BY <1>6, <1>7, <1>8, <1>9 DEF IInv

-----------------------------------------------------------------------------
LEMMA NextInv == IInv /\ [Next]_vars => IInv'
<1> SUFFICES ASSUME IInv, [Next]_vars PROVE IInv'
  OBVIOUS
<1>1. CASE UNCHANGED vars
  BY <1>1, StutterStep
<1>2. ASSUME NEW c \in Clients, Client(c) PROVE IInv'
  BY <1>2, CallStep, AllocateStep, AllocationFailsStep, SubmitStep,
     SubmitBusyStep, ReapStaleStep, CompleteStep, PollAgainStep,
     PollTimeoutStep, RetryStep, PrepareStep, ReturnStep
  DEF Client, PollStep
<1>3. CASE Device
  BY <1>3, DeviceFetchStep, DeviceAnswerStep, DeviceIdleStep DEF Device
<1>4. QED
  BY <1>1, <1>2, <1>3 DEF Next

LEMMA Invariance == Spec => []IInv
  BY InitInv, NextInv, PTL DEF Spec

(* Every variable stays in its range; no command polls past the timeout    *)
(* (the do-while of ViosndControlCommand).                                 *)
THEOREM TypeCorrect == Spec => []TypeOK
<1>1. IInv => TypeOK
  BY DEF IInv
<1>2. QED
  BY Invariance, <1>1, PTL

(* The device never reaches freed memory and no message is freed twice,    *)
(* timeouts and late answers included (ViosndControlCommand's decision to  *)
(* leave a timed-out message allocated).                                   *)
THEOREM MessagesSafe == Spec => []NoUseAfterFree
<1>1. IInv => NoUseAfterFree
  BY DEF IInv
<1>2. QED
  BY Invariance, <1>1, PTL

(* No control message leaks: every one is a running command's own or on    *)
(* the ring, where the next command that gets to poll frees it.            *)
THEOREM NothingLost == Spec => []NoMessageLost
<1>1. IInv => NoMessageLost
  BY DEF IInv
<1>2. QED
  BY Invariance, <1>1, PTL

(* A message on the ring is awaited by the mutex holder only, so reaping a *)
(* stranger's message takes it from nobody.                                *)
THEOREM HolderOnly == Spec => []OnlyHolderAwaits
<1>1. IInv => OnlyHolderAwaits
  <2> SUFFICES ASSUME IInv PROVE OnlyHolderAwaits
    OBVIOUS
  <2>1. ASSUME NEW c \in Clients, msg[c] \in Queued PROVE mutex = c
    <3>1. msg[c] # NoAddr
      BY <2>1, ControlQueueAssumption DEF IInv, NoUseAfterFree, TypeOK
    <3>2. QED
      BY <2>1, <3>1 DEF IInv, Ownership
  <2>2. QED
    BY <2>1 DEF OnlyHolderAwaits, IInv, OneOwner
<1>2. QED
  BY Invariance, <1>1, PTL

-----------------------------------------------------------------------------
(* Only finitely many messages are ever on the available ring.             *)
PostedFinite == IsFiniteSet(posted)

LEMMA PostedFiniteStep == PostedFinite /\ [Next]_vars => PostedFinite'
<1> SUFFICES ASSUME PostedFinite, [Next]_vars PROVE PostedFinite'
  OBVIOUS
<1>1. CASE UNCHANGED posted
  BY <1>1 DEF PostedFinite
<1>2. ASSUME NEW a, posted' = posted \cup {a} PROVE PostedFinite'
  BY <1>2, FS_AddElement DEF PostedFinite
<1>3. ASSUME NEW a, posted' = posted \ {a} PROVE PostedFinite'
  BY <1>3, FS_RemoveElement DEF PostedFinite
<1>4. ASSUME NEW c \in Clients, Client(c) PROVE PostedFinite'
  <2>1. CASE Submit(c)
    BY <1>2, <2>1 DEF Submit
  <2>2. CASE ~Submit(c)
    BY <1>1, <1>4, <2>2
    DEF Client, Call, Begin, AllocateMessage, AllocationFails, Leave, SubmitBusy,
        PollStep, ReapStale, Complete, PollAgain, PollTimeout, Retry, Prepare,
        Return, deviceVars
  <2>3. QED
    BY <2>1, <2>2
<1>5. ASSUME Device PROVE PostedFinite'
  BY <1>1, <1>3, <1>5 DEF Device, DeviceFetch, DeviceAnswer, DeviceIdle
<1>6. QED
  BY <1>1, <1>4, <1>5 DEF Next, vars, deviceVars

(* A full ring that nobody polls stays full: no command can get far enough *)
(* to call get_buf, and an answer of the device only moves a message from  *)
(* the available to the used ring.                                         *)
LEMMA WedgeStep == IInv /\ PostedFinite /\ Next /\ Wedged => Wedged'
<1> SUFFICES ASSUME IInv, PostedFinite, Next, Wedged PROVE Wedged'
  OBVIOUS
<1>1. mutex = NoClient /\ ~RoomOnRing /\ \A c \in Clients : mutex # c
  BY ControlQueueAssumption DEF Wedged
<1>2. CASE UNCHANGED <<mutex, posted, used>>
  BY <1>1, <1>2 DEF Wedged, RoomOnRing
<1>3. ASSUME NEW c \in Clients, Client(c) PROVE UNCHANGED <<mutex, posted, used>>
  BY <1>1, <1>3
  DEF Client, Call, Begin, AllocateMessage, AllocationFails, Leave, Submit,
      SubmitBusy, PollStep, ReapStale, Complete, PollAgain, PollTimeout,
      Polling, Retry, Prepare, Return, deviceVars
<1>4. ASSUME NEW a \in Addrs, DeviceAnswer(a) PROVE Wedged'
  <2>1. a \in posted /\ posted' = posted \ {a} /\ mutex' = mutex
    BY <1>4 DEF DeviceAnswer, IInv, TypeOK
  <2>2. used \in Seq(Messages)
    BY DEF IInv, TypeOK, Messages
  <2>3. PICK k \in Codes : used' = Append(used, [msg |-> a, code |-> k])
    BY <1>4 DEF DeviceAnswer
  <2>4. Len(used') = Len(used) + 1 /\ Len(used) \in Nat
    BY <2>2, <2>3 DEF Messages
  <2>5. Cardinality(posted') = Cardinality(posted) - 1
    BY <2>1, FS_RemoveElement DEF PostedFinite
  <2>6. Cardinality(posted) \in Nat
    BY FS_CardinalityType DEF PostedFinite
  <2>7. Cardinality(posted') + Len(used') = Cardinality(posted) + Len(used)
    BY <2>4, <2>5, <2>6
  <2>8. QED
    BY <1>1, <2>1, <2>7 DEF Wedged, RoomOnRing
<1>5. ASSUME NEW a \in Addrs, DeviceFetch(a) PROVE UNCHANGED <<mutex, posted, used>>
  BY <1>5 DEF DeviceFetch
<1>6. CASE DeviceIdle
  BY <1>2, <1>6 DEF DeviceIdle
<1>7. QED
  BY <1>2, <1>3, <1>4, <1>5, <1>6 DEF Next, Device

(* Once timed-out messages fill the ring, every later command fails with   *)
(* STATUS_DEVICE_BUSY, for ever and whatever the device does.              *)
THEOREM WedgeLasts == Spec => WedgeIsPermanent
<1>1. Init => PostedFinite
  BY FS_EmptySet DEF Init, PostedFinite
<1>2. IInv /\ PostedFinite /\ [Next]_vars => [Wedged => Wedged']_vars
  BY WedgeStep
<1>3. QED
  BY <1>1, <1>2, Invariance, PostedFiniteStep, PTL DEF Spec, WedgeIsPermanent

-----------------------------------------------------------------------------
(***************************************************************************)
(* That a call reports success only on what the device answered to its own *)
(* messages, for any number of threads, retries and polls, answers that    *)
(* come late included.  It rests on the memory safety above: an answer     *)
(* that comes when its command has given up belongs to a message that is   *)
(* nobody's.                                                               *)
(***************************************************************************)
Completions == {used[i] : i \in DOMAIN used}

(* What a command has been answered so far.  Every attempt before the      *)
(* current one was answered a code that is retried.                        *)
Unanswered(c) ==
  /\ Len(codes[c]) = attempt[c]
  /\ \A i \in 1 .. attempt[c] : codes[c][i] \in Retried(cmd[c])

AnsweredBy(c, k) ==
  /\ Len(codes[c]) = attempt[c] + 1
  /\ \A i \in 1 .. attempt[c] : codes[c][i] \in Retried(cmd[c])
  /\ codes[c][attempt[c] + 1] = k

(* The current attempt has its answer as soon as its message is not on the *)
(* available ring any more, and that answer is the one the used ring has.  *)
Progress(c) ==
  /\ attempt[c] < Tries(cmd[c])
  /\ pc[c] \in {"alloc", "lock"} => Unanswered(c)
  /\ pc[c] = "poll" /\ msg[c] \in posted => Unanswered(c)
  /\ pc[c] = "poll" =>
       \A e \in Completions : e.msg = msg[c] => AnsweredBy(c, e.code)
  /\ pc[c] = "answered" /\ answer[c] \in Codes => AnsweredBy(c, answer[c])

Truthful(c) ==
  (pc[c] = "idle" /\ answer[c] # "none" /\ StatusOf(cmd[c], answer[c]) = "SUCCESS")
    => LET n == Len(codes[c])
       IN  /\ n \in 1 .. Tries(cmd[c])
           /\ \A i \in 1 .. n - 1 : codes[c][i] \in Retried(cmd[c])
           /\ codes[c][n] \in Accepted(cmd[c])
           /\ codes[c][n] # "OK" => n = Tries(cmd[c])

AInv == \A c \in Clients : Progress(c) /\ Truthful(c)

LEMMA TriesPositive == \A k : Tries(k) \in Nat \ {0}
  BY ControlQueueAssumption DEF Tries

LEMMA InitAnswers == Init => AInv
<1> SUFFICES ASSUME Init, NEW c \in Clients PROVE Progress(c) /\ Truthful(c)
  BY DEF AInv
<1>1. attempt[c] = 0 /\ pc[c] = "idle" /\ answer[c] = "none"
  BY DEF Init
<1>2. QED
  BY <1>1, TriesPositive DEF Progress, Truthful

-----------------------------------------------------------------------------
(* A command nothing of whose own changes: the ring may lose completions   *)
(* and take messages of others.                                            *)
LEMMA Bystander ==
  ASSUME NEW d \in Clients, Progress(d), Truthful(d),
         pc'[d] = pc[d], cmd'[d] = cmd[d], attempt'[d] = attempt[d],
         msg'[d] = msg[d], answer'[d] = answer[d], codes'[d] = codes[d],
         pc[d] = "poll" => (msg[d] \in posted' => msg[d] \in posted),
         Completions' \subseteq Completions
  PROVE  Progress(d)' /\ Truthful(d)'
<1>1. Progress(d)'
  BY DEF Progress, Unanswered, AnsweredBy
<1>2. Truthful(d)'
  BY DEF Truthful
<1>3. QED
  BY <1>1, <1>2

LEMMA CompletionsTail ==
  ASSUME IInv, used # <<>>, used' = Tail(used)
  PROVE  Completions' \subseteq Completions /\ Head(used) \in Completions
<1>1. used \in Seq(Messages)
  BY DEF IInv, TypeOK, Messages
<1>2. /\ DOMAIN used = 1 .. Len(used) /\ Len(used) \in Nat \ {0}
      /\ Head(used) = used[1]
      /\ DOMAIN used' = 1 .. Len(used) - 1
      /\ \A i \in 1 .. Len(used) - 1 : used'[i] = used[i + 1]
  BY <1>1
<1>3. Head(used) \in Completions
  BY <1>2 DEF Completions
<1>4. ASSUME NEW i \in DOMAIN used' PROVE used'[i] \in Completions
  <2>1. i + 1 \in DOMAIN used /\ used'[i] = used[i + 1]
    BY <1>2
  <2>2. QED
    BY <2>1 DEF Completions
<1>5. QED
  BY <1>3, <1>4 DEF Completions

(* The other commands, while one of them takes a step.                     *)
LEMMA OthersStep ==
  ASSUME IInv, AInv, NEW c \in Clients, Client(c), NEW d \in Clients, d # c
  PROVE  Progress(d)' /\ Truthful(d)'
<1>1. /\ pc'[d] = pc[d] /\ cmd'[d] = cmd[d] /\ attempt'[d] = attempt[d]
      /\ msg'[d] = msg[d] /\ answer'[d] = answer[d] /\ codes'[d] = codes[d]
  BY DEF IInv, TypeOK, Client, Call, Begin, AllocateMessage, AllocationFails,
         Leave, Submit, SubmitBusy, PollStep, ReapStale, Complete, PollAgain,
         PollTimeout, Retry, Prepare, Return, callVars
<1>2. pc[d] = "poll" => (msg[d] \in posted' => msg[d] \in posted)
  <2>1. CASE Submit(c)
    BY <2>1, ControlQueueAssumption DEF Submit, IInv, Ownership
  <2>2. CASE ~Submit(c)
    <3>1. posted' = posted
      BY <2>2 DEF Client, Call, Begin, AllocateMessage, AllocationFails, Leave,
         SubmitBusy, PollStep, ReapStale, Complete, PollAgain, PollTimeout,
         Retry, Prepare, Return, deviceVars
    <3>2. QED
      BY <3>1
  <2>3. QED
    BY <2>1, <2>2
<1>3. Completions' \subseteq Completions
  <2>1. CASE used # <<>> /\ used' = Tail(used)
    BY <2>1, CompletionsTail
  <2>2. CASE used' = used
    BY <2>2 DEF Completions
  <2>3. QED
    BY <2>1, <2>2
    DEF Client, Call, Begin, AllocateMessage, AllocationFails, Leave, Submit,
        SubmitBusy, PollStep, ReapStale, Complete, PollAgain, PollTimeout,
        Retry, Prepare, Return, deviceVars
<1>4. QED
  BY <1>1, <1>2, <1>3, Bystander DEF AInv

-----------------------------------------------------------------------------
(* The command's own steps.                                                *)
LEMMA OwnStep ==
  ASSUME IInv, AInv, NEW c \in Clients, Client(c)
  PROVE  Progress(c)' /\ Truthful(c)'
<1>0. /\ Progress(c) /\ Truthful(c)
      /\ pc \in [Clients -> {"idle", "alloc", "lock", "poll", "answered"}]
      /\ cmd \in [Clients -> Commands] /\ attempt \in [Clients -> Nat]
      /\ msg \in [Clients -> Addrs \cup {NoAddr}]
      /\ answer \in [Clients -> Codes \cup Failures \cup {"none"}]
      /\ codes \in [Clients -> Seq(Codes)] /\ used \in Seq(Messages)
  BY DEF AInv, IInv, TypeOK, Messages
<1>1. ASSUME NEW k \in Commands, Begin(c, k) PROVE Progress(c)' /\ Truthful(c)'
  <2>1. /\ cmd'[c] = k /\ attempt'[c] = 0 /\ codes'[c] = <<>> /\ pc'[c] = "alloc"
    BY <1>0, <1>1 DEF Begin
  <2>2. QED
    BY <2>1, TriesPositive DEF Progress, Truthful, Unanswered
<1>2. CASE Call(c)
  BY <1>1, <1>2, ControlQueueAssumption DEF Call, Commands
<1>3. CASE Prepare(c)
  BY <1>1, <1>3 DEF Prepare, Commands
<1>4. CASE AllocateMessage(c)
  <2>1. /\ pc[c] = "alloc" /\ pc'[c] = "lock"
        /\ UNCHANGED <<cmd, attempt, codes, answer>>
    BY <1>0, <1>4 DEF AllocateMessage, callVars
  <2>2. QED
    BY <1>0, <2>1 DEF Progress, Truthful, Unanswered
<1>5. ASSUME NEW f \in Failures, Leave(c, f) PROVE Progress(c)' /\ Truthful(c)'
  <2>1. pc'[c] = "answered" /\ answer'[c] = f /\ UNCHANGED <<cmd, attempt, codes>>
    BY <1>0, <1>5 DEF Leave, callVars
  <2>2. f \notin Codes
    BY DEF Failures, Codes
  <2>3. QED
    BY <1>0, <2>1, <2>2 DEF Progress, Truthful
<1>6. CASE AllocationFails(c) \/ SubmitBusy(c) \/ PollTimeout(c)
  BY <1>5, <1>6 DEF AllocationFails, SubmitBusy, PollTimeout, Failures
<1>7. CASE Submit(c)
  <2>1. /\ pc[c] = "lock" /\ pc'[c] = "poll" /\ used' = used
        /\ UNCHANGED <<cmd, attempt, codes, answer, msg>>
    BY <1>0, <1>7 DEF Submit, callVars
  <2>2. msg[c] \notin Returned
    BY <2>1 DEF IInv, Ownership, Queued
  <2>3. \A e \in Completions' : e.msg # msg'[c]
    BY <2>1, <2>2 DEF Completions, Returned
  <2>4. QED
    BY <1>0, <2>1, <2>3 DEF Progress, Truthful, Unanswered
<1>8. CASE ReapStale(c)
  <2>1. /\ used # <<>> /\ used' = Tail(used) /\ pc[c] = "poll"
        /\ UNCHANGED <<pc, posted, cmd, attempt, codes, answer, msg>>
    BY <1>8 DEF ReapStale, Polling, callVars
  <2>2. QED
    BY <1>0, <2>1, CompletionsTail, Bystander
<1>9. CASE Complete(c)
  <2>1. /\ used # <<>> /\ Head(used).msg = msg[c] /\ used' = Tail(used)
        /\ pc[c] = "poll" /\ pc'[c] = "answered" /\ answer'[c] = Head(used).code
        /\ UNCHANGED <<cmd, attempt, codes>>
    BY <1>0, <1>9 DEF Complete, Polling, Leave, callVars
  <2>2. AnsweredBy(c, Head(used).code)
    BY <1>0, <2>1, CompletionsTail DEF Progress
  <2>3. QED
    BY <1>0, <2>1, <2>2 DEF Progress, Truthful, AnsweredBy
<1>10. CASE PollAgain(c)
  <2>1. UNCHANGED <<pc, posted, used, cmd, attempt, codes, answer, msg>>
    BY <1>10 DEF PollAgain, callVars
  <2>2. QED
    BY <1>0, <2>1, Bystander DEF Completions
<1>11. CASE Retry(c)
  <2>1. /\ pc[c] = "answered" /\ pc'[c] = "alloc" /\ attempt'[c] = attempt[c] + 1
        /\ answer[c] \in Retried(cmd[c]) /\ attempt[c] + 1 < Tries(cmd[c])
        /\ UNCHANGED <<cmd, codes>>
    BY <1>0, <1>11 DEF Retry, Retriable
  <2>2. answer[c] \in Codes /\ attempt[c] \in Nat
    BY <1>0, <2>1 DEF Retried, Codes
  <2>3. AnsweredBy(c, answer[c])
    BY <1>0, <2>1, <2>2 DEF Progress
  <2>4. ASSUME NEW i \in 1 .. attempt'[c] PROVE codes[c][i] \in Retried(cmd[c])
    <3>1. i \in 1 .. attempt[c] \/ i = attempt[c] + 1
      BY <2>1, <2>2
    <3>2. QED
      BY <2>1, <2>3, <3>1 DEF AnsweredBy
  <2>5. Unanswered(c)'
    BY <2>1, <2>3, <2>4 DEF Unanswered, AnsweredBy
  <2>6. QED
    BY <2>1, <2>5 DEF Progress, Truthful
<1>12. CASE Return(c)
  <2>1. /\ pc[c] = "answered" /\ pc'[c] = "idle" /\ attempt'[c] = 0
        /\ ~Retriable(c) /\ UNCHANGED <<cmd, codes, answer>>
    BY <1>0, <1>12 DEF Return
  <2>2. Progress(c)'
    BY <2>1, TriesPositive DEF Progress
  <2>3. ASSUME answer[c] # "none", StatusOf(cmd[c], answer[c]) = "SUCCESS"
        PROVE  LET n == Len(codes[c])
               IN  /\ n \in 1 .. Tries(cmd[c])
                   /\ \A i \in 1 .. n - 1 : codes[c][i] \in Retried(cmd[c])
                   /\ codes[c][n] \in Accepted(cmd[c])
                   /\ codes[c][n] # "OK" => n = Tries(cmd[c])
    <3>1. answer[c] \in Accepted(cmd[c]) /\ answer[c] \in Codes
      BY <2>3 DEF StatusOf, Failures, Accepted, Codes
    <3>2. answer[c] # "OK" => answer[c] \in Retried(cmd[c])
      BY <3>1 DEF Accepted, Retried
    <3>3. AnsweredBy(c, answer[c]) /\ attempt[c] < Tries(cmd[c])
      BY <1>0, <2>1, <3>1 DEF Progress
    <3>4. attempt[c] \in Nat /\ Tries(cmd[c]) \in Nat
      BY <1>0, TriesPositive
    <3>5. answer[c] # "OK" => attempt[c] + 1 = Tries(cmd[c])
      BY <2>1, <3>2, <3>3, <3>4 DEF Retriable
    <3>6. QED
      BY <3>1, <3>3, <3>4, <3>5 DEF AnsweredBy
  <2>4. Truthful(c)'
    BY <2>1, <2>3 DEF Truthful
  <2>5. QED
    BY <2>2, <2>4
<1>13. QED
  BY <1>2, <1>3, <1>4, <1>6, <1>7, <1>8, <1>9, <1>10, <1>11, <1>12
  DEF Client, PollStep

-----------------------------------------------------------------------------
(* An answer reaches the command that still waits for it, or nobody.       *)
LEMMA AnswerStep ==
  ASSUME IInv, AInv, NEW a \in Addrs, DeviceAnswer(a), NEW d \in Clients
  PROVE  Progress(d)' /\ Truthful(d)'
<1>1. PICK k \in Codes :
        /\ used' = Append(used, [msg |-> a, code |-> k])
        /\ codes' = [c \in Clients |-> IF msg[c] = a THEN Append(codes[c], k)
                                       ELSE codes[c]]
  BY DEF DeviceAnswer
<1>2. /\ a \in posted /\ posted' = posted \ {a}
      /\ UNCHANGED <<pc, cmd, attempt, msg, answer>>
      /\ Progress(d) /\ Truthful(d)
      /\ used \in Seq(Messages) /\ codes[d] \in Seq(Codes) /\ attempt[d] \in Nat
  BY DEF DeviceAnswer, AInv, IInv, TypeOK, Messages
<1> DEFINE e == [msg |-> a, code |-> k]
<1>3. Completions' = Completions \cup {e}
  <2>1. /\ DOMAIN used = 1 .. Len(used) /\ DOMAIN used' = 1 .. Len(used) + 1
        /\ \A i \in 1 .. Len(used) : used'[i] = used[i]
        /\ used'[Len(used) + 1] = e /\ Len(used) \in Nat
    BY <1>1, <1>2 DEF Messages
  <2>2. QED
    BY <2>1 DEF Completions
<1>4. CASE msg[d] # a
  <2>1. codes'[d] = codes[d] /\ e.msg # msg[d]
    BY <1>1, <1>4
  <2>2. Progress(d)'
    BY <1>2, <1>3, <2>1 DEF Progress, Unanswered, AnsweredBy
  <2>3. QED
    BY <1>2, <2>1, <2>2 DEF Truthful
<1>5. CASE msg[d] = a
  <2>1. pc[d] = "poll"
    BY <1>2, <1>5, ControlQueueAssumption DEF IInv, Ownership, Queued
  <2>2. Unanswered(d)
    BY <1>2, <1>5, <2>1 DEF Progress
  <2>3. codes'[d] = Append(codes[d], k)
    BY <1>1, <1>5
  <2>4. AnsweredBy(d, k)'
    <3>1. /\ Len(codes'[d]) = Len(codes[d]) + 1 /\ codes'[d][Len(codes[d]) + 1] = k
          /\ \A i \in 1 .. Len(codes[d]) : codes'[d][i] = codes[d][i]
      BY <1>2, <2>3
    <3>2. QED
      BY <1>2, <2>2, <3>1 DEF Unanswered, AnsweredBy
  <2>5. \A x \in Completions : x.msg # a
    BY <1>2 DEF IInv, NoUseAfterFree, Returned, Completions
  <2>6. Progress(d)'
    BY <1>2, <1>3, <1>5, <2>1, <2>4, <2>5 DEF Progress
  <2>7. QED
    BY <1>2, <2>1, <2>6 DEF Truthful
<1>6. QED
  BY <1>4, <1>5

LEMMA NextAnswers == IInv /\ AInv /\ [Next]_vars => AInv'
<1> SUFFICES ASSUME IInv, AInv, [Next]_vars, NEW d \in Clients
             PROVE  Progress(d)' /\ Truthful(d)'
  BY DEF AInv
<1>1. CASE UNCHANGED <<pc, cmd, attempt, msg, answer, codes, posted, used>>
  BY <1>1, Bystander DEF AInv, Completions
<1>2. ASSUME NEW c \in Clients, Client(c) PROVE Progress(d)' /\ Truthful(d)'
  BY <1>2, OwnStep, OthersStep
<1>3. CASE Device
  <2>1. ASSUME NEW a \in Addrs, DeviceFetch(a) PROVE Progress(d)' /\ Truthful(d)'
    BY <1>1, <2>1 DEF DeviceFetch, callVars
  <2>2. CASE DeviceIdle
    BY <1>1, <2>2 DEF DeviceIdle, callVars
  <2>3. QED
    BY <1>3, <2>1, <2>2, AnswerStep DEF Device
<1>4. CASE UNCHANGED vars
  BY <1>1, <1>4 DEF vars, callVars, deviceVars
<1>5. QED
  BY <1>2, <1>3, <1>4 DEF Next

(* A call reports success only when its last message was answered a code   *)
(* it accepts, all earlier ones codes it retries, and a code that is not   *)
(* OK only after the last retry: never on the answer to somebody else's    *)
(* message, or on one left over from a timeout (ViosndControlStatus-       *)
(* CommandEx, ViosndQueryPcmStreams).                                      *)
THEOREM SuccessAnswered == Spec => []SuccessIsAnswered
<1>1. AInv => SuccessIsAnswered
  BY DEF AInv, Truthful, SuccessIsAnswered
<1>2. QED
  BY InitAnswers, NextAnswers, Invariance, <1>1, PTL DEF Spec
=============================================================================

---------------------------- MODULE ControlQueue ----------------------------
(***************************************************************************)
(* The control virtqueue of the port-class driver (ViosndVirtio.cpp).      *)
(*                                                                         *)
(* Several threads (a render SetState, a capture SetState, the render      *)
(* worker switching format, the device start) issue commands.  Each        *)
(* command allocates a message, takes ControlQueueMutex, puts the message  *)
(* on the ring and polls the used ring under the mutex until its own       *)
(* message comes back or the timeout expires.  A message that timed out    *)
(* stays on the ring and is freed by whichever later command finds it.     *)
(* Around that sit the retry loops of ViosndControlStatusCommandEx and     *)
(* ViosndQueryPcmStreams and the two-step ViosndConfigurePcmFormat.        *)
(*                                                                         *)
(* The device is external: it may miss a notification, answer in any       *)
(* order, late or never, and answer any code.                              *)
(***************************************************************************)
EXTENDS Naturals, Sequences, FiniteSets

CONSTANTS
  Clients,        (* the threads that issue commands                        *)
  Addrs,          (* the addresses the pool can return for a message        *)
  NoAddr,         (* "message == NULL"                                      *)
  NoClient,       (* the free mutex                                         *)
  Calls,          (* the calls made: INFO, SET_PARAMS (a configure), PCM    *)
  RingMessages,   (* messages that fit on the ring: half its descriptors    *)
  MaxPolls,       (* VIOSND_CONTROL_TIMEOUT_MS in polls of 1 ms (5000)      *)
  RenotifyPolls,  (* VIOSND_CONTROL_RENOTIFY_US in polls (100)              *)
  StatusTries,    (* VIOSND_CONTROL_STATUS_RETRY_COUNT, which equals        *)
                  (* VIOSND_PCM_BAD_MSG_RETRY_COUNT (4)                     *)
  InfoTries       (* VIOSND_PCM_INFO_RETRY_COUNT (8)                        *)

ASSUME ControlQueueAssumption ==
  /\ NoAddr \notin Addrs
  /\ NoClient \notin Clients
  /\ Calls \subseteq {"INFO", "SET_PARAMS", "PCM"}
  /\ RingMessages \in Nat \ {0}
  /\ MaxPolls \in Nat \ {0}
  /\ RenotifyPolls \in Nat \ {0}
  /\ StatusTries \in Nat \ {0}
  /\ InfoTries \in Nat \ {0}

VARIABLES
  mutex,      (* the holder of ControlQueueMutex, or NoClient               *)
  allocated,  (* the addresses of live control messages                     *)
  posted,     (* messages on the available ring, not yet returned           *)
  used,       (* the used ring, oldest first: a message and the code the    *)
              (* device wrote into its response buffer                      *)
  bell,       (* the device has been notified and has not gone idle since   *)
  fetched,    (* the posted messages whose request the device has read      *)
  pc,         (* where each client is                                       *)
  cmd,        (* the command a client is executing                          *)
  attempt,    (* its "attempt" loop counter                                 *)
  msg,        (* its "message" local                                        *)
  polls,      (* its elapsedUs, in polls                                    *)
  answer,     (* what ViosndControlCommand gave it: a code or a failure     *)
  codes       (* history: the codes the device gave to the current command  *)

deviceVars == <<posted, used, bell, fetched>>
callVars   == <<cmd, attempt, codes>>
vars       == <<mutex, allocated, deviceVars, pc, callVars, msg, polls, answer>>

(***************************************************************************)
(* The commands.  INFO is VIRTIO_SND_R_PCM_INFO; SET_PARAMS and PREPARE    *)
(* are the two steps of a configure; PCM is START, STOP or RELEASE, which  *)
(* this layer treats alike.                                                *)
(***************************************************************************)
Commands == {"INFO", "SET_PARAMS", "PREPARE", "PCM"}

(* The codes a device answers: ZERO is a header left zero, EMPTY an OK     *)
(* answer to INFO whose every stream description is zero.                  *)
Codes    == {"OK", "BAD_MSG", "ERR", "ZERO", "EMPTY"}
Failures == {"IO_TIMEOUT", "DEVICE_BUSY", "INSUFFICIENT_RESOURCES"}

CodesFor(k) == IF k = "INFO" THEN Codes ELSE Codes \ {"EMPTY"}

(* Mistaken: descriptors counted free as soon as the device is done.       *)
Mut_RoomOnRing == Cardinality(posted) < RingMessages

(* Every message takes two descriptors, which get_buf gives back.          *)
RoomOnRing == Cardinality(posted) + Len(used) < RingMessages

Tries(k) == IF k = "INFO" THEN InfoTries ELSE StatusTries

(* What the retry loops repeat: a zero header always, BAD_MSG for a status *)
(* command, an all-zero stream table for INFO.                             *)
Retried(k) == IF k = "INFO" THEN {"ZERO", "EMPTY"} ELSE {"ZERO", "BAD_MSG"}

(* What counts as success once the loop ends.  A zero status is accepted;  *)
(* a zero PCM_INFO header is not, and an all-zero table reads as streams   *)
(* of direction OUTPUT, which ViosndFindStreamPair pairs.                  *)
Accepted(k) == IF k = "INFO" THEN {"OK", "EMPTY"} ELSE {"OK", "ZERO"}

StatusOf(k, ans) == IF ans \in Failures THEN ans
                    ELSE IF ans \in Accepted(k) THEN "SUCCESS"
                    ELSE "NOT_SUPPORTED"

-----------------------------------------------------------------------------
Init ==
  /\ mutex     = NoClient
  /\ allocated = {}
  /\ posted    = {}
  /\ used      = <<>>
  /\ bell      = FALSE
  /\ fetched   = {}
  /\ pc        = [c \in Clients |-> "idle"]
  /\ cmd       = [c \in Clients |-> "PCM"]
  /\ attempt   = [c \in Clients |-> 0]
  /\ msg       = [c \in Clients |-> NoAddr]
  /\ polls     = [c \in Clients |-> 0]
  /\ answer    = [c \in Clients |-> "none"]
  /\ codes     = [c \in Clients |-> <<>>]

(* A thread starts a command: its retry loop begins anew.                  *)
Begin(c, k) ==
  /\ cmd'     = [cmd EXCEPT ![c] = k]
  /\ attempt' = [attempt EXCEPT ![c] = 0]
  /\ codes'   = [codes EXCEPT ![c] = <<>>]
  /\ answer'  = [answer EXCEPT ![c] = "none"]
  /\ pc'      = [pc EXCEPT ![c] = "alloc"]
  /\ UNCHANGED <<mutex, allocated, deviceVars, msg, polls>>

(* ViosndControlCommand leaves with a code or a failure, owning nothing.   *)
Leave(c, ans) ==
  /\ answer' = [answer EXCEPT ![c] = ans]
  /\ msg'    = [msg EXCEPT ![c] = NoAddr]
  /\ polls'  = [polls EXCEPT ![c] = 0]
  /\ pc'     = [pc EXCEPT ![c] = "answered"]
  /\ UNCHANGED <<posted, fetched, callVars>>

(***************************************************************************)
(* A thread calls ViosndQueryPcmStreams, ViosndConfigurePcmFormat or       *)
(* ViosndStartPcm/StopPcm/ReleasePcm.                                      *)
(***************************************************************************)
Call(c) == pc[c] = "idle" /\ \E k \in Calls : Begin(c, k)

(***************************************************************************)
(* The entry of ViosndControlCommand: a message with its two DMA buffers,  *)
(* or nothing when memory is short.                                        *)
(***************************************************************************)
AllocateMessage(c) ==
  /\ pc[c] = "alloc"
  /\ \E a \in Addrs \ allocated :
       /\ allocated' = allocated \cup {a}
       /\ msg'       = [msg EXCEPT ![c] = a]
  /\ pc' = [pc EXCEPT ![c] = "lock"]
  /\ UNCHANGED <<mutex, deviceVars, callVars, polls, answer>>

AllocationFails(c) ==
  /\ pc[c] = "alloc"
  /\ Leave(c, "INSUFFICIENT_RESOURCES")
  /\ UNCHANGED <<mutex, allocated, used, bell>>

(* Mistaken: the ring is touched without waiting for the mutex.            *)
Mut_Submit(c) ==
  /\ pc[c] = "lock"
  /\ RoomOnRing
  /\ mutex'  = c
  /\ posted' = posted \cup {msg[c]}
  /\ bell'   = TRUE
  /\ pc'     = [pc EXCEPT ![c] = "poll"]
  /\ UNCHANGED <<allocated, used, fetched, callVars, msg, polls, answer>>

(***************************************************************************)
(* ControlQueueMutex is acquired, the message is added and the device      *)
(* notified unconditionally (virtqueue_kick_always).                       *)
(***************************************************************************)
Submit(c) ==
  /\ pc[c] = "lock"
  /\ mutex = NoClient
  /\ RoomOnRing
  /\ mutex'  = c
  /\ posted' = posted \cup {msg[c]}
  /\ bell'   = TRUE
  /\ pc'     = [pc EXCEPT ![c] = "poll"]
  /\ UNCHANGED <<allocated, used, fetched, callVars, msg, polls, answer>>

(* virtqueue_add_buf fails: the mutex is released, the message freed, and  *)
(* nothing is reaped from the used ring.                                   *)
SubmitBusy(c) ==
  /\ pc[c] = "lock"
  /\ mutex = NoClient
  /\ ~RoomOnRing
  /\ allocated' = allocated \ {msg[c]}
  /\ Leave(c, "DEVICE_BUSY")
  /\ UNCHANGED <<mutex, used, bell>>

(***************************************************************************)
(* One turn of the poll loop.  get_buf gives the head of the used ring: a  *)
(* message that is not this command's timed out earlier, and is freed      *)
(* without the turn counting as elapsed time.                              *)
(***************************************************************************)
Polling(c) == pc[c] = "poll" /\ mutex = c

(* Mistaken: the stranger is dropped without being freed.                  *)
Mut_ReapStale_Leak(c) ==
  /\ Polling(c)
  /\ used # <<>>
  /\ Head(used).msg # msg[c]
  /\ used' = Tail(used)
  /\ UNCHANGED <<mutex, allocated, posted, fetched, bell, pc, callVars, msg,
                 polls, answer>>

(* Mistaken: the stranger is put back for somebody else to find.           *)
Mut_ReapStale_Requeue(c) ==
  /\ Polling(c)
  /\ used # <<>>
  /\ Head(used).msg # msg[c]
  /\ used' = Append(Tail(used), Head(used))
  /\ UNCHANGED <<mutex, allocated, posted, fetched, bell, pc, callVars, msg,
                 polls, answer>>

ReapStale(c) ==
  /\ Polling(c)
  /\ used # <<>>
  /\ Head(used).msg # msg[c]
  /\ used'      = Tail(used)
  /\ allocated' = allocated \ {Head(used).msg}
  /\ UNCHANGED <<mutex, posted, fetched, bell, pc, callVars, msg, polls, answer>>

(* Mistaken: any completion is taken for this command's own.               *)
Mut_Complete(c) ==
  /\ Polling(c)
  /\ used # <<>>
  /\ used'      = Tail(used)
  /\ allocated' = allocated \ {msg[c]}
  /\ mutex'     = NoClient
  /\ Leave(c, Head(used).code)
  /\ UNCHANGED bell

Complete(c) ==
  /\ Polling(c)
  /\ used # <<>>
  /\ Head(used).msg = msg[c]
  /\ used'      = Tail(used)
  /\ allocated' = allocated \ {msg[c]}
  /\ mutex'     = NoClient
  /\ Leave(c, Head(used).code)
  /\ UNCHANGED bell

(* Nothing on the used ring: wait 1 ms and notify again every 100 ms.      *)
Renotify(n) == IF n % RenotifyPolls = 0 THEN TRUE ELSE bell

(* Mistaken: the wait is not added to the elapsed time.                    *)
Mut_PollAgain_NoClock(c) ==
  /\ Polling(c)
  /\ used = <<>>
  /\ polls[c] + 1 < MaxPolls
  /\ bell' = Renotify(polls[c] + 1)
  /\ UNCHANGED <<mutex, allocated, posted, used, fetched, pc, callVars, msg,
                 polls, answer>>

(* Mistaken: one poll too many.                                            *)
Mut_PollAgain_OffByOne(c) ==
  /\ Polling(c)
  /\ used = <<>>
  /\ polls[c] < MaxPolls
  /\ polls' = [polls EXCEPT ![c] = @ + 1]
  /\ bell'  = Renotify(polls[c] + 1)
  /\ UNCHANGED <<mutex, allocated, posted, used, fetched, pc, callVars, msg,
                 answer>>

PollAgain(c) ==
  /\ Polling(c)
  /\ used = <<>>
  /\ polls[c] + 1 < MaxPolls
  /\ polls' = [polls EXCEPT ![c] = @ + 1]
  /\ bell'  = Renotify(polls[c] + 1)
  /\ UNCHANGED <<mutex, allocated, posted, used, fetched, pc, callVars, msg,
                 answer>>

(* Mistaken: the timed-out message is freed while still on the ring.       *)
Mut_PollTimeout(c) ==
  /\ Polling(c)
  /\ used = <<>>
  /\ polls[c] + 1 >= MaxPolls
  /\ bell'      = Renotify(polls[c] + 1)
  /\ mutex'     = NoClient
  /\ allocated' = allocated \ {msg[c]}
  /\ Leave(c, "IO_TIMEOUT")
  /\ UNCHANGED used

(* The timeout expires.  The message stays allocated and on the ring; the  *)
(* command forgets it.                                                     *)
PollTimeout(c) ==
  /\ Polling(c)
  /\ used = <<>>
  /\ polls[c] + 1 >= MaxPolls
  /\ bell'  = Renotify(polls[c] + 1)
  /\ mutex' = NoClient
  /\ Leave(c, "IO_TIMEOUT")
  /\ UNCHANGED <<allocated, used>>

(***************************************************************************)
(* What the callers of ViosndControlCommand do with its answer.            *)
(***************************************************************************)
Retriable(c) == /\ answer[c] \in Retried(cmd[c])
                /\ attempt[c] + 1 < Tries(cmd[c])

Retry(c) ==
  /\ pc[c] = "answered"
  /\ Retriable(c)
  /\ attempt' = [attempt EXCEPT ![c] = @ + 1]
  /\ answer'  = [answer EXCEPT ![c] = "none"]
  /\ pc'      = [pc EXCEPT ![c] = "alloc"]
  /\ UNCHANGED <<mutex, allocated, deviceVars, cmd, codes, msg, polls>>

(* ViosndConfigurePcmFormat goes on to PREPARE once SET_PARAMS succeeded.  *)
ParamsSet(c) == cmd[c] = "SET_PARAMS" /\ answer[c] \in Accepted(cmd[c])

Prepare(c) ==
  /\ pc[c] = "answered"
  /\ ~Retriable(c)
  /\ ParamsSet(c)
  /\ Begin(c, "PREPARE")

Return(c) ==
  /\ pc[c] = "answered"
  /\ ~Retriable(c)
  /\ ~ParamsSet(c)
  /\ pc'      = [pc EXCEPT ![c] = "idle"]
  /\ attempt' = [attempt EXCEPT ![c] = 0]
  /\ UNCHANGED <<mutex, allocated, deviceVars, cmd, codes, msg, polls, answer>>

-----------------------------------------------------------------------------
(***************************************************************************)
(* The device.  It reads a request while it is awake, answers it any time  *)
(* later, and goes idle whenever it likes, a missed notification included. *)
(***************************************************************************)
DeviceFetch(a) ==
  /\ bell
  /\ a \in posted \ fetched
  /\ fetched' = fetched \cup {a}
  /\ UNCHANGED <<mutex, allocated, posted, used, bell, pc, callVars, msg, polls,
                 answer>>

DeviceAnswer(a) ==
  /\ a \in fetched
  /\ posted'  = posted \ {a}
  /\ fetched' = fetched \ {a}
  /\ \E k \in Codes :
       /\ \A c \in Clients : msg[c] = a => k \in CodesFor(cmd[c])
       /\ used'  = Append(used, [msg |-> a, code |-> k])
       /\ codes' = [c \in Clients |-> IF msg[c] = a THEN Append(codes[c], k)
                                      ELSE codes[c]]
  /\ UNCHANGED <<mutex, allocated, bell, pc, cmd, attempt, msg, polls, answer>>

DeviceIdle ==
  /\ bell
  /\ bell' = FALSE
  /\ UNCHANGED <<mutex, allocated, posted, used, fetched, pc, callVars, msg,
                 polls, answer>>

-----------------------------------------------------------------------------
PollStep(c) == ReapStale(c) \/ Complete(c) \/ PollAgain(c) \/ PollTimeout(c)

Client(c) == \/ Call(c)
             \/ AllocateMessage(c) \/ AllocationFails(c)
             \/ Submit(c) \/ SubmitBusy(c)
             \/ PollStep(c)
             \/ Retry(c) \/ Prepare(c) \/ Return(c)

Device == \/ \E a \in Addrs : DeviceFetch(a) \/ DeviceAnswer(a)
          \/ DeviceIdle

Next == (\E c \in Clients : Client(c)) \/ Device

Spec == Init /\ [][Next]_vars

(***************************************************************************)
(* The threads run: each takes its own steps (weak fairness), and a mutex  *)
(* that keeps being released is granted, since the kernel queues waiters   *)
(* in order (strong fairness).  Nothing is assumed of the device.          *)
(***************************************************************************)
ClientFairness ==
  \A c \in Clients :
    /\ WF_vars(AllocateMessage(c) \/ AllocationFails(c))
    /\ SF_vars(Submit(c) \/ SubmitBusy(c))
    /\ WF_vars(PollStep(c))
    /\ WF_vars(Retry(c) \/ Prepare(c) \/ Return(c))

FairSpec == Spec /\ ClientFairness

(* A healthy device besides: a request that keeps coming within its reach  *)
(* is read, and one it has read is answered; threads keep calling, and     *)
(* memory is not short for ever.                                           *)
Healthy ==
  /\ \A a \in Addrs : SF_vars(DeviceFetch(a)) /\ WF_vars(DeviceAnswer(a))
  /\ \A c \in Clients : WF_vars(Call(c)) /\ SF_vars(AllocateMessage(c))

-----------------------------------------------------------------------------
(* The type invariant: every variable stays in its range; in particular    *)
(* the poll loop of ViosndControlCommand never runs past the timeout.      *)
TypeOK ==
  /\ mutex \in Clients \cup {NoClient}
  /\ allocated \subseteq Addrs
  /\ posted \subseteq Addrs
  /\ used \in Seq([msg : Addrs, code : Codes])
  /\ bell \in BOOLEAN
  /\ fetched \subseteq posted
  /\ pc \in [Clients -> {"idle", "alloc", "lock", "poll", "answered"}]
  /\ cmd \in [Clients -> Commands]
  /\ attempt \in [Clients -> Nat]
  /\ msg \in [Clients -> Addrs \cup {NoAddr}]
  /\ polls \in [Clients -> 0 .. MaxPolls - 1]
  /\ answer \in [Clients -> Codes \cup Failures \cup {"none"}]
  /\ codes \in [Clients -> Seq(Codes)]

Returned == {used[i].msg : i \in DOMAIN used}
Queued   == posted \cup Returned
Held     == {msg[c] : c \in Clients} \ {NoAddr}

(* Whatever is on the ring is live memory, and is there once: the device   *)
(* never reads or writes a freed message, and no message is freed twice.   *)
(* This is what keeping a timed-out message allocated is for (the test     *)
(* before the last free of ViosndControlCommand).                          *)
NoUseAfterFree ==
  /\ Queued \subseteq allocated
  /\ posted \cap Returned = {}
  /\ \A i, j \in DOMAIN used : used[i].msg = used[j].msg => i = j

(* No message is lost: whatever is allocated is a running command's own or *)
(* is on the ring, where a later command will find and free it.            *)
NoMessageLost == allocated \subseteq Queued \cup Held

(* A message on the ring is awaited by nobody but the holder of            *)
(* ControlQueueMutex: a command that frees a stranger's message takes it   *)
(* from nobody, and two commands never wait for the same message.          *)
OnlyHolderAwaits ==
  /\ \A c \in Clients : msg[c] \in Queued => mutex = c
  /\ \A c, d \in Clients : msg[c] = msg[d] /\ msg[c] # NoAddr => c = d

(* A call reports success only on what the device answered to its own      *)
(* message: every earlier answer was one the code retries, the last one is *)
(* accepted, and an answer other than OK is accepted only once the retries *)
(* are used up (ViosndControlStatusCommandEx, ViosndQueryPcmStreams).      *)
SuccessIsAnswered ==
  \A c \in Clients :
    (pc[c] = "idle" /\ answer[c] # "none" /\ StatusOf(cmd[c], answer[c]) = "SUCCESS")
      => LET n == Len(codes[c])
         IN  /\ n \in 1 .. Tries(cmd[c])
             /\ \A i \in 1 .. n - 1 : codes[c][i] \in Retried(cmd[c])
             /\ codes[c][n] \in Accepted(cmd[c])
             /\ codes[c][n] # "OK" => n = Tries(cmd[c])

(* The ring is wedged: full, and nobody is polling it.                     *)
Wedged == mutex = NoClient /\ ~RoomOnRing

(* Once timed-out messages fill the ring it never empties again, even if   *)
(* the device answers them all: completions are reaped only after          *)
(* virtqueue_add_buf succeeded, and on a full ring it fails.               *)
WedgeIsPermanent == [][Wedged => Wedged']_vars

(* Every call returns, whatever the device does: the waits for the mutex   *)
(* and for the answer are bounded by the polls of those ahead, and reaping *)
(* strangers, which does not count as elapsed time, ends.                  *)
CallReturns == \A c \in Clients : pc[c] # "idle" ~> pc[c] = "idle"

(* With a device that answers and threads that keep calling, a timed-out   *)
(* message does not stay on the ring, unless the ring wedged first.        *)
ReclaimedUnlessWedged ==
  Healthy => \A a \in Addrs : a \in Queued ~> (a \notin Queued \/ Wedged)
=============================================================================

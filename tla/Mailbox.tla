------------------------------ MODULE Mailbox ------------------------------
(***************************************************************************)
(* The mailbox layer, phase2/phase2.c.                                     *)
(*                                                                         *)
(* A process runs a mailbox operation as a sequence of segments.  Each     *)
(* segment ends where the code calls the process layer (blockMe or         *)
(* unblockProc), because that is where another process may be dispatched;  *)
(* pc[p] names the segment p resumes with.  The process layer itself       *)
(* (libphase1.a, a binary) is external: it is modelled by the status it    *)
(* keeps for each process and by the priority rule of its dispatcher.      *)
(***************************************************************************)
EXTENDS Integers, Sequences, FiniteSets, SequencesExt

CONSTANTS
    Procs,        \* the processes that use mailboxes
    Priority,     \* Priority[p], 1 runs before 2 (phase1.h)
    NULL,         \* a NULL pointer
    MAXMBOX, MAXSLOTS, MAX_MESSAGE,
    MAX_BLOCKED,  \* MAX_BLOCKED_PRODUCERS and MAX_BLOCKED_CONSUMERS
    Reserved,     \* mailboxes that are active after phase2_init, 6 in the code
    Tick,         \* what the clock handler sends
    Calls,        \* Calls[p], the operations p performs
    Targets,      \* the mailbox ids p passes to them
    Msgs,         \* the messages sent: records [len, ptr]
    BufSizes,     \* the msg_max_size arguments
    SlotCounts,   \* the numSlots arguments of MboxCreate
    SlotSizes,    \* the slotSize arguments of MboxCreate
    Receivers     \* the processes that never stop receiving

Mailboxes == 0..(MAXMBOX - 1)
Slots     == 0..(MAXSLOTS - 1)
NoMessage == [len |-> 0, ptr |-> NULL]
IntSize   == 4
TickMsg   == [len |-> IntSize, ptr |-> Tick]
clockMailbox == Reserved
Operations == {"create", "release", "send", "recv", "condSend", "condRecv",
               "waitDevice", "tick"}

ASSUME SizesAssumption ==
    /\ MAXMBOX \in Nat /\ MAXSLOTS \in Nat \ {0}
    /\ MAX_MESSAGE \in Nat /\ MAX_MESSAGE >= IntSize
    /\ MAX_BLOCKED \in Nat
    /\ Reserved \in Nat /\ Reserved < MAXMBOX

ASSUME ProcsAssumption ==
    /\ NULL \notin Procs
    /\ Priority \in [Procs -> Nat]
    /\ Calls \in [Procs -> SUBSET Operations]
    /\ Receivers \subseteq Procs

ASSUME InputsAssumption ==
    /\ Targets \subseteq Int
    /\ \A m \in Msgs : m = [len |-> m.len, ptr |-> m.ptr] /\ m.len \in Int
    /\ BufSizes \subseteq Int
    /\ SlotCounts \subseteq Int /\ SlotSizes \subseteq Int

VARIABLES
    isActive, numSlots, slotSize,       \* mailboxes[b]
    consumers,                          \* mailboxes[b].consumers: a pid or NULL
    hasQueue,                           \* mailboxSlotQueues[b].queue # NULL
    slotQueue,                          \* its slot indices, head first
    mailSlots,                          \* the slots shared by all mailboxes
    freeSlots,                          \* freeSlotQueue[0 .. freeSlotCount-1]
    blockedProducers, blockedConsumers, \* per mailbox, a list of pids
    status,                             \* external: ready or blocked
    pc, call,                           \* where each process is, its arguments
    result,                             \* what its last operation returned
    machine                             \* "up"; USLOSS_Halt; a fault of the C code

boxes   == <<isActive, numSlots, slotSize>>
queues  == <<hasQueue, slotQueue>>
slots   == <<mailSlots, freeSlots>>
waiting == <<consumers, blockedProducers, blockedConsumers>>
running == <<status, machine>>
control == <<pc, call, result>>
vars == <<boxes, queues, slots, waiting, running, control>>

Messages == Msgs \cup {NoMessage, TickMsg}
Segments == {"idle", "full", "empty", "zeroSend", "zeroRecv", "zeroWoke",
             "relProducers", "relConsumers", "relClear", "relFinish"}
Args(b, m, max) == [mbox |-> b, msg |-> m, max |-> max, i |-> 1]
NoCall == Args(0, NoMessage, 0)

TypeOK ==
    /\ isActive \in [Mailboxes -> BOOLEAN]
    /\ numSlots \in [Mailboxes -> 0..MAXSLOTS]
    /\ slotSize \in [Mailboxes -> 0..MAX_MESSAGE]
    /\ consumers \in [Mailboxes -> Procs \cup {NULL}]
    /\ hasQueue \in [Mailboxes -> BOOLEAN]
    /\ slotQueue \in [Mailboxes -> Seq(Slots)]
    /\ mailSlots \in [Slots -> [inUse : BOOLEAN, mailboxID : Mailboxes,
                                message : Messages]]
    /\ freeSlots \in Seq(Slots)
    /\ blockedProducers \in [Mailboxes -> Seq(Procs)]
    /\ blockedConsumers \in [Mailboxes -> Seq(Procs)]
    /\ status \in [Procs -> {"ready", "blocked"}]
    /\ pc \in [Procs -> Segments]
    /\ call \in [Procs -> [mbox : Mailboxes, msg : Messages, max : Int, i : Nat]]
    /\ result \in [Procs -> [rc : Int, msg : Messages]]
    /\ machine \in {"up", "halted", "fault"}

-----------------------------------------------------------------------------
(* phase2_init: mailboxes below Reserved are active with every field zero, *)
(* and the first MboxCreate, for the clock, takes the next one.            *)
Init ==
    /\ isActive = [b \in Mailboxes |-> b <= clockMailbox]
    /\ numSlots = [b \in Mailboxes |-> IF b = clockMailbox THEN 1 ELSE 0]
    /\ slotSize = [b \in Mailboxes |-> IF b = clockMailbox THEN IntSize ELSE 0]
    /\ consumers = [b \in Mailboxes |-> NULL]
    /\ hasQueue = [b \in Mailboxes |-> b = clockMailbox]
    /\ slotQueue = [b \in Mailboxes |-> <<>>]
    /\ mailSlots = [s \in Slots |-> [inUse |-> FALSE, mailboxID |-> 0,
                                     message |-> NoMessage]]
    /\ freeSlots = [i \in 1..MAXSLOTS |-> i - 1]
    /\ blockedProducers = [b \in Mailboxes |-> <<>>]
    /\ blockedConsumers = [b \in Mailboxes |-> <<>>]
    /\ status = [p \in Procs |-> "ready"]
    /\ pc = [p \in Procs |-> "idle"]
    /\ call = [p \in Procs |-> NoCall]
    /\ result = [p \in Procs |-> [rc |-> 0, msg |-> NoMessage]]
    /\ machine = "up"

-----------------------------------------------------------------------------
(* The process layer, external.  A process inside a mailbox operation runs *)
(* only when no other such process of a better priority is ready; a        *)
(* process that is idle here runs its own code or sleeps for some other    *)
(* reason, so it keeps nobody from running.                                *)
CanRun(p) ==
    /\ machine = "up"
    /\ status[p] = "ready"
    /\ \A q \in Procs : status[q] = "ready" /\ pc[q] # "idle"
                            => Priority[p] <= Priority[q]

(* unblockProc(q) called by p: an error for p itself, Halt when q runs. *)
Unblock(p, q) ==
    \/ q = p /\ UNCHANGED running
    \/ /\ q # p /\ status[q] = "blocked"
       /\ status' = [status EXCEPT ![q] = "ready"]
       /\ UNCHANGED machine
    \/ /\ q # p /\ status[q] = "ready"
       /\ machine' = "halted"
       /\ UNCHANGED status

(* blockMe, after which p resumes at seg with the arguments c. *)
BlockMe(p, seg, c) ==
    /\ status' = [status EXCEPT ![p] = "blocked"]
    /\ pc' = [pc EXCEPT ![p] = seg]
    /\ call' = [call EXCEPT ![p] = c]
    /\ UNCHANGED <<machine, result>>

Return(p, rc, m) ==
    /\ pc' = [pc EXCEPT ![p] = "idle"]
    /\ call' = [call EXCEPT ![p] = NoCall]
    /\ result' = [result EXCEPT ![p] = [rc |-> rc, msg |-> m]]

(* A return that changed nothing but the caller's result. *)
Fail(p, rc) ==
    /\ Return(p, rc, NoMessage)
    /\ UNCHANGED <<boxes, queues, slots, waiting, running>>

Enter(p, op) == CanRun(p) /\ pc[p] = "idle" /\ op \in Calls[p]

Valid(b) == b \in Mailboxes /\ isActive[b]
SendValid(b, m) ==
    /\ Valid(b)
    /\ m.len >= 0 /\ m.len <= slotSize[b]
    /\ m.len > 0 => m.ptr # NULL
RecvValid(b, max) == Valid(b) /\ max >= 0

(* Faulty: the array is taken for full one entry early. *)
ListBlockedEarly(list, p) ==
    IF Len(list) + 1 < MAX_BLOCKED THEN Append(list, p) ELSE list

(* List p as blocked unless the fixed-size array is full. *)
ListBlocked(list, p) == IF Len(list) < MAX_BLOCKED THEN Append(list, p) ELSE list

-----------------------------------------------------------------------------
(* Faulty: a process that waits alone is not woken; the woken process      *)
(* stays on the list.                                                      *)
wakeupConsumerOfMany(p, b) ==
    \/ Len(blockedConsumers[b]) <= 1 /\ UNCHANGED <<blockedConsumers, running>>
    \/ /\ Len(blockedConsumers[b]) > 1
       /\ blockedConsumers' = [blockedConsumers EXCEPT ![b] = Tail(@)]
       /\ Unblock(p, Head(blockedConsumers[b]))

wakeupProducerOfMany(p, b) ==
    \/ Len(blockedProducers[b]) <= 1 /\ UNCHANGED <<blockedProducers, running>>
    \/ /\ Len(blockedProducers[b]) > 1
       /\ blockedProducers' = [blockedProducers EXCEPT ![b] = Tail(@)]
       /\ Unblock(p, Head(blockedProducers[b]))

wakeupProducerKeeps(p, b) ==
    \/ blockedProducers[b] = <<>> /\ UNCHANGED <<blockedProducers, running>>
    \/ /\ blockedProducers[b] # <<>>
       /\ Unblock(p, Head(blockedProducers[b]))
       /\ UNCHANGED blockedProducers

(* wakeupConsumer and wakeupProducer, called by p as its last step. *)
wakeupConsumer(p, b) ==
    \/ blockedConsumers[b] = <<>> /\ UNCHANGED <<blockedConsumers, running>>
    \/ /\ blockedConsumers[b] # <<>>
       /\ blockedConsumers' = [blockedConsumers EXCEPT ![b] = Tail(@)]
       /\ Unblock(p, Head(blockedConsumers[b]))

wakeupProducer(p, b) ==
    \/ blockedProducers[b] = <<>> /\ UNCHANGED <<blockedProducers, running>>
    \/ /\ blockedProducers[b] # <<>>
       /\ blockedProducers' = [blockedProducers EXCEPT ![b] = Tail(@)]
       /\ Unblock(p, Head(blockedProducers[b]))

(* Faulty: one message too many. *)
FullOffByOne(b) == Len(slotQueue[b]) > numSlots[b]

(* The second half of MboxSend and MboxCondSend.  Taking a slot with       *)
(* freeSlotCount = 0, or storing in a queue that is NULL or has capacity   *)
(* zero, is undefined in C: the model stops in "fault".                    *)
Full(b) == Len(slotQueue[b]) >= numSlots[b]

CannotStore(b) == freeSlots = <<>> \/ ~hasQueue[b] \/ numSlots[b] = 0

Deposit(p, b, m) ==
    \/ /\ CannotStore(b)
       /\ machine' = "fault"
       /\ UNCHANGED <<boxes, queues, slots, waiting, status, control>>
    \/ /\ ~CannotStore(b)
       /\ freeSlots' = Front(freeSlots)
       /\ mailSlots' = [mailSlots EXCEPT ![Last(freeSlots)] =
                          [inUse |-> TRUE, mailboxID |-> b, message |-> m]]
       /\ slotQueue' = [slotQueue EXCEPT ![b] = Append(@, Last(freeSlots))]
       /\ IF consumers[b] # NULL
            THEN wakeupConsumer(p, b)
            ELSE UNCHANGED <<blockedConsumers, running>>
       /\ Return(p, 0, NoMessage)
       /\ UNCHANGED <<boxes, hasQueue, consumers, blockedProducers>>

(* The second half of MboxRecv and MboxCondRecv.  A buffer too small for   *)
(* the message loses it: the slot leaves the queue and is not freed.       *)
Take(p, b, max) ==
    LET s == Head(slotQueue[b])
        m == mailSlots[s].message
    IN  /\ slotQueue' = [slotQueue EXCEPT ![b] = Tail(@)]
        /\ \/ /\ max < m.len
              /\ Return(p, -1, NoMessage)
              /\ UNCHANGED <<slots, blockedProducers, running>>
           \/ /\ max >= m.len
              /\ mailSlots' = [mailSlots EXCEPT ![s].inUse = FALSE]
              /\ freeSlots' = Append(freeSlots, s)
              /\ wakeupProducer(p, b)
              /\ Return(p, m.len, m)
        /\ UNCHANGED <<boxes, hasQueue, blockedConsumers>>

-----------------------------------------------------------------------------
(* MboxCreate takes the lowest inactive id. It resets neither the waiting  *)
(* lists nor their counts.                                                 *)
Inactive == {b \in Mailboxes : ~isActive[b]}
Lowest == CHOOSE b \in Inactive : \A c \in Inactive : b <= c

(* Faulty: the number of slots has no upper bound. *)
CreateValidUnbounded(n, size) == n >= 0 /\ size \in 0..MAX_MESSAGE
CreateValid(n, size) == n \in 0..MAXSLOTS /\ size \in 0..MAX_MESSAGE

(* Faulty: the queue of the mailbox that had the id before is kept. *)
MboxCreateKeepsQueue(p, n, size) ==
    /\ Enter(p, "create")
    /\ CreateValid(n, size) /\ Inactive # {}
    /\ isActive' = [isActive EXCEPT ![Lowest] = TRUE]
    /\ numSlots' = [numSlots EXCEPT ![Lowest] = n]
    /\ slotSize' = [slotSize EXCEPT ![Lowest] = size]
    /\ consumers' = [consumers EXCEPT ![Lowest] = NULL]
    /\ hasQueue' = [hasQueue EXCEPT ![Lowest] = TRUE]
    /\ Return(p, Lowest, NoMessage)
    /\ UNCHANGED <<slotQueue, slots, blockedProducers, blockedConsumers, running>>

MboxCreate(p, n, size) ==
    /\ Enter(p, "create")
    /\ \/ ~(CreateValid(n, size) /\ Inactive # {}) /\ Fail(p, -1)
       \/ /\ CreateValid(n, size) /\ Inactive # {}
          /\ isActive' = [isActive EXCEPT ![Lowest] = TRUE]
          /\ numSlots' = [numSlots EXCEPT ![Lowest] = n]
          /\ slotSize' = [slotSize EXCEPT ![Lowest] = size]
          /\ consumers' = [consumers EXCEPT ![Lowest] = NULL]
          /\ hasQueue' = [hasQueue EXCEPT ![Lowest] = TRUE]
          /\ slotQueue' = [slotQueue EXCEPT ![Lowest] = <<>>]
          /\ Return(p, Lowest, NoMessage)
          /\ UNCHANGED <<slots, blockedProducers, blockedConsumers, running>>

-----------------------------------------------------------------------------
(* MboxRelease: the mailbox becomes inactive first; then one segment for   *)
(* each unblockProc of the two loops, whose bounds are read afresh each    *)
(* time round; the queue is freed last.                                    *)
MboxRelease(p, b) ==
    /\ Enter(p, "release")
    /\ \/ ~Valid(b) /\ Fail(p, -1)
       \/ /\ Valid(b)
          /\ isActive' = [isActive EXCEPT ![b] = FALSE]
          /\ pc' = [pc EXCEPT ![p] = "relProducers"]
          /\ call' = [call EXCEPT ![p] = Args(b, NoMessage, 0)]
          /\ UNCHANGED <<numSlots, slotSize, queues, slots, waiting, running, result>>

(* One time round a loop of MboxRelease that unblocks the listed pids. *)
UnblockNext(p, list) ==
    /\ call[p].i <= Len(list)
    /\ Unblock(p, list[call[p].i])
    /\ call' = [call EXCEPT ![p].i = @ + 1]
    /\ UNCHANGED <<boxes, queues, slots, waiting, pc, result>>

GoTo(p, seg) ==
    /\ pc' = [pc EXCEPT ![p] = seg]
    /\ call' = [call EXCEPT ![p].i = 1]
    /\ UNCHANGED <<boxes, queues, slots, running, result>>

(* Faulty: the last producer of the list is forgotten. *)
ReleaseProducersShort(p) ==
    LET b == call[p].mbox IN
    /\ CanRun(p) /\ pc[p] = "relProducers"
    /\ \/ call[p].i < Len(blockedProducers[b]) /\ UnblockNext(p, blockedProducers[b])
       \/ /\ call[p].i >= Len(blockedProducers[b])
          /\ blockedProducers' = [blockedProducers EXCEPT ![b] = <<>>]
          /\ GoTo(p, "relConsumers")
          /\ UNCHANGED <<consumers, blockedConsumers>>

ReleaseProducers(p) ==
    LET b == call[p].mbox IN
    /\ CanRun(p) /\ pc[p] = "relProducers"
    /\ \/ UnblockNext(p, blockedProducers[b])
       \/ /\ call[p].i > Len(blockedProducers[b])
          /\ blockedProducers' = [blockedProducers EXCEPT ![b] = <<>>]
          /\ GoTo(p, "relConsumers")
          /\ UNCHANGED <<consumers, blockedConsumers>>

(* A mailbox without slots wakes every listed receiver; one with slots     *)
(* wakes the process its consumers field points at.  numSlots is read      *)
(* before the loop only: a process that has woken one receiver goes on,    *)
(* whatever mailbox takes the id meanwhile.                                *)
InLoop(p, b) == numSlots[b] = 0 \/ call[p].i > 1

ReleaseConsumers(p) ==
    LET b == call[p].mbox IN
    /\ CanRun(p) /\ pc[p] = "relConsumers"
    /\ \/ InLoop(p, b) /\ UnblockNext(p, blockedConsumers[b])
       \/ /\ InLoop(p, b) /\ call[p].i > Len(blockedConsumers[b])
          /\ blockedConsumers' = [blockedConsumers EXCEPT ![b] = <<>>]
          /\ GoTo(p, "relFinish")
          /\ UNCHANGED <<consumers, blockedProducers>>
       \/ /\ ~InLoop(p, b) /\ consumers[b] # NULL
          /\ Unblock(p, consumers[b])
          /\ pc' = [pc EXCEPT ![p] = "relClear"]
          /\ UNCHANGED <<boxes, queues, slots, waiting, call, result>>
       \/ /\ ~InLoop(p, b) /\ consumers[b] = NULL
          /\ GoTo(p, "relFinish")
          /\ UNCHANGED waiting

ReleaseClear(p) ==
    /\ CanRun(p) /\ pc[p] = "relClear"
    /\ consumers' = [consumers EXCEPT ![call[p].mbox] = NULL]
    /\ GoTo(p, "relFinish")
    /\ UNCHANGED <<blockedProducers, blockedConsumers>>

ReleaseFinish(p) ==
    LET b == call[p].mbox IN
    /\ CanRun(p) /\ pc[p] = "relFinish"
    /\ hasQueue' = [hasQueue EXCEPT ![b] = FALSE]
    /\ slotQueue' = [slotQueue EXCEPT ![b] = <<>>]
    /\ Return(p, 0, NoMessage)
    /\ UNCHANGED <<boxes, slots, waiting, running>>

-----------------------------------------------------------------------------
(* MboxSend on a mailbox without slots.  No byte is copied.  The consumers *)
(* field is cleared only after unblockProc returns.                        *)
ZeroSend(p, b) ==
    \/ /\ consumers[b] # NULL
       /\ Unblock(p, consumers[b])
       /\ pc' = [pc EXCEPT ![p] = "zeroWoke"]
       /\ call' = [call EXCEPT ![p] = Args(b, NoMessage, 0)]
       /\ UNCHANGED <<boxes, queues, slots, waiting, result>>
    \/ /\ consumers[b] = NULL
       /\ blockedProducers' = [blockedProducers EXCEPT ![b] = ListBlocked(@, p)]
       /\ BlockMe(p, "zeroSend", Args(b, NoMessage, 0))
       /\ UNCHANGED <<boxes, queues, slots, consumers, blockedConsumers>>

ZeroSendWoke(p) ==
    /\ CanRun(p) /\ pc[p] = "zeroWoke"
    /\ consumers' = [consumers EXCEPT ![call[p].mbox] = NULL]
    /\ Return(p, 0, NoMessage)
    /\ UNCHANGED <<boxes, queues, slots, blockedProducers, blockedConsumers, running>>

(* Either side of a rendezvous, woken from its blockMe. *)
ZeroResume(p) ==
    /\ CanRun(p) /\ pc[p] \in {"zeroSend", "zeroRecv"}
    /\ Fail(p, IF isActive[call[p].mbox] THEN 0 ELSE -1)

(* MboxSend on a mailbox with slots: one time round the while loop.        *)
WaitForSpace(p, b, m) ==
    /\ blockedProducers' =
         [blockedProducers EXCEPT ![b] =
            IF Contains(@, p) THEN @ ELSE ListBlocked(@, p)]
    /\ BlockMe(p, "full", Args(b, m, 0))
    /\ UNCHANGED <<boxes, queues, slots, consumers, blockedConsumers>>

Send(p, b, m) ==
    \/ ~SendValid(b, m) /\ Fail(p, -1)
    \/ SendValid(b, m) /\ numSlots[b] = 0 /\ ZeroSend(p, b)
    \/ SendValid(b, m) /\ numSlots[b] # 0 /\ freeSlots = <<>> /\ Fail(p, -2)
    \/ /\ SendValid(b, m) /\ numSlots[b] # 0 /\ freeSlots # <<>>
       /\ IF Full(b) THEN WaitForSpace(p, b, m) ELSE Deposit(p, b, m)

MboxSend(p, b, m) == Enter(p, "send") /\ Send(p, b, m)

(* Faulty: if instead of while, the woken sender does not look again. *)
SendResumeOnce(p) ==
    /\ CanRun(p) /\ pc[p] = "full"
    /\ \/ ~isActive[call[p].mbox] /\ Fail(p, -1)
       \/ isActive[call[p].mbox] /\ Deposit(p, call[p].mbox, call[p].msg)

(* A sender woken from the while loop: an inactive mailbox is an error; a  *)
(* mailbox created anew without slots leaves the loop.                     *)
SendResume(p) ==
    LET b == call[p].mbox
        m == call[p].msg
    IN  /\ CanRun(p) /\ pc[p] = "full"
        /\ \/ ~isActive[b] /\ Fail(p, -1)
           \/ isActive[b] /\ Full(b) /\ numSlots[b] > 0 /\ WaitForSpace(p, b, m)
           \/ isActive[b] /\ ~(Full(b) /\ numSlots[b] > 0) /\ Deposit(p, b, m)

MboxCondSend(p, b, m) ==
    /\ Enter(p, "condSend")
    /\ \/ ~SendValid(b, m) /\ Fail(p, -1)
       \/ SendValid(b, m) /\ (freeSlots = <<>> \/ Full(b)) /\ Fail(p, -2)
       \/ SendValid(b, m) /\ ~(freeSlots = <<>> \/ Full(b)) /\ Deposit(p, b, m)

-----------------------------------------------------------------------------
(* MboxRecv. *)
ZeroRecv(p, b) ==
    \/ /\ blockedProducers[b] # <<>>
       /\ wakeupProducer(p, b)
       /\ Return(p, 0, NoMessage)
       /\ UNCHANGED <<boxes, queues, slots, consumers, blockedConsumers>>
    \/ /\ blockedProducers[b] = <<>>
       /\ blockedConsumers' = [blockedConsumers EXCEPT ![b] = ListBlocked(@, p)]
       /\ consumers' = [consumers EXCEPT ![b] = p]
       /\ BlockMe(p, "zeroRecv", Args(b, NoMessage, 0))
       /\ UNCHANGED <<boxes, queues, slots, blockedProducers>>

WaitForMessage(p, b, max) ==
    /\ blockedConsumers' = [blockedConsumers EXCEPT ![b] = ListBlocked(@, p)]
    /\ consumers' = [consumers EXCEPT ![b] = p]
    /\ BlockMe(p, "empty", Args(b, NoMessage, max))
    /\ UNCHANGED <<boxes, queues, slots, blockedProducers>>

Recv(p, b, max) ==
    \/ ~RecvValid(b, max) /\ Fail(p, -1)
    \/ RecvValid(b, max) /\ numSlots[b] = 0 /\ ZeroRecv(p, b)
    \/ /\ RecvValid(b, max) /\ numSlots[b] # 0
       /\ \/ slotQueue[b] = <<>> /\ WaitForMessage(p, b, max)
          \/ slotQueue[b] # <<>> /\ Take(p, b, max) /\ UNCHANGED consumers

MboxRecv(p, b, max) == Enter(p, "recv") /\ Recv(p, b, max)

(* Faulty: the woken receiver does not ask whether the mailbox is gone. *)
RecvResumeUnchecked(p) ==
    LET b == call[p].mbox IN
    /\ CanRun(p) /\ pc[p] = "empty"
    /\ consumers' = [consumers EXCEPT ![b] = NULL]
    /\ \/ /\ slotQueue[b] = <<>>
          /\ Return(p, -1, NoMessage)
          /\ UNCHANGED <<boxes, queues, slots, blockedProducers, blockedConsumers, running>>
       \/ slotQueue[b] # <<>> /\ Take(p, b, call[p].max)

(* A woken receiver clears consumers, whoever it points at, and looks at   *)
(* the count once.                                                         *)
RecvResume(p) ==
    LET b == call[p].mbox IN
    /\ CanRun(p) /\ pc[p] = "empty"
    /\ \/ ~isActive[b] /\ Fail(p, -1)
       \/ /\ isActive[b]
          /\ consumers' = [consumers EXCEPT ![b] = NULL]
          /\ \/ /\ slotQueue[b] = <<>>
                /\ Return(p, -1, NoMessage)
                /\ UNCHANGED <<boxes, queues, slots, blockedProducers,
                               blockedConsumers, running>>
             \/ slotQueue[b] # <<>> /\ Take(p, b, call[p].max)

MboxCondRecv(p, b, max) ==
    /\ Enter(p, "condRecv")
    /\ \/ ~RecvValid(b, max) /\ Fail(p, -1)
       \/ RecvValid(b, max) /\ slotQueue[b] = <<>> /\ Fail(p, -2)
       \/ RecvValid(b, max) /\ slotQueue[b] # <<>> /\ Take(p, b, max)
          /\ UNCHANGED consumers

-----------------------------------------------------------------------------
(* waitDevice for the clock, and clock_interrupt_handler, which runs in    *)
(* the context of whatever process p it interrupts, the driver that waits  *)
(* for the clock included: Send may put p to sleep.                        *)
waitDevice(p) == Enter(p, "waitDevice") /\ Recv(p, clockMailbox, IntSize)

clock_interrupt_handler(p) == Enter(p, "tick") /\ Send(p, clockMailbox, TickMsg)

-----------------------------------------------------------------------------
Resume(p) ==
    \/ SendResume(p) \/ RecvResume(p) \/ ZeroResume(p) \/ ZeroSendWoke(p)
    \/ ReleaseProducers(p) \/ ReleaseConsumers(p) \/ ReleaseClear(p) \/ ReleaseFinish(p)

Invoke(p) ==
    \/ \E n \in SlotCounts, size \in SlotSizes : MboxCreate(p, n, size)
    \/ \E b \in Targets : MboxRelease(p, b)
    \/ \E b \in Targets, m \in Msgs : MboxSend(p, b, m) \/ MboxCondSend(p, b, m)
    \/ \E b \in Targets, max \in BufSizes : MboxRecv(p, b, max) \/ MboxCondRecv(p, b, max)
    \/ waitDevice(p)
    \/ clock_interrupt_handler(p)

Next == \E p \in Procs : Invoke(p) \/ Resume(p)

Spec == Init /\ [][Next]_vars

-----------------------------------------------------------------------------
(* Properties. *)

Injective(seq) == \A i, j \in 1..Len(seq) : seq[i] = seq[j] => i = j

(* The free-slot stack never holds a slot twice, nor one that is in use.   *)
(* Violated by a double free of freeSlotQueue.                             *)
FreeSlotsDistinct ==
    /\ Injective(freeSlots)
    /\ \A i \in 1..Len(freeSlots) : ~mailSlots[freeSlots[i]].inUse

(* Every slot queued at a mailbox is in use, belongs to that mailbox and   *)
(* is queued once: no two mailboxes, and no two places of one queue, share *)
(* the buffer of a slot.                                                   *)
QueuedSlotsOwned ==
    \A b \in Mailboxes :
        /\ Injective(slotQueue[b])
        /\ \A i \in 1..Len(slotQueue[b]) :
             /\ mailSlots[slotQueue[b][i]].inUse
             /\ mailSlots[slotQueue[b][i]].mailboxID = b

(* No mailbox holds more messages than it was created for, whoever was     *)
(* woken, preempted or overtaken between its check of sq->count and its    *)
(* store, and whatever mailbox took the id in between.                     *)
SlotCapacity == \A b \in Mailboxes : isActive[b] => Len(slotQueue[b]) <= numSlots[b]

SlotIntegrity == FreeSlotsDistinct /\ QueuedSlotsOwned /\ SlotCapacity

Asleep(p, seg) == status[p] = "blocked" /\ pc[p] = seg
WokenSenders(b) == {p \in Procs : pc[p] = "full" /\ status[p] = "ready" /\ call[p].mbox = b}
WokenReceivers(b) == {p \in Procs : pc[p] = "empty" /\ status[p] = "ready" /\ call[p].mbox = b}

(* A sender sleeps on a mailbox only while every slot that is free there   *)
(* is spoken for by a sender already woken: no wake-up of a producer is    *)
(* lost, in whatever order senders, receivers and preemptions come.        *)
NoStrandedProducer ==
    machine = "up" =>
        \A b \in Mailboxes : isActive[b] /\ blockedProducers[b] # <<>> =>
            numSlots[b] - Len(slotQueue[b]) <= Cardinality(WokenSenders(b))

(* The same for receivers: one sleeps only while every queued message is   *)
(* spoken for by a receiver already woken.                                 *)
NoStrandedConsumer ==
    machine = "up" =>
        \A b \in Mailboxes : isActive[b] /\ blockedConsumers[b] # <<>> =>
            Len(slotQueue[b]) <= Cardinality(WokenReceivers(b))

(* On mailboxes with slots that nobody releases, the waiting lists hold    *)
(* exactly the processes asleep in blockMe, each once: nobody sleeps       *)
(* unlisted, which no send or receive could wake, and nobody is listed     *)
(* while it runs, which unblockProc answers by halting the machine.        *)
ListedIffAsleep ==
    /\ \A b \in Mailboxes : Injective(blockedProducers[b]) /\ Injective(blockedConsumers[b])
    /\ \A p \in Procs, b \in Mailboxes :
         /\ Contains(blockedProducers[b], p) <=> Asleep(p, "full") /\ call[p].mbox = b
         /\ Contains(blockedConsumers[b], p) <=> Asleep(p, "empty") /\ call[p].mbox = b

(* The machine neither halts in unblockProc nor meets undefined behaviour. *)
NeverStops == machine = "up"

(* MboxRelease leaves nobody asleep: when it has returned, no process      *)
(* sleeps on a mailbox that is inactive.                                   *)
Releasing(b) == \E p \in Procs : call[p].mbox = b
    /\ pc[p] \in {"relProducers", "relConsumers", "relClear", "relFinish"}
ReleaseWakesAll ==
    \A p \in Procs : status[p] = "blocked" /\ machine = "up" =>
        isActive[call[p].mbox] \/ Releasing(call[p].mbox)

-----------------------------------------------------------------------------
(* The messages in each mailbox, as bounded channels. *)
Chan == INSTANCE Channels WITH
          Boxes <- Mailboxes,
          open <- isActive,
          cap <- numSlots,
          chan <- [b \in Mailboxes |->
                     IF isActive[b]
                       THEN [i \in 1..Len(slotQueue[b]) |-> mailSlots[slotQueue[b][i]].message]
                       ELSE <<>>]

(* Every step of the mailbox layer is a step of bounded FIFO channels or   *)
(* leaves them as they are: no message is duplicated, reordered,           *)
(* overwritten while it is queued or delivered from a mailbox it was not   *)
(* sent to, though all mailboxes draw their slots from one pool.           *)
ImplementsChannels == Chan!Spec

-----------------------------------------------------------------------------
(* Processes of one priority share the processor by time slices, so each   *)
(* ready process of a system with a single priority runs again and again.  *)
(* Receivers name the processes that keep receiving.                       *)
Receive(p) ==
    \/ \E b \in Targets, max \in BufSizes : MboxRecv(p, b, max) \/ MboxCondRecv(p, b, max)
    \/ waitDevice(p)

Fairness ==
    /\ \A p \in Procs : WF_vars(Resume(p))
    /\ \A p \in Receivers : WF_vars(Receive(p))

FairSpec == Spec /\ Fairness

(* p has found the clock's mailbox full and has not got its tick in yet:   *)
(* it sleeps in the clock handler, or others overtake it when it is woken. *)
KeptByClock(p) == pc[p] = "full" /\ call[p].mbox = clockMailbox

(* The clock keeps a receiver from its work, for ever or again and again.  *)
(* The driver is kept for ever by a tick that interrupts it with another   *)
(* tick queued: it sleeps as a sender on the mailbox that it alone         *)
(* empties, and nothing wakes it.                                          *)
ReceiverKept == \E p \in Receivers : []<>KeptByClock(p)

(* No message stays in its mailbox for ever, unless the clock keeps a      *)
(* receiver.                                                               *)
MessageConsumed ==
    \A b \in Mailboxes, s \in Slots :
        []<>~Contains(slotQueue[b], s) \/ ReceiverKept

(* No sender, nor a process that a tick made one, sleeps for ever at a     *)
(* full mailbox, with the same exception: whoever sleeps is woken, though  *)
(* others may overtake it and put it to sleep again.                       *)
SenderWoken == \A p \in Procs : []<>~Asleep(p, "full") \/ ReceiverKept

-----------------------------------------------------------------------------
(* Statements of the comments in phase2.c and phase2def.h that the code    *)
(* does not keep.                                                          *)

(* unblockProc is never called for a process that is not asleep, and the   *)
(* C code never does what is undefined.                                    *)
NoHalt  == machine # "halted"
NoFault == machine # "fault"

(* A slot that is in use holds a message of some mailbox's queue. *)
InUseIsQueued ==
    \A s \in Slots : mailSlots[s].inUse =>
        \E b \in Mailboxes : Contains(slotQueue[b], s)

(* On a mailbox without slots a sender and a receiver never both sleep,    *)
(* each waiting for the other.                                             *)
RendezvousMeets ==
    machine = "up" =>
        ~\E p, q \in Procs : /\ Asleep(p, "zeroSend") /\ Asleep(q, "zeroRecv")
                             /\ call[p].mbox = call[q].mbox

(* The driver that waits for the clock is not put to sleep by its tick,    *)
(* and a sender that others may overtake returns nevertheless.             *)
DriverNeverKept == \A p \in Procs : "waitDevice" \in Calls[p] => ~KeptByClock(p)
SenderReturns == \A p \in Procs : pc[p] = "full" ~> pc[p] = "idle" \/ ReceiverKept

=============================================================================

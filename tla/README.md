# Verification of the USLOSS operating system phases

The repository holds one operating system written in phases on the USLOSS
machine simulator: a process layer, a mailbox layer over it, semaphores and
user processes over that, and drivers for the clock and the terminals on top.
This directory models it in TLA+, checks the models with TLC on small
instances and proves the most important invariants with TLAPS for instances of
every size.

## 1. The system

| Part | Source | State it keeps | Operations |
|---|---|---|---|
| Process layer | `phase1b-archive/phase1b.c` | `process_table` (pid, priority, status, parent, child list, `zap_target`), six ready queues threaded through the entries, `running_process`, `next_pid` | `spork`, `join`, `quit`, `zap`, `blockMe`, `unblockProc`, `dispatcher`, `init_run` |
| Older process layer | `phase1a-archive/phase1a.c` | the same table without queues | `spork`, `join`, `quit_phase_1a`, `TEMP_switchTo` |
| Mailboxes | `phase2/phase2.c` | `mailboxes`, one slot queue per mailbox, `mailSlots`, the stack `freeSlotQueue`, two lists of waiting pids per mailbox | `MboxCreate`, `MboxRelease`, `MboxSend`, `MboxRecv`, `MboxCondSend`, `MboxCondRecv`, `waitDevice`, the clock, terminal and system call handlers |
| Semaphores | `phase3/phase3.c` | `sems[200]`: value, blocked, in_use, a zero-slot mailbox | `sys_semcreate/p/v`, `kernSemCreate/P/V` |
| User processes | `phase3/phase3.c` | none of its own, the wrapper a new process starts with | `sys_spawn`, `sys_wait`, `sys_terminate`, `trampoline` |
| Wrappers | `phase3_usermode.c`, `phase4_usermode.c` | none | check the processor mode, pack and unpack `USLOSS_Sysargs` |
| Sleep | `phase4a/phase4a.c` | `tickCount`, the request mailbox `clockMbox` | `sys_sleep`, `ClockDriver` |
| Terminals | `phase4a/phase4a.c` | per unit a line under construction, a mailbox of ten lines, a mutex mailbox | `TermDriver`, `sys_term_read`, `sys_term_write` |
| Test programs | `phase2/testcases`, `phase3/testcases`, `phase4a/testcases` | their own | 47, 23 and 13 programs with recorded outputs; a harness starts each and, in phase 4a, a process that halts the machine when its time is up |

`phase2/donk.c` is a draft that is commented out as a whole. Each phase is
linked with the instructors' binary of the phases below (`libphase1.a`,
`libphase2.a`, `libphase3.a`), not with the sources of this repository: phase 2
runs over `libphase1.a`, phase 3 over that and `libphase2.a`. What a phase calls
in a binary is external: it is modelled from how the source uses it.

How the parts meet:

- Everything that sleeps does so through `blockMe` and is woken by
  `unblockProc(pid)`, which may switch to the woken process before it returns,
  and which halts the machine if that process is not asleep. A call of either is
  where another process may run.
- Interrupts are not disabled in phase 2. The clock handler runs in the context
  of whatever process it interrupts and calls `MboxSend`, which may put that
  process to sleep.
- System calls of phase 3 run with interrupts off, so `sys_semp` and `sys_semv`
  run as one step up to the mailbox they may sleep on. Callers of `kernSem*` run
  with interrupts on.
- `ClockDriver` and the four `TermDriver` processes run at priority 2, above most
  user processes. Requests to sleep reach the clock driver through a mailbox;
  `unblockProc` wakes the sleeper. A terminal driver and a writer of the same
  terminal both wait in `waitDevice` for its interrupts.
- `join` gives nobody the processor between its scan of the children and its sleep,
  nor `sys_sleep` between its request and its sleep (both run with interrupts off):
  each is one step.
- The ready queues of phase 1b keep a process that sleeps: `blockMe` changes its
  status only.

What is hard here: checks made before a sleep and relied on after it; wake-ups
that go to a process that has been woken already, or to nobody; ids that are
released and created again while a sleeper still holds them; one pool of slots
under all mailboxes; ready queues that hold sleepers; entries of the process
table that are used again. `PROJECT.json` lists each hazard at its line.

What makes each part correct:

- Mailboxes: a slot is in one place at a time; no wake-up is lost; a listed
  process is asleep and an unlisted one is not; messages are neither lost,
  duplicated nor reordered; release wakes everyone.
- Process layer: the process tree is a tree, `join` misses no quit, the ready
  queues are lists, and there is always somebody to run.
- Semaphores: a counting semaphore, first come first served, and V never sleeps.
- User processes: a process terminates after its whole family, and a parent learns
  of each child and its status once.
- Sleep: every sleeper has one request on its way; nobody is woken early, or
  twice, and the time anybody oversleeps is bounded.
- Terminals: one writer at a time, the mutex is handed on, a typed character is
  read at most once, and a line fits its buffer.
- Test programs: every call gives what the program expects, and every program
  comes to its end.

## 2. Modules

| Module | Models |
|---|---|
| `Mailbox` | the mailbox layer of `phase2.c`, with its properties |
| `Channels` | its abstract specification: bounded FIFO channels |
| `MailboxMC` | values of its constants for TLC |
| `MailboxProofs` | theorems about the layer, whoever calls what |
| `MailboxClientProofs` | theorems about it for clients that keep to a discipline |
| `MailboxChannelProofs` | that it implements `Channels`, and that release leaves nobody asleep |
| `Kernel`, `KernelMC` | the process layer of `phase1b.c` |
| `KernelProofs` | its theorems |
| `Semaphore` | both sets of semaphore operations of `phase3.c` |
| `CountingSemaphore` | their abstract specification |
| `SemaphoreMC`, `SemaphoreProofs` | constants and theorems |
| `Programs` | what a test program is, and an abstract process layer to run it |
| `MailboxPrograms` | `Programs` over `Mailbox`: calls of phase 2, with the system call table and all of `waitDevice` |
| `MailboxTests`, `MailboxTestsMC` | the programs of `phase2/testcases`, and constants |
| `ClockDriver` | `sys_sleep` and `ClockDriver` of `phase4a.c` |
| `ClockDriverProofs` | its theorems |
| `Terminals` | `TermDriver`, `sys_term_read` and `sys_term_write` |
| `TerminalProofs` | its theorems |
| `UserPrograms` | `Programs` over `Semaphore`, `ClockDriver` and `Terminals`, with spawn, wait, terminate and the wrappers |
| `UserProofs` | theorems about any programs on it |
| `Phase3Tests`, `Phase4aTests` | the programs of those phases |
| `UserTestsMC` | a few programs more, free callers of Sleep and of the terminals, and constants |

Definitions whose comment begins with "Faulty" are variants with a plausible
bug, placed before the definition they stand in for; `PROJECT.json` says which
property each of them breaks. No specification uses them.

### Mailbox

A process is `idle` or inside an operation. An operation is cut where the code
calls `blockMe` or `unblockProc`; `pc[p]` names the segment that follows and
`call[p]` holds the arguments it still needs.

| State | Code |
|---|---|
| `isActive`, `numSlots`, `slotSize`, `consumers` | the fields of `mailboxes[b]` |
| `hasQueue`, `slotQueue` | `mailboxSlotQueues[b]`; the ring buffer is the sequence it stands for, `hasQueue` is `queue != NULL` |
| `mailSlots`, `freeSlots` | `mailSlots`, the stack `freeSlotQueue[0..freeSlotCount-1]` |
| `blockedProducers`, `blockedConsumers` | the arrays of pids, at most `MAX_BLOCKED` long |
| `status`, `CanRun`, `Unblock`, `BlockMe` | external, `libphase1.a` |
| `machine` | `up`, `halted` by `unblockProc`, or `fault` where C is undefined: `freeSlotQueue[-1]`, a store through a NULL queue or into one of capacity zero |

| Segment | Follows |
|---|---|
| `full` | the sleep of a sender on a full mailbox (`SendResume`, which may sleep again) |
| `empty` | the sleep of a receiver (`RecvResume`) |
| `zeroSend`, `zeroRecv` | the sleeps on a zero-slot mailbox (`ZeroResume`) |
| `zeroWoke` | the `unblockProc` of a zero-slot send, after which `consumers` is cleared |
| `relProducers` ... `relFinish` | the calls of `unblockProc` in `MboxRelease`, one segment for each |

Abstractions: a payload is a model value with a length; a pid is the process
itself, so `shadowProcesses[pid % MAXPROC]` never collides; an operation is
atomic between its calls of the process layer, so the handler that interrupts in
the middle of `freeSlotQueue` updates is not modelled. The terminal and
invalid-device branches of `waitDevice` and the system call table, which touch no
mailbox, are in `MailboxPrograms`; the terminal handler only calls the dispatcher.

### Kernel

A process is the index of its table entry and an operation runs until it returns
or switches. `ready_queues` and `next` are kept as the pointers they are, because
a process can be linked twice and a walk along `next` then never ends (machine
`hung`). Child lists are sequences. `status` has the code's values: -1
terminated, 0 runnable, 1 blocked. What stops the machine is a value of
`machine`. The `tick` action is the clock handler of the test harness, which calls
`dispatcher`; `Boot` is the startup code. Stacks, contexts, processor modes,
names, exit statuses and the printing operations are left out.

### Semaphore

One step is one operation up to the point where it sleeps or may be preempted.
`senders[s]` and `receivers[s]` are the queues of the external zero-slot mailbox
of semaphore `s`. `sys_semp` receives and `sys_semv` sends; `kernSemP` sends and
`kernSemV` receives. For the latter the read of `value`, the decrement and the
call of the mailbox layer are separate steps (`toTake`, `toSend`, `toRecv`); one
`value++` or `value--` is one step. `KernIndices` says which semaphores are used
in kernel mode; the others are used by system calls only, as two kinds of client
of one semaphore have no sensible contract.

### Programs

A test program is a sequence of processes, each a priority and a sequence of
instructions; an instruction is a call together with the set of results that the
program's code and its recorded output (`testNN.out`) expect of it. `ip[p]` is the
next instruction of process `p`. The layer below decides when an instruction is
over and with what; one with another result goes into `unexpected`. Process 1 is
the one `testcase_main` starts, process `k` the `k`-th that is sporked.

The process layer under the programs is a binary. `Dispatched` says of it what the
recorded outputs rely on: the best priority runs, and equal priorities share the
processor in any order, so a process may lose it after any instruction to one of
its own priority. `join` gives the newest child that has quit. In phase 2 no clock
tick arrives except in `test13`, which waits for two; a tick in any other program
would go to a mailbox that nobody empties, and the next would keep the process it
interrupts (section 3, Fairness).

A program that fills a table fills the smaller table of the instance by the same
formula (`MAXMBOX`, `MAXSLOTS`, `MAXSEMS`); loops that only repeat are shorter
(`N`, `PRIMES`, `Kids`, the boxes of `test16` to `test18`). Loops of a program that
stop at a bad result are written out, as the expected results say how often they
turn. Printing, stacks, names and the pauses a program makes by letting others run
are left out, except where a pause is a process of its own (`Pauser`).

### ClockDriver

| State | Code |
|---|---|
| `tickCount` | `tickCount`, with no bound |
| `clockMbox` | the requests in the mailbox, in order |
| `driver`, `req` | where the loop of `ClockDriver` is: in `waitDevice`, before `MboxCondRecv`, or with a request in hand |
| `asleep` | external: who is in `blockMe` |
| `due` | a history variable: the tick asked for, not cut to an int |
| `machine` | `halted` by `unblockProc`, or `stopped` by somebody else |

Overflow of `tickCount + seconds * TICKS_PER_SEC` is undefined in C; the build
wraps round (`Wrap`). `sys_sleep` is one step, since a system call runs with
interrupts off, nobody waits in `MboxRecv` of `clockMbox` for the send to wake, and
the driver runs when a tick comes. A send to a full `clockMbox` is disabled, and so
is the driver's.

### Terminals

`control`, `pending`, `waiters` stand for the device and the `waitDevice` of
`libphase2.a`: which interrupts a terminal has enabled, one status that nobody has
fetched, and who waits for the next. A status goes to the first who waits, a driver
or a writer; when one is pending already the new one is lost. `TermWrite` sends
each character to the device as if it were a control word, so the low bits of the
character decide whether the unit transmits (1) and which interrupts are enabled (2
on receipt, 4 on transmission; these are the bits of the linked USLOSS): an `h` is
no command at all, a new line enables the first interrupt, an `o` is all three.
Nothing else in phase 4a enables any. `sending` is the transmission that has not
ended. A character that comes in while no interrupt is enabled is lost. A typed
character is its place in what was typed, a written one its command. `unit` is 0
for every driver, as all are given NULL. `writers[u]` is the mutex: those inside
first, then those who wait in `MboxSend`. `TermNext` lets users read and write in
any order; the programs and the free callers take steps of it only.

### UserPrograms

Every process starts in kernel mode and `trampoline` (or the harness's) leaves it;
each wrapper halts the machine when it is called in kernel mode. `FamilyCall`,
`SemCall`, `SleepCall` and `TermCall` are the system calls; those that sleep are
over for the process that is woken when somebody else makes the call that wakes it.
`handle` is the variable of the program that holds a semaphore, so that the -1 or
the index that `SemCreate` writes there is what later calls are given. Ticks and
terminal interrupts come when nobody can run: the programs take far less than a
tick between two sleeps, and their recorded outputs depend on that. The free
callers of `UserTestsMC` have no such rule.

## 3. What is checked

Every run takes the constants in its `.cfg`. Deadlock is not checked: the
system stops by itself when every process is asleep or the machine has halted.

| Run | Question | Instance |
|---|---|---|
| `mbx_slots` | do several senders, blocking or not, and one receiver use a mailbox correctly? | three senders and a receiver of one priority, a mailbox of two slots out of three, two messages |
| `mbx_lifecycle` | does release wake everybody while arguments of all kinds arrive? | an owner, a sender and a receiver; one and three slots, of which three are refused; NULL pointers, lengths -1, 0 and 5 for slots of 2; buffers of -1, 1 and 4 bytes |
| `mbx_reuse` | do slot ownership and types survive reuse of ids under sleeping processes? | two owners, waiting lists of one place, mailboxes with and without slots |
| `mbx_live` | is no message left in a mailbox and no sender left asleep, and do two mailboxes share the slot pool correctly? | a driver in `waitDevice`, a reader and a writer, each of which the clock may interrupt, three slots for the clock's mailbox of one and another of one or two, under fairness |
| `kernel_all` | does the process layer keep its tree, its joins and its queues? | four table entries, pids up to 7 of which two are skipped, four priorities, all operations |
| `mbx_programs` | do the calls of the phase 2 programs give what the programs expect, whoever runs first? | 41 of 47 programs, 13 mailboxes, 20 slots |
| `user_programs` | the same for phases 3 and 4a; and do Sleep and the terminals keep their promises whoever calls them when? | 23 programs of phase 3, the four of phase 4a that depend on no terminal, five more; three free callers of Sleep that ask for -1, 0, 2 or 64 seconds of two ticks, an int of 7 bits and a sign; two free users of two terminals, lines of two characters, one line buffered |
| `sem_all` | are the semaphores of the system calls counting semaphores? | four processes, one semaphore of each kind, initial values -1 to 1, indices on both sides of the table |

The properties, all stated in the modules with the behaviour they are about:

- `SlotIntegrity` no slot in two places, no mailbox above its capacity.
- `NoStrandedProducer`, `NoStrandedConsumer` nobody sleeps over a free place or a
  message that no woken process has a claim to. The claim is what makes them
  true in the interval between a wake-up and the woken process's next step.
- `ListedIffAsleep` the waiting lists are exactly the sleepers.
- `NeverStops` no `unblockProc` of a running process and no undefined behaviour.
- `ReleaseWakesAll` nobody sleeps on a mailbox that has been released.
- `ImplementsChannels` every step is a step of `Channels` or changes nothing
  there. `chan[b]` is the sequence of messages in the slots `slotQueue[b]` names,
  and empty when `b` is inactive.
- `MessageConsumed`, `SenderWoken` liveness: no message stays queued and no sender
  stays asleep for ever, unless the clock keeps a receiver (`ReceiverKept`, below).
- `FamilyTree`, `NoLostJoin`, `SomeoneToRun`, and `QueuesKept`: from well-formed
  ready queues every step leads to well-formed ones, except `unblockProc` and the
  quit of a process being zapped, which queue again a sleeper that is still
  queued. Well formed means that the queues are lists, that everybody who has not
  terminated, asleep or not, is on the queue of its priority, once, and that
  nobody else is on any.
  `NoSwitchToSleeper`: while the queues are lists, the dispatcher is asked to switch
  to the running process only if that process stays runnable.
- `ResultsAsExpected`, `ProgramsEnd` of the test programs: no unexpected result in
  any schedule, and an end that is the expected one, so that nobody is left asleep.
- `NoOrphans`: whoever has terminated has no child left, running or not.
- `OneRequestEach`, `ClockNeverHalts`, `NeverEarly`, `OversleepBounded`: sleepers and
  requests correspond one to one; nobody is woken twice or early; and a sleeper
  whose request keeps going to the end of the queue gains a place each time, so
  that it is at most as many ticks late as there are processes.
- `OneWriter`, `MutexHandedOn`, `LineFits` of the terminals; and `CharsOnce`: a typed
  character is in one status, one line that is being built or is ready, or the line
  somebody has read last, and nowhere twice.
- `WaitersCounted`, `VNeverSleeps`, `ImplementsCounting`: `waiting[s]` is the
  queue of receivers at the mailbox, and `count[s]` the value plus the units that
  those have taken in advance.

Why the instances are large enough. Every hazard of the mailboxes involves at
most two processes asleep on one mailbox and a third that sends, receives,
releases or creates; with a capacity of two a queue is empty, partly full and
full, and in `mbx_live` three slots for two mailboxes make the free stack run
through its orders. That no number of mailboxes sharing the pool makes a
difference is proved (section 4). In `mbx_reuse` lists of one
place overflow with two sleepers. In `kernel_all` four entries serve four
processes after `init`, so an entry is used again while the parent, a zapper or a
queue could still point to it; `PIDMOD` is 4 so that pids are skipped. In
`sem_all` four processes make three wait on one semaphore. In `user_programs` three
sleepers make a request that is due stay behind two others, 64 seconds overflow
the int, and 0 seconds are due at the next tick; with two users of a terminal one
writes while the other waits for the mutex, or for a line, and with lines of two
characters and a buffer of one line both limits are reached. That no larger number
of sleepers makes a difference is proved (section 4).

Bounds that the code does not have: `MaxPid` ends `spork` (Kernel); `MaxValue`
ends V above and `kernSemP` below (Semaphore); no program gets near it in
`UserPrograms`. `MaxTick` ends the ticks for the free callers of Sleep, `MaxTyped`
what is typed at a terminal and `MaxWrites` the calls of `TermWrite` of its free
users (UserTestsMC); the programs have no bound but their own end, and the time-out
of the harness. Table sizes are constants of the code given small values.

The passing runs reach every action. They do so under conditions the code needs:
one receiver per mailbox with slots in `mbx_slots` and `mbx_live`, one waiting
receiver when a mailbox is released in `mbx_lifecycle`, enough slots for all
mailboxes, and waiting lists that do not fill, except in `mbx_reuse`. Section 5
says what happens without them.

### Fairness

`FairSpec` is the only specification with fairness, and asks two things. A
process that is ready inside an operation goes on (`WF_vars(Resume(p))`): the
external dispatcher runs the processes of one priority in turn, in slices of
80 ms, and in `mbx_live` all have one priority; a lower priority could starve and
nothing is claimed for it. A process in `Receivers` that can receive all the time
does so in the end: they are the device driver, whose loop calls `waitDevice` for
ever, and one reader. No fairness is assumed of senders, of the clock, or of
anything that starts a new operation elsewhere.

The clock handler is a blocking `MboxSend` in the context of whatever it
interrupts, and no fairness says when a tick comes. So there are two ways in which
the clock keeps a receiver from its work, and the liveness properties except them
by `ReceiverKept`. A tick that interrupts the driver while another is queued puts the
driver to sleep as a sender on the mailbox that it alone empties (`phase2.c:87`): it
never wakes, and neither does anybody else whom a tick puts to sleep there. TLC
reaches this deadlock in two steps (`DriverNeverKept`, section 5). And a tick may find
the mailbox full whenever it interrupts the reader, so that it sleeps, or is
overtaken by the ticks of others, again and again. The properties say that nothing
else keeps a message or a sender: in particular that no wake-up is lost, also among
senders that ticks have made of the reader, the writer and the driver, as long as
the receivers come back to their mailboxes. That a sender returns, rather than is
woken, does not follow: one that sleeps can be overtaken each time it is woken
(`SenderReturns`, section 5).

No fairness is needed for the programs and for Sleep. `ProgramsEnd` is an
invariant: where nothing can happen any more the program has ended, and the
programs have no loops. Eventual waking is stated as the bound `OversleepBounded`,
which no amount of scheduling can postpone, since time is counted in the driver's
own ticks.

## 4. What is proved

All theorems hold for every value of the constants that satisfies the named
assumptions of the module (`SizesAssumption`, `ProcsAssumption`,
`InputsAssumption`, `SemAssumption`, `ClockAssumption`, `TermAssumption`,
`SuiteAssumption`, `UserAssumption`), which TLC evaluates in each run.

### Mailboxes

`MailboxProofs!TypeCorrect`: `Spec => []TypeOK`. `TypeOK` is inductive; there is
a lemma for each operation and for the helpers they share (`UnblockType`,
`WakeType`, `DepositType`, `TakeType`, `ReturnType`). Besides shapes it says that
`numSlots` and the slot size are within the table's limits.

`MailboxProofs!SlotsNeverShared`: `Spec => []SlotIntegrity`. The invariant is
inductive relative to `TypeOK`. Only four kinds of step touch what it is about: a
deposit moves the top of the free stack to the end of a queue, where
`SlotCapacity` comes from the test of `Full` in the same segment; a take moves
the head of a queue to the stack; create and release empty a queue; and `isActive`
turns false. In a take the slot is in no other queue because `mailboxID` has one
value and `QueuedSlotsOwned` makes it the queue's own, and it is not free because
it is in use. No assumption about priorities, receivers or release is needed, so
this is true also in the situations of section 5.

`MailboxClientProofs`: the waiting lists. What section 5 shows is that they are
wrong for some clients, so these theorems have a hypothesis, `Discipline`, that says
which clients they are right for: nobody releases a mailbox, no call names a
mailbox without slots, at most one process waits in `MboxRecv` at each mailbox,
buffers are as large as the slots, and the arrays of blocked pids have room for
all who may sleep in `MboxSend`. The constants of `mbx_slots` and `mbx_live` satisfy
it, drivers in `waitDevice` and a clock that interrupts anybody included (these are
safety properties, which hold of a driver that its own tick has put to sleep, too); `bad_receivers` drops one clause
of it. Any number of processes, mailboxes, slots, sizes and priorities is
covered. Proved are `NoProducerStranded`, `NoConsumerStranded`, `ListsHoldSleepers`
(`ListedIffAsleep`) and `UnblockOnlySleepers` (`NoHalt`); and, with `EnoughSlots` (the
pool is no smaller than the sum of the mailboxes' sizes), `NeverStopped` (`NeverStops`).

They are one argument, the invariant `ClientInv`, and none of them is inductive
alone. `MboxSend` wakes nobody for a message when `consumers` is NULL and
`MboxRecv` wakes one producer for the place it frees, so a sleeper is not stranded
only if somebody awake has a claim to what it waits for. `ConsumersKnown` says that
a receiver asleep is the one `consumers` points at and its queue is empty;
`ProducersCovered` that as long as a producer sleeps, the free places are no more
than the senders woken and not yet run. Keeping the latter needs `ListedIffAsleep`:
the producer that a receive unblocks is asleep, so the number of woken senders
grows by one with the free places; and a woken sender that finds the mailbox full
goes back to sleep only when there is no free place to cover. `Created`, `Control` and
`MessagesFit` keep woken processes away from the early returns (a mailbox gone, a
buffer too small) on which a claim, or a slot, would be lost. `NeverStops` is a
pigeonhole argument: by `NoSlotLost` every slot is free or queued; if none is free, the
places of the queues are as many as the slots, so with `EnoughSlots` each mailbox is full,
and a sender that finds room contradicts that. `phase2.c` tests the free slots
before it sleeps and takes one after (section 5, `NoFault`): under the hypothesis
the second test it lacks is not needed.

`MailboxChannelProofs!ChannelsImplemented`: `Spec => ImplementsChannels`, that is,
every step of the layer is a step of `Channels` or leaves the channels alone. The
hypothesis is `OneOwner`: whoever releases mailboxes is the only process that
creates and releases, and if there is such a process, no mailbox is a rendezvous.
It holds of `mbx_slots`, `mbx_live` and `mbx_lifecycle`. Receivers, buffers, lists and
pool are not restricted: a process that wakes, finds its place or message taken
and sleeps again or returns -1 is a stutter. A deposit maps to `Channels`' send
because the slot that it overwrites is free, and so on no queue (`SlotIntegrity`), so
that the other messages stay as they are; a take maps to its receive for the same
reason. The hypothesis is needed for what lies between two segments: `OwnerInv`
says that a mailbox which is being released stays inactive until `MboxRelease` frees
its queue, and that a rendezvous ends at the mailbox where it began. With two owners
it is false, and so is the refinement: with the constants of `mbx_reuse` TLC finds
a release whose last act frees the queue of a mailbox that another process has
created under the same id meanwhile (`phase2.c:196`).

`MailboxChannelProofs!ReleaseLeavesNobody`: `Spec => []ReleaseWakesAll`. The
hypothesis, `Owned`, is `OneOwner` with a process that does release, at most one process
that waits in `MboxRecv` at each mailbox, and room in the arrays of blocked pids for
all who may sleep in `MboxSend`. The constants of `mbx_lifecycle` satisfy it; with two
receivers, or with a list that overflows, somebody is not found. Unlike
`ListedIffAsleep`, which needs that nobody releases, the invariant `Waking` cannot say
that whoever is listed or pointed at sleeps: `MboxRelease` leaves the pids it woke in
`blockedConsumers`, and wakes a receiver through `consumers` whether or not a send has
done so. It says only that whoever does sleep is found: a sender is in the list of its
mailbox (`ProducersListed`), a receiver is the one that `consumers` points at
(`ReceiversPointed`). `Sweeps` follows the loop of release: the senders
still asleep are at or after the place it has reached, and the receiver is woken
before `relClear`; nobody new arrives, since the mailbox is inactive, so when the
last segment returns nobody is left. `Found` is the property; that
`MboxCreate` sets `consumers` to NULL loses nobody, because `Found` and the single
owner leave no sleeper at an id that can be taken. A step that
halts the machine is covered by `machine = "up"`, as in the property.

### Process layer

`KernelProofs`: `KernelTypeCorrect`, `FamilyTreeKept`, `JoinNeverLost` and
`AlwaysSomeoneToRun`, for a process table of any size, any number of skipped pids
and any sequence of calls. The ready queues may be spoiled by `unblockProc` (section 5,
`bad_unblock`), and the theorems hold all the same; `KernelInv` is what survives. `Pointed`
says that every `next`, every queue head and `running_process` lead to an entry
that has been used. `InitReady` says that `init` is at the head of queue 6 and the
only process that ever has priority 6, so no other can be appended in
front of it or removed through it, and it is always runnable: hence
`SomeoneToRun`, whatever the other queues look like. `Family` says that the child list of an
entry holds exactly the live entries whose `parent` it is, each once;
`FamilyTree` follows. What lets `spork` use an entry again is that an entry freed by
`join` has no children, since `quit` refuses a process that has any. `NoLostJoin` needs
that a child which quits finds its parent through `parent`, which `Family` gives. That no two live processes
share a pid needs `Named` (every pid is below `next_pid`), since `spork` counts `next_pid` up
and skips two pids in every fifty.

`QueuesKeptInOrder` (`QueuesKept`) and `OnlyTheAwakeSwitchToThemselves`
(`NoSwitchToSleeper`) are about the walk along `next`, whose length is that of the
table. `Nth` is a recursive function on `0..MAXPROC`; `NthWalks` proves that it exists
and satisfies its equations, and `WalkIsNth` that whatever satisfies them is `Nth`,
both by induction over the naturals (`AllOf`, from the principle of the least element:
no lemma with an operator for a parameter is needed). What an operation does to the
queues is then shown by giving the new walks outright: `AppendedLists` puts the process
at the place where the walk ended, which exists because a list that meets everybody
at most once and leaves one out has room for it (`Room`, a pigeonhole over the
table), and `UnlinkedLists` moves every later process up one place. In both, the other
queues' walks stay as they are because no process is on two. `QueuesInOrder` is
`QueuesWellFormed` with that in these terms. It speaks of sleepers as well as of
runnable processes, since a sleeper
becomes runnable where it is when its child quits (`phase1b.c:376`): if sleepers
could be off their queue, that step would spoil the queues, and the property for runnable
processes alone would not carry over from one step to the next.
`QueuesKept` needs that the entry `spork` uses is on no queue (`StatusMatches`)
and that the process that quits is on the queue `remove_from_ready_queue` walks.
`NoSwitchToSleeper` needs more of quit: with zappers put in front of
the queues, the one that quits can be at the head of its own queue only, and what
follows it there is somebody else (`QuitNotChosen`).

### Semaphores

`SemaphoreProofs!TypeCorrect`: `Spec => []TypeOK`.

`SystemCallsCorrect` (`WaitersCounted`) and `VFindsReceiver` (`VNeverSleeps`): if
`KernValues` has no negative value. Neither is inductive: that V finds a
receiver depends on `blocked` being the length of the receivers' queue, and that
on nobody but P and V using this mailbox. `IInv` adds `NoSenders` (no process
sleeps as a sender on a semaphore of the system calls), `Inside` (a process that
is inside an operation for kernel mode has a semaphore of the other kind) and
`Counts`, which is `WaitersCounted` extended to semaphores that do not exist yet,
whose queue is empty; without that a create would not establish it. The
assumption on `KernValues` is needed because both kinds of semaphore come from
one table and `kernSemCreate` does not refuse a negative value (section 5).

`CountingImplemented`: under the same assumption `Spec => ImplementsCounting`. `P`
and `V` have one step for each of their branches in `CountingSemaphore`; which one
a step maps to depends on whether the value is negative, and `Counts` ties that to
the queue of receivers being empty. An operation on another semaphore and every
operation for kernel mode is a stutter.

### Sleep

`ClockDriverProofs`: for any number of processes and any times,
`ClockTypeCorrect`, `RequestsMatchSleepers`, `DriverNeverHalts`, `WokenNeverEarly`
and `OversleepIsBounded`. They rest on one inductive invariant, `ClockInv`.
`OneRequestEach` alone is not inductive, because whether `unblockProc` finds its
process asleep depends on the pid in the request being in `asleep`; it gives
`ClockNeverHalts`, and `Stamped` (the tick in a request is the wrapped one the
process asked for) gives `NeverEarly`. The bound needs a potential: `Ranked` says that
a request at place `i` of the queue that is late by `t` ticks has `i + t` at most
the number of processes, and one more while the driver scans. A tick adds one to `t`;
the scan that follows takes at least one request out from in front of it, which
lowers `i`, or reaches it and wakes it; a new request and one put back go to the
end. `Counted`, that there are no more requests than processes, makes the end of
the queue a place within the bound: it follows from `OneRequestEach` by an injection
into the finite set of processes. `ClockAssumption` asks that `clockMbox` has a slot
for every process (100 slots, 50 processes); otherwise the driver could wait for
itself.

### Terminals

`TerminalProofs`: `TermSpec => []...` for any number of users, units and texts,
lines and buffers of any length, new lines anywhere: `TermTypeCorrect`,
`OneWriterAtATime`, `MutexIsHandedOn`, `CharsNeverTwice` and `LinesFit`. The
invariant `TermInv` has three parts.

`Queues` is about the users. `MutexQueue`: nobody is in two places of the writers'
lists, the first of a list is at the device and the others wait for the mutex; this gives
`OneWriter` and `MutexHandedOn`. It is not inductive by itself, because a status that
arrives sends whoever heads `waitDevice` back to `output`: `DeviceQueue` says that a user
there is the first writer of that very unit and is there once. A line that arrives
makes whoever heads `readers` idle, which is a reader (`ReaderQueue`) and so not a writer.

`Lines`: `LineFits` needs `LineOpen`, that an unfinished line has no new line in it. The
test of `MboxCondSend` for a full mailbox keeps the lines within its slots.

`Chars`: every step moves whole sequences between the places (`Moves`), leaving empty or
shifting what they came from, and at one place adds the character just typed.
`Fresh` says that this character is nowhere yet, since every other is older than
`typed`. When a line is read, all those behind it move up one place; a driver that
completes a line leaves its buffer empty, to whomever the line goes or if it is dropped.
That the drivers share unit 0 does no harm to this, although it does to the lines
(`LinesWhole`, section 5).

### User processes

`UserProofs` is about all of phases 3 and 4a running together, with any suite of
programs and not only those of the test cases: any number of processes, priorities,
calls and texts. `UserAssumption` says what a program is: whom it spawns is one of
its processes, the seconds it sleeps are an int, what it writes are characters, and it
spawns nobody after `Terminate`, which does not return.

`FamiliesEnd` (`NoOrphans`): `sys_terminate` joins child after child, and the process
gives up the processor each time it waits. `FamilyInv` says that whom a process
has spawned is still on its list of children or has quit, and that the list of one
that has ended is empty. It is not inductive by itself. Others move a process on: a V,
the clock driver, a line or a status that arrives at a terminal ends the call
somebody sleeps in, and if they could do so to a process that is not in that call, they
might move it past a spawn it has not made. `Attached` says that whoever is asleep in
`Sleep`, on a semaphore or at a terminal is at that very instruction; and
that needs the invariants of the parts, `ClockInv` (whom the driver wakes is asleep
there) and `TermInv` (whom an interrupt wakes is a reader, or the writer at the
device). So `UserInv` is the conjunction of all of them. That `join` takes the newest
child that has quit, and that one only, is `NewestQuit` and `Removed`.

The same invariant carries over to the programs what is proved of the parts by
themselves, whose next-state relations are not those of the whole:
`ClockKeptAmongOthers`, `NotEarlyAmongOthers` and `TerminalsKeptAmongOthers`. Each
step of `UNext` is a step of a part with an argument that the programs give it, or
leaves the part alone (`ClockAnyNext`, `TermAnyNext`: any time, any text), except
that a machine that is halted by the mode check stops the clock driver with it.

### What TLC alone checks

The test programs (`ResultsAsExpected`, `ProgramsEnd`): what their outputs
expect is part of the program, and there is nothing to generalise. The programs of
phase 2 run on `Mailbox`, whose theorems cover them as long as they keep to the
hypotheses above.
Liveness, `MessageConsumed` and `SenderWoken`, which needs fairness and ENABLED.
`NeverHangs`, `KernWaitsAtZero` and the others of section 5 are
refuted.

## 5. Where the code and its comments part

Four runs show a violation of what a comment says and keep its counterexample:

| Run | Comment | Code |
|---|---|---|
| `bad_receivers` | `phase2.c:207` "Unblocks the first waiting consumer" | With two receivers asleep, the first one woken sets `consumers` to NULL (L372), and the next send, which looks at that field (L312), wakes nobody. |
| `bad_unblock` | `phase1b.c:418` "reinserts it into the ready queue" | The process never left the queue; the last one of a queue becomes its own successor and the next walk does not end. |
| `bad_kern_units` | `phase3.c:210` "the value is 0 in which case the process blocks" | `kernSemV` adds a unit to `value` (L233) and also releases a process asleep in `kernSemP`, which takes none; a second process stays asleep although `value` is 1. |
| `bad_terminals` | `phase4a/testcases/test08.c:2-3` "Each child reads one line from a different terminal." | Every `TermDriver` is sporked with NULL (`phase4a.c:64`) and serves unit 0 (L69), and nothing enables the interrupts of a terminal, so the readers sleep until the time-out halts the machine. The instance has the sizes of the code. |

The following were met on the way and are stated as properties at the end of
their modules, where a reader can add them to a configuration:

| Property | Comment | Code |
|---|---|---|
| `ReleaseWakesAll` | `phase2.c:172` "unblocks any waiting producers/consumers" | On a mailbox with slots release wakes the one receiver `consumers` points at (L191). It holds in `mbx_lifecycle`, with one receiver, and fails with two. `test28`, `test29` and `test33` end with receivers asleep whose `MboxRecv` the recorded outputs have return -1. |
| `ResultsAsExpected` | `test25`, `test26` of phase 2 | The outputs give messages, and places in a full mailbox, to sleepers in the order in which they fell asleep. Here a woken process looks again when it runs, so the one of best priority comes first. |
| `ResultsAsExpected` | `test34` of phase 2, "A test of waitDevice for all four terminals." | `waitDevice` gives -1 for units other than 1 (L490). |
| `WokenWhenDue` | none | The scan ends at the first request that is not due (`phase4a.c:117`); a due one behind it waits for the next tick. |
| `NeverEarlyAtAll` | `phase4_usermode.c:29` "number of seconds to sleep" | A time whose tick is beyond an int wraps round to one long past (L131). |
| `LinesWhole`, `DriverPerTerminal` | `phase4a/testcases/test08.c:3` | Four drivers share unit 0, and each puts every fourth character in its line. |
| `ProgramsEnd` | `term03`, `term05` to `term08`, `term19` to `term22`, the programs of phase 4a that read or write a terminal | As in `bad_terminals`: a reader waits for a line, or a writer for the status of a terminal that does not interrupt, since the second character of every text (`h` or a space) is no command. |
| `NoHalt` | `phase2.c:172` | Release unblocks a receiver that a send has woken and that has not run yet (L192); that halts the machine. |
| `NoFault` | `phase2.c:242` "-2 if slot unavailable" | The number of free slots is tested before the sleep (L277), a slot is taken after it (L302). |
| `InUseIsQueued` | `phase2def.h:27` | Release (L196) and a receive into too small a buffer (L382) forget slots that stay in use for ever. |
| `DriverNeverKept` | `phase2.c:81` "sends current value to clockMailbox" | The handler's `MboxSend` (L87) blocks when a tick is queued already, and puts the interrupted process to sleep; if that is the driver, it waits for itself. |
| `SenderReturns` | `phase2.c:240-242` "If full, blocks the sender", "Returns 0 on success" | A woken sender looks again (L280), and somebody who never slept may have taken the place, each time. |
| `RendezvousMeets` | `phase2.c:241` "if no consumer is waiting, blocks" | `consumers` is cleared after `unblockProc` (L259), over a registration the woken process has made since. |
| `BestPriorityRuns` | `phase1b.c:489` "the highest-priority runnable process" | A sleeper at the head of a queue hides those behind it (L500). |
| `SwitchToSelfIsNothing` | `phase1b.c:522` "nothing to switch" | The machine is halted (L524). |
| `ZapWaits` | `phase1b.c:482` "the target has terminated" | The quit of a child wakes its parent out of `zap` (L376). |
| `KernVNeverSleeps` | `phase3.c:226` | `kernSemV` sleeps when nobody is in P (L234). |
| `KernNonNegative` | `phase3.c:209` | Two callers both find one unit (L216-219). |
| `CreatedNonNegative` | `phase3.c:185` "returns -1 if the initial value is negative" | It is stored (L200). |

`ImplementsChannels` fails, too, in one situation that `mbx_lifecycle` leaves
out: a sender asleep on a zero-slot mailbox, woken by its release, returns success
if the id has been created again as a mailbox with slots (L270).

## 6. What is not modelled, and the plan

Modelled so far, in this order: `Mailbox` with `Channels`, `Kernel`, `Semaphore` with
`CountingSemaphore`, the test programs with `ClockDriver`, `Terminals` and
`UserPrograms`, and the theorems of section 4. To be added, in this order:

1. `SlotQueue`: the ring buffer (head, tail, count, capacity) shown to implement
   the sequence `Mailbox` uses.
2. A finer module for the clock handler interrupting in the middle of
   `freeSlotQueue` updates (`phase2.c:389`), and one with numeric pids for
   `shadowProcesses` (L352).
3. The test programs of phase 1b on `Kernel`.

Left out of what is modelled: a spork that fails because the table is full, after
which `sys_spawn` still reports success (`phase3.c:58`); the memory of the wrapper
that `trampoline` frees only if the function returns (L41); the value of the clock
and of pids; the buffer of a receiver, which is taken to be there and as large as
it says, so that no NULL is copied to (`phase2.c:385`); `SemFree`, whose system
call nobody implements, and the disk calls of phase 4b, which is not in the
repository; processor modes, stacks and printing in the process layer.

Not planned: `phase1a.c`, which phase 1b replaces; `donk.c`, which is a comment; the
binaries, of which only the use made of them is known.

## 7. Running

`tlc -config <run>.cfg <module>.tla` with the module that `PROJECT.json` names for
the run; `tlapm <module>.tla` for each module whose name ends in `Proofs`. The
longest runs, `kernel_all`, `mbx_lifecycle` and `user_programs`, take about two
minutes on two cores.

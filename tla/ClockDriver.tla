---------------------------- MODULE ClockDriver ----------------------------
(***************************************************************************)
(* Sleep and the clock driver of phase4a/phase4a.c.  A process that sleeps *)
(* leaves a request in the mailbox clockMbox and blocks; the driver looks  *)
(* at the requests after each tick.  System calls run with interrupts off, *)
(* so sys_sleep is one step; the driver is a process in kernel mode and    *)
(* may be interrupted between its calls.  The mailbox layer and the        *)
(* process layer (libphase2.a, libphase1.a) are external: a first-in       *)
(* first-out queue, and blockMe and unblockProc.                           *)
(***************************************************************************)
EXTENDS Integers, Sequences, FiniteSets

CONSTANTS
    Sleepers,       \* the processes that may call Sleep
    Seconds,        \* the times they ask for
    TICKS_PER_SEC,
    SleepSlots,     \* the slots of clockMbox, 100 in the code
    MaxInt          \* the largest int

(* The process table has 50 places and clockMbox 100 slots. *)
ASSUME ClockAssumption ==
    /\ IsFiniteSet(Sleepers)
    /\ Seconds \subseteq Int /\ TICKS_PER_SEC \in Nat /\ MaxInt \in Nat
    /\ SleepSlots \in Nat /\ Cardinality(Sleepers) <= SleepSlots

VARIABLES
    tickCount,
    clockMbox,   \* the requests, the first to be received at the head
    driver,      \* "wait", "scan" or "held": in waitDevice, or how far round its loop
    req,         \* the request the driver has taken out
    asleep,      \* external: the processes in the blockMe of sys_sleep
    due,         \* history: the tick each process asked to sleep for, unbounded
    machine      \* "up", "halted" by unblockProc, or "stopped" by another process

clockVars == <<tickCount, clockMbox, driver, req, asleep, due, machine>>

Requests == [pid : Sleepers, wakeupTick : Int]

ClockTypeOK ==
    /\ tickCount \in Nat
    /\ clockMbox \in Seq(Requests)
    /\ driver \in {"wait", "scan", "held"}
    /\ driver = "held" => req \in Requests
    /\ asleep \in SUBSET Sleepers
    /\ due \in [Sleepers -> Nat]
    /\ machine \in {"up", "halted", "stopped"}

(* phase4_start_service_processes. *)
ClockInit ==
    /\ tickCount = 0
    /\ clockMbox = <<>>
    /\ driver = "wait"
    /\ req = <<>>
    /\ asleep = {}
    /\ due = [p \in Sleepers |-> 0]
    /\ machine = "up"

-----------------------------------------------------------------------------
(* An int that grows past the largest one comes out negative. *)
Wrap(n) == IF n <= MaxInt THEN n
           ELSE ((n + MaxInt + 1) % (2 * (MaxInt + 1))) - MaxInt - 1

sys_sleep(p, seconds) ==
    /\ machine = "up" /\ p \notin asleep
    /\ \/ seconds < 0 /\ UNCHANGED clockVars      \* arg4 is -1
       \/ /\ seconds >= 0 /\ Len(clockMbox) < SleepSlots
          /\ due' = [due EXCEPT ![p] = tickCount + seconds * TICKS_PER_SEC]
          /\ clockMbox' = Append(clockMbox, [pid |-> p, wakeupTick |-> Wrap(due'[p])])
          /\ asleep' = asleep \cup {p}
          /\ UNCHANGED <<tickCount, driver, req, machine>>

-----------------------------------------------------------------------------
(* waitDevice returns, with a tick of the clock. *)
Tick ==
    /\ machine = "up" /\ driver = "wait"
    /\ tickCount' = tickCount + 1
    /\ driver' = "scan"
    /\ UNCHANGED <<clockMbox, req, asleep, due, machine>>

(* Faulty: the result of MboxCondRecv is not looked at. *)
NextRequestUnchecked ==
    /\ machine = "up" /\ driver = "scan"
    /\ driver' = "held"
    /\ IF clockMbox = <<>> THEN UNCHANGED <<clockMbox, req>>
                           ELSE req' = Head(clockMbox) /\ clockMbox' = Tail(clockMbox)
    /\ UNCHANGED <<tickCount, asleep, due, machine>>

(* MboxCondRecv: the next request, or no more. *)
NextRequest ==
    /\ machine = "up" /\ driver = "scan"
    /\ \/ /\ clockMbox = <<>>
          /\ driver' = "wait"
          /\ UNCHANGED <<clockMbox, req>>
       \/ /\ clockMbox # <<>>
          /\ req' = Head(clockMbox)
          /\ clockMbox' = Tail(clockMbox)
          /\ driver' = "held"
    /\ UNCHANGED <<tickCount, asleep, due, machine>>

(* Faulty: one tick early. *)
DueEarly(r) == r.wakeupTick <= tickCount + 1
Due(r) == r.wakeupTick <= tickCount

(* Faulty: the request is put back whether it was due or not. *)
WakeSleeperKeeps ==
    /\ machine = "up" /\ driver = "held" /\ Due(req)
    /\ asleep' = asleep \ {req.pid}
    /\ machine' = IF req.pid \in asleep THEN "up" ELSE "halted"
    /\ clockMbox' = Append(clockMbox, req)
    /\ driver' = "wait"
    /\ UNCHANGED <<tickCount, req, due>>

(* unblockProc of a process that is not blocked halts the machine. *)
WakeSleeper ==
    /\ machine = "up" /\ driver = "held" /\ Due(req)
    /\ asleep' = asleep \ {req.pid}
    /\ machine' = IF req.pid \in asleep THEN "up" ELSE "halted"
    /\ driver' = "scan"
    /\ UNCHANGED <<tickCount, clockMbox, req, due>>

(* Faulty: the request that is not due goes back to the front; is dropped. *)
PutBackInFront ==
    /\ machine = "up" /\ driver = "held" /\ ~Due(req)
    /\ clockMbox' = <<req>> \o clockMbox
    /\ driver' = "wait"
    /\ UNCHANGED <<tickCount, req, asleep, due, machine>>
PutBackDropped ==
    /\ machine = "up" /\ driver = "held" /\ ~Due(req)
    /\ driver' = "wait"
    /\ UNCHANGED <<tickCount, clockMbox, req, asleep, due, machine>>

(* The first request that is not due ends the scan and goes to the end of  *)
(* the queue, behind the requests made since.                              *)
PutBack ==
    /\ machine = "up" /\ driver = "held" /\ ~Due(req)
    /\ Len(clockMbox) < SleepSlots
    /\ clockMbox' = Append(clockMbox, req)
    /\ driver' = "wait"
    /\ UNCHANGED <<tickCount, req, asleep, due, machine>>

(* One segment of the driver process. *)
DriverStep == NextRequest \/ WakeSleeper \/ PutBack

ClockNext == Tick \/ DriverStep \/ \E p \in Sleepers, s \in Seconds : sys_sleep(p, s)
ClockSpec == ClockInit /\ [][ClockNext]_clockVars

-----------------------------------------------------------------------------
(* Properties. *)

(* Where a request is: its place in the queue, or 0 in the driver's hands. *)
Places == IF driver = "held" THEN 0..Len(clockMbox) ELSE 1..Len(clockMbox)
RequestAt(i) == IF i = 0 THEN req ELSE clockMbox[i]

(* Every process asleep has one request on its way round the driver, and   *)
(* only such processes have: no sleeper is lost when a request is taken    *)
(* out and put back, and none is woken twice.                              *)
OneRequestEach ==
    /\ \A i \in Places : RequestAt(i).pid \in asleep
    /\ \A i, j \in Places : RequestAt(i).pid = RequestAt(j).pid => i = j
    /\ \A p \in asleep : \E i \in Places : RequestAt(i).pid = p

(* The driver never calls unblockProc for a process that is not asleep. *)
ClockNeverHalts == machine # "halted"

(* The sum a request was made with fits an int. *)
Fits(p) == due[p] <= MaxInt

(* A process wakes no earlier than the tick it asked for. *)
NeverEarly == [][\A p \in asleep : p \notin asleep' /\ Fits(p) => tickCount >= due[p]]_clockVars

(* A process whose tick has come may have to wait while the driver turns   *)
(* over requests that are not due, one in each tick: its place in the      *)
(* queue bounds how long.  Nobody oversleeps by more ticks than there are  *)
(* processes.                                                              *)
Overslept(p) == tickCount - due[p]
OversleepBounded ==
    \A p \in asleep : Fits(p) => Overslept(p) <= Cardinality(Sleepers)

-----------------------------------------------------------------------------
(* Refuted: the tick that is due wakes the sleeper, so that between ticks  *)
(* nobody sleeps who should be awake.                                      *)
WokenWhenDue == driver = "wait" => \A p \in asleep : tickCount < due[p]

(* Refuted: no process wakes before the time it asked for, however long    *)
(* that is.                                                                *)
NeverEarlyAtAll == [][\A p \in asleep : p \notin asleep' => tickCount >= due[p]]_clockVars
=============================================================================

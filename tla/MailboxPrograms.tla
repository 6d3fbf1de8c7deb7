-------------------------- MODULE MailboxPrograms --------------------------
(* The test programs of phase 2 run on the mailbox layer, with the system  *)
(* calls that test38 to test40 make.                                       *)
EXTENDS Mailbox, Programs

CREATE(n, size, id)   == [op |-> "create", n |-> n, size |-> size, want |-> {[rc |-> id, msg |-> NoMessage]}]
Ret(rc)               == {[rc |-> rc, msg |-> NoMessage]}
Got(msgs)             == {[rc |-> m.len, msg |-> m] : m \in msgs}
SEND(b, m, rc)        == [op |-> "send", box |-> b, msg |-> m, want |-> Ret(rc)]
CSEND(b, m, rc)       == [op |-> "condSend", box |-> b, msg |-> m, want |-> Ret(rc)]
RECV(b, max, want)    == [op |-> "recv", box |-> b, max |-> max, want |-> want]
CRECV(b, max, want)   == [op |-> "condRecv", box |-> b, max |-> max, want |-> want]
RELEASE(b, rc)        == [op |-> "release", box |-> b, want |-> Ret(rc)]
WAITDEVICE(dev, unit, want) == [op |-> "waitDevice", dev |-> dev, unit |-> unit, want |-> want]
TICK                  == [op |-> "tick", want |-> Ret(0)]
SYSCALL(number)       == [op |-> "syscall", number |-> number, want |-> {}]

MAX_SYSCALLS == 50
TermReady == 24833          \* 0x6101, the status waitDevice makes up

(* The system call table when no other layer has filled it. *)
init_syscall_table == [n \in 0..(MAX_SYSCALLS - 1) |-> "nullsys"]

(* syscall_handler halts on a number outside the table, and so does        *)
(* nullsys, the only handler there is.                                     *)
syscall_handler(p, number) ==
    /\ number \in DOMAIN init_syscall_table => init_syscall_table[number] = "nullsys"
    /\ machine' = "halted"
    /\ UNCHANGED <<boxes, queues, slots, waiting, status, control>>

(* waitDevice of every device: the clock waits, the terminals answer at    *)
(* once.                                                                   *)
waitAnyDevice(p, dev, unit) ==
    \/ dev = "clock" /\ unit = 0 /\ waitDevice(p)
    \/ /\ ~(dev = "clock" /\ unit = 0) /\ Enter(p, "waitDevice")
       /\ Fail(p, IF dev = "term" /\ unit = 1 THEN TermReady ELSE -1)

Perform(p) ==
    \/ Is(p, "create")     /\ MboxCreate(p, Ins(p).n, Ins(p).size)
    \/ Is(p, "release")    /\ MboxRelease(p, Ins(p).box)
    \/ Is(p, "send")       /\ MboxSend(p, Ins(p).box, Ins(p).msg)
    \/ Is(p, "condSend")   /\ MboxCondSend(p, Ins(p).box, Ins(p).msg)
    \/ Is(p, "recv")       /\ MboxRecv(p, Ins(p).box, Ins(p).max)
    \/ Is(p, "condRecv")   /\ MboxCondRecv(p, Ins(p).box, Ins(p).max)
    \/ Is(p, "waitDevice") /\ waitAnyDevice(p, Ins(p).dev, Ins(p).unit)
    \/ Is(p, "tick")       /\ clock_interrupt_handler(p)
    \/ Is(p, "syscall")    /\ syscall_handler(p, Ins(p).number)

Sleeping == [p \in Processes |-> status[p] = "blocked"]

(* One segment of p: the instruction is over when p is idle again. *)
Segment(p) ==
    /\ (pc[p] = "idle" /\ Perform(p)) \/ Resume(p)
    /\ IF pc'[p] = "idle" /\ machine' = "up"
         THEN Finish(p, result'[p] \in Ins(p).want)
         ELSE UNCHANGED <<test, ip, unexpected>>
    /\ UNCHANGED <<started, kids>>

PInit == Init /\ ProgInit
PNext == \E p \in Processes :
            /\ machine = "up" /\ Dispatched(p, Sleeping)
            /\ Segment(p) \/ (Family(p) /\ UNCHANGED vars)
PSpec == PInit /\ [][PNext]_<<vars, progVars>>

-----------------------------------------------------------------------------
(* Every call of every test program returns what the program expects, in   *)
(* every order in which processes of one priority may share the processor  *)
(* (phase2/testcases, code and recorded output).                           *)
ResultsAsExpected == unexpected = {}

(* Every program comes to the end it expects: it halts the machine exactly *)
(* when it makes a bad system call, and otherwise each of its processes    *)
(* quits and is joined, so that nobody is left asleep.                     *)
ProgramsEnd ==
    (machine # "up" \/ Stuck(Sleeping)) =>
        IF Suite[test].halts THEN machine = "halted" ELSE machine = "up" /\ AllEnded
=============================================================================

---------------------------- MODULE UserPrograms ----------------------------
(***************************************************************************)
(* User processes on phase 3 and phase 4a together: spawn, wait and        *)
(* terminate of phase3/phase3.c, its semaphores (Semaphore), Sleep         *)
(* (ClockDriver) and the terminals (Terminals), called through the         *)
(* wrappers of phase3_usermode.c and phase4_usermode.c by test programs    *)
(* (Programs).  A process is known by its number in the program, which     *)
(* stands for its pid.                                                     *)
(***************************************************************************)
EXTENDS Programs, ClockDriver, Terminals

CONSTANTS
    MAXSEMS,    \* 200 in the code
    MaxTyped    \* bound: the characters typed at a terminal

VARIABLES
    value, blocked, in_use, senders, receivers, pc, arg, result,  \* of Semaphore
    handle,     \* the semaphore each variable of the program holds
    mode,       \* the mode bit of each process
    exitStatus  \* external: what each process quit with

(* No program of the suites reaches the bound on the value of a semaphore. *)
S == INSTANCE Semaphore WITH Procs <- Users, Values <- {}, KernValues <- {},
        Indices <- {}, KernIndices <- {}, MaxValue <- 1000

semVars  == <<value, blocked, in_use, senders, receivers, pc, arg, result>>
userVars == <<handle, mode, exitStatus>>
familyVars == <<started, kids>>
allVars  == <<progVars, semVars, clockVars, termVars, userVars>>

(* The instructions are the calls of the wrappers. *)
SPAWN(k)            == [op |-> "spawn", kid |-> k]
WAIT(want)          == [op |-> "wait", want |-> want]
TERMINATE(status)   == [op |-> "terminate", status |-> status]
GETTIMEOFDAY        == [op |-> "external"]
GETPID              == [op |-> "external"]
DUMPPROCESSES       == [op |-> "external"]
SEMCREATE(v, variable, want) == [op |-> "semcreate", value |-> v, variable |-> variable, want |-> want]
SEMP(variable, rc)  == [op |-> "semp", variable |-> variable, want |-> {<<rc, variable>>}]
SEMV(variable, rc)  == [op |-> "semv", variable |-> variable, want |-> {<<rc, variable>>}]
SLEEP(seconds, rc)  == [op |-> "sleep", seconds |-> seconds, want |-> {rc}]
TERMREAD(u, size, want)   == [op |-> "termread", unit |-> u, size |-> size, want |-> want]
TERMWRITE(u, chars, want) == [op |-> "termwrite", unit |-> u, chars |-> chars, want |-> want]
HALT                == [op |-> "halt"]

(* Terminate does not return, so no program spawns after it; the times are *)
(* ints, and what is written is characters.                                *)
WellFormed(code, processes) ==
    /\ Len(code) \in Nat /\ DOMAIN code = 1..Len(code)
    /\ \A i \in DOMAIN code :
         /\ code[i].op = "spawn" =>
              code[i].kid \in processes /\ \A j \in 1..(i - 1) : code[j].op # "terminate"
         /\ code[i].op = "sleep" => code[i].seconds \in Int
         /\ code[i].op = "termwrite" => code[i].chars \in Seq(ControlWord)

ASSUME UserAssumption ==
    \A t \in Tests :
        LET processes == DOMAIN Suite[t].processes IN
        /\ processes \subseteq Users \cap Sleepers
        /\ \A p \in processes : WellFormed(Suite[t].processes[p].code, processes)

(* What Wait gives back: a child and its status, or that there is none. *)
Reaped(K, status) == {[pid |-> k, status |-> status, rc |-> 0] : k \in K}
NoChild == [pid |-> -2, status |-> 0, rc |-> -2]

-----------------------------------------------------------------------------
(* Who can run. *)
Sleeping == [p \in Processes |->
    p \in asleep \/ pc[p] # "idle" \/ phase[p] \in {"read", "lock", "status"}]
DriverPriority == 2
DriverRuns == driver # "wait"
Over == Ended(1)     \* testcase_main returns when it has joined process 1
Idle == ~DriverRuns /\ Stuck(Sleeping)

(* Faulty: the mode is left as it was. *)
trampolineKeeps(p) ==
    /\ mode[p] = "new"
    /\ mode' = [mode EXCEPT ![p] = "kernel"]
    /\ UNCHANGED <<progVars, semVars, clockVars, termVars, handle, exitStatus>>

(* trampoline, and the trampolines of the harnesses, leave kernel mode. *)
trampoline(p) ==
    /\ mode[p] = "new"
    /\ mode' = [mode EXCEPT ![p] = "user"]
    /\ UNCHANGED <<progVars, semVars, clockVars, termVars, handle, exitStatus>>

(* require_user_mode and CHECKMODE halt the machine when the caller is in  *)
(* kernel mode, and a program may halt it itself.                          *)
Halt(p) ==
    /\ mode[p] = "kernel" \/ (mode[p] = "user" /\ Is(p, "halt"))
    /\ machine' = "stopped"
    /\ UNCHANGED <<progVars, semVars, tickCount, clockMbox, driver, req, asleep, due,
                   termVars, userVars>>

-----------------------------------------------------------------------------
(* The system calls of phase 3. *)
sys_spawn(p) == Is(p, "spawn") /\ Spork(p) /\ UNCHANGED exitStatus

sys_wait(p) ==
    /\ Is(p, "wait")
    /\ \/ /\ kids[p] = <<>>
          /\ Finish(p, NoChild \in Ins(p).want)
          /\ UNCHANGED familyVars
       \/ /\ kids[p] # <<>>
          /\ \E kid \in Processes :
                /\ Reap(p, kid)
                /\ Finish(p, [pid |-> kid, status |-> exitStatus[kid], rc |-> 0] \in Ins(p).want)
    /\ UNCHANGED exitStatus

(* Faulty: the status is lost. *)
QuitZero(p) ==
    /\ exitStatus' = [exitStatus EXCEPT ![p] = 0]
    /\ ip' = [ip EXCEPT ![p] = Len(Code(p)) + 2]
    /\ UNCHANGED <<test, unexpected, familyVars>>
Quit(p) ==
    /\ exitStatus' = [exitStatus EXCEPT ![p] = Ins(p).status]
    /\ ip' = [ip EXCEPT ![p] = Len(Code(p)) + 2]
    /\ UNCHANGED <<test, unexpected, familyVars>>

(* Faulty: Terminate joins one child. *)
TerminateOne(p) ==
    /\ Is(p, "terminate")
    /\ exitStatus' = [exitStatus EXCEPT ![p] = Ins(p).status]
    /\ ip' = [ip EXCEPT ![p] = Len(Code(p)) + 2]
    /\ UNCHANGED <<test, unexpected>>
    /\ IF kids[p] = <<>> THEN UNCHANGED familyVars ELSE \E kid \in Processes : Reap(p, kid)

(* The children are joined one after another before the process quits;     *)
(* a function that returns is terminated by trampoline.                    *)
sys_terminate(p) ==
    /\ Is(p, "terminate")
    /\ \/ /\ kids[p] # <<>>
          /\ \E kid \in Processes : Reap(p, kid)
          /\ UNCHANGED <<test, ip, unexpected, exitStatus>>
       \/ kids[p] = <<>> /\ Quit(p)

FamilyCall(p) ==
    /\ \/ sys_spawn(p) \/ sys_wait(p) \/ sys_terminate(p)
       \/ /\ Is(p, "external")
          /\ Finish(p, TRUE) /\ UNCHANGED <<familyVars, exitStatus>>
    /\ UNCHANGED <<semVars, clockVars, termVars, handle, mode>>

(* A call on a semaphore is over for p unless it sleeps, and for whom it   *)
(* wakes.  SemCreate writes the variable: the index, or what it was given. *)
SemReturned(p) == {q \in Processes : pc'[q] = "idle" /\ (q = p \/ pc[q] # "idle")}
SemCall(p) ==
    LET made == IF result'[p] = 0 THEN S!First ELSE Ins(p).value IN
    /\ \/ /\ Is(p, "semcreate") /\ S!sys_semcreate(p, Ins(p).value)
          /\ handle' = [handle EXCEPT ![Ins(p).variable] = made]
       \/ Is(p, "semp") /\ S!sys_semp(p, handle[Ins(p).variable]) /\ UNCHANGED handle
       \/ Is(p, "semv") /\ S!sys_semv(p, handle[Ins(p).variable]) /\ UNCHANGED handle
    /\ FinishAll(SemReturned(p), LAMBDA q :
          <<result'[q], IF Is(q, "semcreate") THEN made ELSE Ins(q).variable>> \in Ins(q).want)
    /\ UNCHANGED <<familyVars, clockVars, termVars, mode, exitStatus>>

-----------------------------------------------------------------------------
(* The system calls of phase 4a, and its service processes. *)
SleepCall(p) ==
    /\ Is(p, "sleep") /\ sys_sleep(p, Ins(p).seconds)
    /\ FinishAll({p} \ asleep', LAMBDA q : -1 \in Ins(q).want)
    /\ UNCHANGED <<familyVars, semVars, termVars, userVars>>

(* The clock is slow: it ticks when nobody can run and somebody sleeps. *)
ClockStep ==
    /\ \/ Idle /\ asleep # {} /\ Tick
       \/ /\ \A p \in Processes : Ready(p, Sleeping) => Prio(p) >= DriverPriority
          /\ DriverStep
    /\ FinishAll(asleep \ asleep', LAMBDA q : 0 \in Ins(q).want)
    /\ UNCHANGED <<familyVars, semVars, termVars, userVars>>

(* The result of a read is the length, of a write 0. *)
TermReturned(p) == {q \in Processes : phase'[q] = "idle" /\ (q = p \/ phase[q] # "idle")}
TermExpected(q) ==
    (IF Is(q, "termread") THEN ReadLength(lineRead'[q], Ins(q).size) ELSE 0) \in Ins(q).want

TermCall(p) ==
    LET u == Ins(p).unit IN
    /\ \/ /\ Is(p, "termread") /\ TermArgsValid(u, TRUE, Ins(p).size)
          /\ sys_term_read(p, u)
          /\ FinishAll(TermReturned(p), TermExpected)
       \/ /\ Is(p, "termwrite") /\ TermArgsValid(u, TRUE, Len(Ins(p).chars))
          /\ sys_term_write(p, u, Ins(p).chars) \/ WriteChar(p, u) \/ WriteDone(p, u)
          /\ FinishAll(TermReturned(p), TermExpected)
       \/ /\ \/ Is(p, "termread") /\ ~TermArgsValid(u, TRUE, Ins(p).size)
             \/ Is(p, "termwrite") /\ ~TermArgsValid(u, TRUE, Len(Ins(p).chars))
          /\ Finish(p, -1 \in Ins(p).want) /\ UNCHANGED termVars
    /\ UNCHANGED <<familyVars, semVars, clockVars, userVars>>

TermInterrupt ==
    /\ Idle /\ \E u \in Units : Interrupt(u) /\ typed'[u] <= MaxTyped
    /\ FinishAll({q \in Processes : phase'[q] = "idle" /\ phase[q] # "idle"}, TermExpected)
    /\ UNCHANGED <<familyVars, semVars, clockVars, userVars>>

-----------------------------------------------------------------------------
UInit ==
    /\ ProgInit /\ S!Init /\ ClockInit /\ TermInit
    /\ handle = [s \in 0..(MAXSEMS - 1) |-> s]
    /\ mode = [p \in Processes |-> IF p \in Suite[test].kernel THEN "kernel" ELSE "new"]
    /\ exitStatus = [p \in Processes |-> 0]

UserStep(p) ==
    /\ Dispatched(p, Sleeping) /\ (DriverRuns => Prio(p) <= DriverPriority)
    /\ \/ trampoline(p) \/ Halt(p)
       \/ mode[p] = "user" /\ (FamilyCall(p) \/ SemCall(p) \/ SleepCall(p) \/ TermCall(p))

UNext ==
    /\ machine = "up" /\ ~Over
    /\ (\E p \in Processes : UserStep(p)) \/ ClockStep \/ TermInterrupt
USpec == UInit /\ [][UNext]_allVars

-----------------------------------------------------------------------------
(* Properties. *)

(* Every call of every test program gives what the program and its         *)
(* recorded output expect, in every order in which processes of one        *)
(* priority may share the processor (phase3/testcases, phase4a/testcases). *)
ResultsAsExpected == unexpected = {}

(* Every program comes to the end it expects: only one that makes a call   *)
(* in kernel mode, or halts itself, halts the machine, and no other stops  *)
(* before its first process has quit, so that nobody is left asleep on a   *)
(* semaphore, at a terminal that cannot interrupt, or in a wait.           *)
ProgramsEnd ==
    LET nothingToCome == Idle /\ asleep = {} /\ \A u \in Units : ~CanInterrupt(u) IN
    /\ machine # "up" => Suite[test].halts
    /\ machine = "up" /\ (nothingToCome \/ Over) => Over /\ ~Suite[test].halts

(* Terminate waits for a whole family: a process that has quit has not     *)
(* left a child running, nor one that nobody has reaped.                   *)
Children(p) == {Code(p)[i].kid : i \in {j \in DOMAIN Code(p) : Code(p)[j].op = "spawn"}}
NoOrphans ==
    \A p \in Processes : Ended(p) => kids[p] = <<>> /\ \A k \in Children(p) : Ended(k)
=============================================================================

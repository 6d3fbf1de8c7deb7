---------------------------- MODULE Phase3Tests -----------------------------
(* The test programs of phase3/testcases.  A loop that is repeated often   *)
(* in a program is repeated a few times here, and MAXSEMS is smaller; both *)
(* are computed by the program's own formula.                              *)
EXTENDS UserPrograms

Spawns(first, last) == [i \in 1..(last - first + 1) |-> SPAWN(first + i - 1)]
Waits(n, want)    == Repeat(n, WAIT(want))
WaitFor(k, status) == WAIT(Reaped({k}, status))
Create(variable)  == SEMCREATE(0, variable, {<<0, variable>>})
Exit(prio, status)  == Process(prio, <<TERMINATE(status)>>)
Start3(code)        == Process(3, code \o <<TERMINATE(0)>>)
CreatesAll(n) == [i \in 1..n |-> Create(i - 1)]

test00 == Program(<<Start3(<<SPAWN(2), WaitFor(2, 9)>>), Exit(5, 9)>>)
test01 == Program(<<Start3(<<SPAWN(2)>>), Exit(2, 9)>>)
test02 == Program(<<Start3(<<>>)>>)
test03 == Program(<<Start3(<<SPAWN(2)>>), Process(2, <<SPAWN(3), TERMINATE(9)>>), Exit(1, 7)>>)
test04 == Program(<<Start3([i \in 1..2 |-> SEMCREATE(0, 0, {<<0, i - 1>>})])>>)
test05 == Program(<<Start3([i \in 1..(MAXSEMS + 2) |->
             SEMCREATE(0, 0, {IF i <= MAXSEMS THEN <<0, i - 1>> ELSE <<-1, 0>>})])>>)

(* One process waits at a semaphore, or three, for another one's V. *)
test06 == Program(<<
    Start3(<<Create(0)>> \o Spawns(2, 3) \o Waits(2, Reaped({2, 3}, 9))),
    Process(2, <<SEMP(0, 0), TERMINATE(9)>>), Process(2, <<SEMV(0, 0), TERMINATE(9)>>)>>)
test07 == Program(<<Start3(<<Create(0)>> \o Spawns(2, 5))>>
    \o Repeat(3, Process(2, <<SEMP(0, 0), TERMINATE(9)>>))
    \o <<Process(2, Repeat(3, SEMV(0, 0)) \o <<TERMINATE(9)>>)>>)

test10 == Program(<<Start3(Spawns(2, 4) \o Waits(3, Reaped(2..4, 9)))>>
    \o Repeat(3, Process(1, Repeat(3, GETTIMEOFDAY) \o <<TERMINATE(9)>>)))
test13 == Program(<<Start3(Spawns(2, 4) \o Waits(3, Reaped(2..4, 9)))>>
    \o Repeat(3, Process(1, <<GETPID, TERMINATE(9)>>)))
test14 == Program(<<Start3(<<SPAWN(2), WaitFor(2, 32)>>),
                    Process(4, <<GETPID, TERMINATE(32)>>)>>)
test15 == Program(<<Start3(<<SPAWN(2), WaitFor(2, 32)>>), Exit(4, 32)>>)

(* Families of three generations, with and without a wait.  Process 2 is   *)
(* Child1 and process 3 Child2.                                            *)
Start3WithChild1 == Start3(<<SPAWN(2), WaitFor(2, 9)>>)
Child1(status)   == Process(4, <<GETPID, SPAWN(3), WaitFor(3, status), TERMINATE(9)>>)
Child2(last, waits, status) ==
    Process(2, <<GETPID>> \o Spawns(4, last) \o waits \o <<TERMINATE(status)>>)
test17 == Program(<<Start3WithChild1,
    Process(4, <<SPAWN(3), WaitFor(3, 9), SPAWN(4), WaitFor(4, 10), TERMINATE(9)>>),
    Exit(5, 9), Exit(5, 10)>>)
test18 == Program(<<Start3WithChild1,
    Process(4, <<GETPID, SPAWN(3), WaitFor(3, 10), SPAWN(7), WaitFor(7, 11), TERMINATE(9)>>),
    Child2(6, <<>>, 10)>> \o Repeat(4, Exit(5, 11)))
test19 == Program(<<Start3(Repeat(3, GETTIMEOFDAY))>>)
test21 == Program(<<Start3WithChild1, Child1(10), Child2(6, Waits(3, Reaped(4..6, 11)), 10)>>
    \o Repeat(3, Exit(5, 11)))
test22 == Program(<<Start3WithChild1, Child1(10), Child2(4, <<>>, 10), Exit(5, 11)>>)
test23 == Program(<<Start3WithChild1, Child1(10), Child2(5, <<>>, 10), Exit(5, 11), Exit(5, 11)>>)
test24 == Program(<<Start3WithChild1, Child1(10), Child2(6, <<>>, 10),
                    Exit(5, 11), Exit(5, 12), Exit(5, 13)>>)

(* A semaphore with three units, of which one is taken before the others   *)
(* start.                                                                  *)
test20 == Program(<<
    Start3(<<SEMCREATE(3, 0, {<<0, 0>>}), SEMP(0, 0)>> \o Spawns(2, 3)
           \o <<SEMV(0, 0)>> \o Waits(2, Reaped({2}, 9) \cup Reaped({3}, 10))),
    Process(2, Repeat(5, SEMP(0, 0)) \o <<TERMINATE(9)>>),
    Process(3, Repeat(5, SEMV(0, 0)) \o <<TERMINATE(10)>>)>>)

(* More children than one wait for; then a child that waits for its own. *)
test25 == Program(<<Start3WithChild1,
    Process(4, <<GETPID, SPAWN(3), WaitFor(3, 10), SPAWN(4), WaitFor(4, 50), TERMINATE(9)>>),
    Process(2, <<GETPID>> \o Spawns(6, 8) \o <<DUMPPROCESSES, TERMINATE(10)>>),
    Process(2, <<GETPID, SPAWN(5), WaitFor(5, 11), TERMINATE(50)>>), Exit(1, 11)>>
    \o Repeat(3, Process(3, <<GETPID, TERMINATE(11)>>)))

(* N times V, and P once more than that, each on a semaphore of its own. *)
N == 2
Adder(variable, status) == Process(4,
    <<SEMCREATE(0, variable, {<<0, 0>>, <<0, 1>>})>> \o Repeat(N, SEMV(variable, 0))
    \o Repeat(N + 1, SEMP(variable, 0)) \o <<TERMINATE(status)>>)
test26 == Program(<<
    Start3(Spawns(2, 4) \o <<WaitFor(2, 1), WaitFor(3, 2), WaitFor(4, 9)>>),
    Adder(0, 1), Adder(1, 2), Process(5, <<SEMV(0, 0), SEMV(1, 0), TERMINATE(9)>>)>>)

(* Whoever is woken counts on and wakes the worker of the smallest prime   *)
(* that divides the count; at the largest prime it wakes everybody.        *)
PRIMES == <<2, 3, 5, 7>>
Divisors(c) == {i \in 1..Len(PRIMES) : c % PRIMES[i] = 0}
WorkerOf(c) == CHOOSE i \in Divisors(c) : \A j \in Divisors(c) : i <= j
Workers == Len(PRIMES)
Turns(i) == SelectSeq([c \in 1..PRIMES[Workers] |-> c], LAMBDA c : c > 1 /\ WorkerOf(c) = i)
Turn(i, c) == <<SEMP(i - 1, 0)>> \o
    (IF c < PRIMES[Workers] THEN <<SEMV(WorkerOf(c + 1) - 1, 0)>> ELSE [j \in 1..(Workers - 1) |-> SEMV(j - 1, 0)])
WorkerThread(i) == Process(4,
    FlattenSeq([k \in 1..Len(Turns(i)) |-> Turn(i, Turns(i)[k])])
    \o (IF i < Workers THEN <<SEMP(i - 1, 0)>> ELSE <<>>) \o <<SEMV(i - 1, 0), TERMINATE(i + 9)>>)
AnyWorker == UNION {Reaped({i + 1}, i + 9) : i \in 1..Workers}
test27 == Program(<<
    Start3(CreatesAll(Workers) \o Spawns(2, Workers + 1) \o <<SEMV(0, 0)>>
           \o Waits(Workers, AnyWorker) \o [i \in 1..Workers |-> SEMP(i - 1, 0)])>>
    \o [i \in 1..Workers |-> WorkerThread(i)])

Phase3Suite == [
    test00 |-> test00, test01 |-> test01, test02 |-> test02, test03 |-> test03,
    test04 |-> test04, test05 |-> test05, test06 |-> test06, test07 |-> test07,
    test10 |-> test10, test13 |-> test13, test14 |-> test14, test15 |-> test15,
    test17 |-> test17, test18 |-> test18, test19 |-> test19, test20 |-> test20,
    test21 |-> test21, test22 |-> test22, test23 |-> test23, test24 |-> test24,
    test25 |-> test25, test26 |-> test26, test27 |-> test27]
=============================================================================

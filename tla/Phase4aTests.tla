---------------------------- MODULE Phase4aTests ----------------------------
(* The test programs of phase4a/testcases.  Of a text written there are    *)
(* the first characters and the new line: "A " and "Ch" in ASCII.          *)
EXTENDS UserPrograms

(* The harness starts start4 and a process that halts the machine when the *)
(* time is up.                                                             *)
testcase_timeout_proc(timeout) == Process(5, <<SLEEP(1, 0), SLEEP(timeout - 1, 0), HALT>>)
WithTimeout(timeout, processes) ==
    [Program(Append(processes, testcase_timeout_proc(timeout)))
        EXCEPT !.first = {1, Len(processes) + 1}]

Start4(code) == Process(3, code \o <<TERMINATE(0)>>)
Family4(n, statuses) ==
    Start4([i \in 1..n |-> SPAWN(i + 1)]
           \o Repeat(n, WAIT(UNION {Reaped(2..(n + 1), s) : s \in statuses})))

sleep00 == WithTimeout(10, <<Start4(<<GETTIMEOFDAY, SLEEP(5, 0), GETTIMEOFDAY>>)>>)
Sleeper(prio, seconds, status) ==
    Process(prio, <<GETTIMEOFDAY, SLEEP(seconds, 0), GETTIMEOFDAY, TERMINATE(status)>>)
sleep01 == WithTimeout(15, <<Family4(5, {1})>> \o Repeat(5, Sleeper(4, 10, 1)))

(* Kids sleepers, ten in the program, the last to start asking for the     *)
(* shortest time: they wake in the opposite order.                         *)
Kids == 4
sleep02 == WithTimeout(60,
    <<Start4([i \in 1..Kids |-> SPAWN(i + 1)]
             \o [i \in 1..Kids |-> WAIT(Reaped({Kids + 2 - i}, Kids + 10 - i))])>>
    \o [i \in 1..Kids |-> Sleeper(3, (Kids + 1 - i) * 3, 9 + i)])

(* Reads of a terminal, and requests that are refused. *)
Length == 1..MAXLINE
term03 == WithTimeout(10, <<
    Start4(<<SPAWN(2), WAIT(Reaped({2}, 4))>>),
    Process(4, <<TERMREAD(2, 80, Length), TERMINATE(4)>>)>>)
sleep04 == WithTimeout(10, <<
    Start4(<<TERMREAD(1, -13, {-1}), TERMREAD(5, 14, {-1}), TERMREAD(0, 0, {-1})>>)>>)
term05 == WithTimeout(10, <<Start4(<<TERMREAD(1, 13, {13})>>)>>)

LineA == <<{"send"}, {}, {"recv"}>>
Line  == <<{"send", "recv"}, {}, {"recv"}>>
Reader(prio, u, n) == Process(prio, Repeat(n, TERMREAD(u, MAXLINE, Length)) \o <<TERMINATE(0)>>)
Writer(prio, u, n) == Process(prio, Repeat(n, TERMWRITE(u, Line, {0})) \o <<TERMINATE(0)>>)
Copier(prio, u, n) == Process(prio,
    FlattenSeq(Repeat(n, <<TERMREAD(u, MAXLINE, Length), TERMWRITE(u, Line, {0})>>)) \o <<TERMINATE(0)>>)
ReadersAndWriters(n) == FlattenSeq([u \in 1..4 |-> <<Reader(2, u - 1, n), Writer(2, u - 1, n)>>])

term06 == WithTimeout(10, <<Family4(2, {1}),
    Process(4, <<TERMWRITE(1, LineA, {0}), TERMINATE(1)>>),
    Process(4, <<TERMREAD(1, MAXLINE, Length), TERMINATE(1)>>)>>)
term07 == WithTimeout(60, <<Family4(4, {1})>> \o Repeat(4,
    Process(4, [u \in 1..4 |-> TERMWRITE(u - 1, Line, {0})] \o <<TERMINATE(1)>>)))
term08 == WithTimeout(10, <<Family4(4, {0})>> \o [u \in 1..4 |-> Reader(4, u - 1, 1)])
term19 == WithTimeout(10, <<Family4(8, {0})>> \o ReadersAndWriters(1))
term20 == WithTimeout(60, <<Family4(8, {0})>> \o ReadersAndWriters(5))
term21 == WithTimeout(60, <<Family4(1, {0}), Copier(2, 0, 10)>>)
term22 == WithTimeout(60, <<Family4(4, {0})>> \o [u \in 1..4 |-> Copier(2, u - 1, 5)])

(* The programs that do not depend on a terminal, and those that do. *)
SleepSuite == [
    sleep00 |-> sleep00, sleep01 |-> sleep01, sleep02 |-> sleep02, sleep04 |-> sleep04]
TerminalSuite == [
    term03 |-> term03, term05 |-> term05, term06 |-> term06, term07 |-> term07,
    term08 |-> term08, term19 |-> term19, term20 |-> term20, term21 |-> term21,
    term22 |-> term22]
=============================================================================

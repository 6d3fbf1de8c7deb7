---------------------------- MODULE UserTestsMC -----------------------------
(* Phases 3 and 4a for model checking: their test programs, a few programs *)
(* more for what no test program does, and processes that call Sleep, or   *)
(* the terminals, at any time and in any order.                            *)
EXTENDS Phase3Tests, Phase4aTests

CONSTANTS
    MaxTick,    \* bound: the clock ticks this often for the free callers
    MaxWrites,  \* bound: they call TermWrite this often
    Callers,    \* the processes that call Sleep freely
    Typists     \* those that use the terminals freely

VARIABLE writes

(* Requests that are refused, and a wait for no child. *)
refused == Program(<<Start3(<<
    SEMCREATE(-1, 0, {<<-1, -1>>}), SEMP(0, -1), SEMV(0, -1), SLEEP(-1, -1), SLEEP(0, 0),
    TERMWRITE(4, Line, {-1}), WAIT({NoChild})>>)>>)

(* Calls in kernel mode. *)
kernelCall == [Halting(<<Start3(<<SLEEP(1, 0)>>), Process(4, <<GETPID>>)>>)
                 EXCEPT !.first = {1, 2}, !.kernel = {2}]
haltsItself == Halting(<<Start3(<<SLEEP(1, 0), HALT>>)>>)

(* A sleeper wakes a process in P, while a grandchild waits for another V. *)
MixedKids == Reaped({2}, 5) \cup Reaped({3}, 6) \cup Reaped({4}, 7)
mixed == Program(<<
    Start3(<<Create(0), Create(1), SPAWN(2), SPAWN(3), SPAWN(4),
                WAIT(MixedKids), SEMV(1, 0)>> \o Waits(2, MixedKids)),
    Process(4, <<SLEEP(1, 0), SEMV(0, 0), TERMINATE(5)>>),
    Process(4, <<SEMP(0, 0), TERMINATE(6)>>),
    Process(4, <<SPAWN(5), TERMINATE(7)>>),
    Process(5, <<SLEEP(2, 0), SEMP(1, 0), TERMINATE(8)>>)>>)

(* Two writers and a reader of terminal 0, which the letter "o" they write *)
(* has made to send and to interrupt.                                      *)
Letter == <<{"send", "recv", "xmit"}>>
terminal0 == Program(<<
    Start3(Spawns(2, 4) \o Waits(3, Reaped(2..4, 1))),
    Process(4, <<TERMWRITE(0, Letter, {0}), TERMINATE(1)>>),
    Process(4, <<TERMWRITE(0, Letter, {0}), TERMINATE(1)>>),
    Process(5, <<TERMREAD(0, 1, {1}), TERMREAD(0, 80, 1..80), TERMINATE(1)>>)>>)

(* The free callers are no processes of a program: one that takes no step  *)
(* stands by, so that nothing is asked of the program.                     *)
free == Halting(<<Process(1, <<HALT>>)>>)

OwnPrograms == [sleepers |-> free, terminals |-> free, refused |-> refused, kernelCall |-> kernelCall, haltsItself |-> haltsItself,
                mixed |-> mixed, terminal0 |-> terminal0]
AllSuites == Phase3Suite @@ SleepSuite @@ TerminalSuite @@ OwnPrograms
Everything == DOMAIN Phase3Suite \cup DOMAIN SleepSuite \cup DOMAIN OwnPrograms

-----------------------------------------------------------------------------
MCInit == UInit /\ writes = 0

FreeSleepers ==
    /\ Tick \/ DriverStep \/ \E p \in Callers, s \in Seconds : sys_sleep(p, s)
    /\ tickCount' <= MaxTick
    /\ UNCHANGED <<termVars, writes>>

Write ==
    /\ writes < MaxWrites /\ writes' = writes + 1
    /\ \E p \in Typists, u \in Units, chars \in Texts : sys_term_write(p, u, chars)
FreeTerminals ==
    /\ \/ Write
       \/ /\ \E p \in Typists, u \in Units :
                 sys_term_read(p, u) \/ WriteChar(p, u) \/ WriteDone(p, u)
          /\ UNCHANGED writes
       \/ /\ \E u \in Units : Interrupt(u) /\ typed'[u] <= MaxTyped
          /\ UNCHANGED writes
    /\ UNCHANGED clockVars

MCNext ==
    \/ test \notin {"sleepers", "terminals"} /\ UNext /\ UNCHANGED writes
    \/ test = "sleepers" /\ FreeSleepers /\ UNCHANGED <<progVars, semVars, userVars>>
    \/ test = "terminals" /\ FreeTerminals /\ UNCHANGED <<progVars, semVars, userVars>>
MCSpec == MCInit /\ [][MCNext]_<<allVars, writes>>

(* "h", which is no command at all, "o", which is all three, and the new   *)
(* line, which enables the interrupt on receipt.                           *)
SomeTexts == {<<{}>>, Letter \o <<{}>>, Letter \o <<{"recv"}>>}
FewSeconds == {-1, 0, 2, 64}
=============================================================================

------------------------------ MODULE Programs ------------------------------
(***************************************************************************)
(* The test programs of the repository, run on a model of the layer they   *)
(* test.  A program is a sequence of processes; process 1 is the one the   *)
(* harness starts and process k the k-th that is sporked.  A process has a *)
(* priority and a code, a sequence of instructions, each with the set of   *)
(* results the program and its recorded output expect of it; it quits at   *)
(* the end of its code, when it must have joined its children.  The        *)
(* process layer is libphase1.a, a binary, so it is external: the ready    *)
(* process of the best priority runs, processes of one priority share the  *)
(* processor in any order, and join returns the newest child that has      *)
(* quit.                                                                   *)
(***************************************************************************)
EXTENDS Integers, Sequences, SequencesExt

CONSTANTS Suite,    \* the programs, by name
          Tests     \* the names of those that are run

ASSUME SuiteAssumption == Tests \subseteq DOMAIN Suite

VARIABLES
    test,        \* the program that runs
    ip,          \* the next instruction of each process
    started,     \* the processes sporked so far
    kids,        \* the children of each process not yet joined, newest first
    unexpected   \* the instructions <<process, place>> that went wrong

progVars == <<test, ip, started, kids, unexpected>>

Process(prio, code) == [prio |-> prio, code |-> code]
Program(processes) == [processes |-> processes, halts |-> FALSE, first |-> {1}, kernel |-> {}]
Halting(processes) == [Program(processes) EXCEPT !.halts = TRUE]

SPORK(k) == [op |-> "spork", kid |-> k]
JOIN(K)  == [op |-> "join", want |-> K]           \* one of the processes K
SPORKS(first, last) == [i \in 1..(last - first + 1) |-> SPORK(first + i - 1)]
JOINS(seq) == [i \in 1..Len(seq) |-> JOIN({seq[i]})]
Repeat(n, instruction) == [i \in 1..n |-> instruction]

Joins == {"join", "wait", "terminate"}            \* the instructions that wait for a child
Processes == DOMAIN Suite[test].processes
Prio(p)   == Suite[test].processes[p].prio
Code(p)   == Suite[test].processes[p].code
Ended(p)  == ip[p] > Len(Code(p)) + 1
Ins(p)    == IF ip[p] <= Len(Code(p)) THEN Code(p)[ip[p]] ELSE [op |-> "quit"]
Is(p, op) == Ins(p).op = op

(* The newest child of p that has quit is at place i of its children.      *)
NewestQuit(p, i) ==
    /\ i \in DOMAIN kids[p] /\ Ended(kids[p][i])
    /\ \A j \in 1..(i - 1) : ~Ended(kids[p][j])

(* testcase_main of the harness sporks process 1, and some harnesses one   *)
(* more; the sentinel of the process layer is there already.               *)
ProgInit ==
    /\ test \in Tests
    /\ ip = [p \in Processes |-> 1]
    /\ started = Suite[test].first
    /\ kids = [p \in Processes |-> <<>>]
    /\ unexpected = {}

(* A process that is neither over, nor asleep in the layer below, nor in a *)
(* join before a child has quit.                                           *)
Ready(p, asleep) ==
    /\ p \in started /\ ~Ended(p) /\ ~asleep[p]
    /\ Ins(p).op \in Joins /\ kids[p] # <<>> => \E i \in DOMAIN kids[p] : Ended(kids[p][i])

Dispatched(p, asleep) ==
    /\ Ready(p, asleep)
    /\ \A q \in Processes : Ready(q, asleep) => Prio(p) <= Prio(q)

(* The instructions of the processes Q are over, as expected or not. *)
FinishAll(Q, Expected(_)) ==
    /\ ip' = [p \in Processes |-> IF p \in Q THEN ip[p] + 1 ELSE ip[p]]
    /\ unexpected' = unexpected \cup {<<p, ip[p]>> : p \in {q \in Q : ~Expected(q)}}
    /\ UNCHANGED test
Finish(p, expected) == FinishAll({p}, LAMBDA q : expected)

Spork(p) ==
    /\ started' = started \cup {Ins(p).kid}
    /\ kids' = [kids EXCEPT ![p] = <<Ins(p).kid>> \o @]
    /\ Finish(p, TRUE)

Reap(p, kid) ==
    /\ \E i \in DOMAIN kids[p] :
         /\ NewestQuit(p, i) /\ kid = kids[p][i]
         /\ kids' = [kids EXCEPT ![p] = RemoveAt(@, i)]
    /\ UNCHANGED started

Join(p) ==
    /\ kids[p] # <<>>
    /\ \E kid \in Processes : Reap(p, kid) /\ Finish(p, kid \in Ins(p).want)

Family(p) ==
    \/ Is(p, "spork") /\ Spork(p)
    \/ Is(p, "join") /\ Join(p)
    \/ Is(p, "quit") /\ Finish(p, kids[p] = <<>>) /\ UNCHANGED <<started, kids>>

Stuck(asleep) == \A p \in Processes : ~Ready(p, asleep)
AllEnded == \A p \in Processes : Ended(p)
=============================================================================

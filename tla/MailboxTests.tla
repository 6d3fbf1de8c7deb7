---------------------------- MODULE MailboxTests ----------------------------
(* The test programs of phase2/testcases.  They are written for            *)
(* MAXMBOX = 2000 and MAXSLOTS = 2500; a program that fills a table fills  *)
(* the smaller table of the instance, by the same formula.  Mailboxes 0 to *)
(* Reserved belong to the devices, so the first id a program gets is Box.  *)
EXTENDS MailboxPrograms

Box   == Reserved + 1
Reply == Box + 1

Text(n, what, i) == [len |-> n, ptr |-> <<what, i>>]
Hello       == Text(12, "hello there", 0)
Numbered(i) == Text(16, "hello there", i)
GoodBye(i)  == Text(13, "good-bye", i)
From(p)     == Text(17, "hello from", p)
HellosFrom(K) == {From(p) : p \in K}

Send5   == [i \in 1..5 |-> SEND(Box, Numbered(i), 0)]
Recv5   == [i \in 1..5 |-> RECV(Box, 100, Got({Numbered(i)}))]
Sender(prio, p, rc) == Process(prio, <<SEND(Box, From(p), rc)>>)
Releaser(prio)  == Process(prio, <<RELEASE(Box, 0)>>)
Pauser(prio)    == Process(prio, <<>>)
EmptySender(prio)   == Process(prio, <<SEND(Box, NoMessage, -1)>>)
EmptyReceiver(prio) == Process(prio, <<RECV(Box, 0, Ret(-1))>>)

test00 == Program(<<Process(3, <<>>)>>)
test01 == Program(<<Process(3, <<CREATE(10, 50, Box), CREATE(20, 30, Reply)>>)>>)
test02 == Program(<<Process(3, [i \in 1..(MAXMBOX + 3) |->
                       CREATE(10, 50, IF i <= MAXMBOX - Box THEN Reserved + i ELSE -1)])>>)
test03 == Program(<<Process(3, <<CREATE(10, 50, Box), SEND(Box, Hello, 0),
                                 RECV(Box, 80, Got({Hello}))>>)>>)

(* A send before and after the receive it is for. *)
SendAndReceive(sender, receiver, order) == Program(<<
    Process(3, <<CREATE(10, 50, Box)>> \o SPORKS(2, 3) \o JOINS(order)),
    Process(sender, <<SEND(Box, Hello, 0)>>),
    Process(receiver, <<RECV(Box, 100, Got({Hello}))>>)>>)
test04 == SendAndReceive(4, 5, <<2, 3>>)
test05 == SendAndReceive(5, 4, <<3, 2>>)

test06 == Program(<<
    Process(3, <<CREATE(5, 50, Box)>> \o SPORKS(2, 3) \o JOINS(<<2, 3>>)),
    Process(4, [i \in 1..6 |-> SEND(Box, Numbered(i), 0)]),
    Process(5, [i \in 1..6 |-> RECV(Box, 100, Got({Numbered(i)}))])>>)

(* Three senders find the mailbox full; the last process empties or        *)
(* releases it.                                                            *)
test07 == Program(<<
    Process(3, <<CREATE(5, 50, Box)>> \o SPORKS(2, 6) \o <<JOIN({2})>>
               \o Repeat(3, JOIN(3..5)) \o <<JOIN({6})>>),
    Process(3, Send5), Sender(4, 3, 0), Sender(4, 4, 0), Sender(4, 5, 0),
    Process(5, Recv5 \o Repeat(3, RECV(Box, 100, Got(HellosFrom(3..5)))))>>)
test08 == Program(<<
    Process(3, <<CREATE(5, 50, Box)>> \o SPORKS(2, 6) \o <<JOIN({2})>>
               \o Repeat(4, JOIN(3..6))),
    Process(3, Send5), Sender(4, 3, -1), Sender(4, 4, -1), Sender(4, 5, -1),
    Releaser(5)>>)
test09 == Program(<<
    Process(3, <<CREATE(5, 50, Box), SPORK(2), JOIN({2})>> \o SPORKS(3, 6)
               \o <<JOIN({6}), SPORK(7)>> \o Repeat(4, JOIN({3, 4, 5, 7}))),
    Process(3, Send5), Sender(4, 3, -1), Sender(4, 4, -1), Sender(4, 5, -1),
    Pauser(4), Releaser(5)>>)

test10 == Program(<<
    Process(3, <<CREATE(5, 50, Box)>> \o SPORKS(2, 6) \o JOINS(<<3, 2>>)
               \o Repeat(3, JOIN(4..6))),
    Process(1, Send5), Process(2, <<CSEND(Box, From(3), -2)>>),
    Sender(3, 4, 0), Process(4, <<CSEND(Box, From(5), -2)>>),
    Process(5, Recv5 \o <<RECV(Box, 100, Got({From(4)}))>>)>>)

(* Eight conditional sends, of which five fit; a pause until the other     *)
(* process has taken them; eight more.                                     *)
CSend8(Message(_)) == [i \in 1..8 |-> CSEND(Box, Message(i), IF i <= 5 THEN 0 ELSE -2)]
Take5(Message(_))  == [i \in 1..5 |-> RECV(Box, 100, Got({Message(i)}))]
CTake5(Message(_)) == [i \in 1..5 |-> CRECV(Box, 100, Got({Message(i)}))]
                      \o <<CRECV(Box, 100, Ret(-2))>>
TwoRounds(replySlots, sender, receiver, order, first, second) == Program(<<
    Process(3, <<CREATE(5, 50, Box), CREATE(replySlots, 50, Reply)>>
               \o SPORKS(2, 3) \o JOINS(order)),
    Process(sender, CSend8(Numbered) \o <<RECV(Reply, 0, Ret(0))>> \o CSend8(GoodBye)),
    Process(receiver, first \o <<SEND(Reply, NoMessage, 0)>> \o second)>>)
test11 == TwoRounds(0, 1, 2, <<3, 2>>, Take5(Numbered), Take5(GoodBye))
test12 == TwoRounds(0, 1, 2, <<3, 2>>, CTake5(Numbered), CTake5(GoodBye))
test43 == TwoRounds(1, 4, 5, <<2, 3>>, CTake5(Numbered), CTake5(GoodBye))

(* The clock interrupts the sentinel, the only process that can run. *)
SentinelPriority == 7
test13 == [Program(<<
    Process(3, <<SPORK(2), JOIN({2})>>),
    Process(4, Repeat(2, WAITDEVICE("clock", 0, Got({TickMsg})))),
    Process(SentinelPriority, <<TICK, TICK>>)>>) EXCEPT !.first = {1, 3}]
test14 == Program(<<
    Process(3, <<SPORK(2), JOIN({2})>>),
    Process(2, <<WAITDEVICE("term", 1, Ret(TermReady))>>)>>)
test34 == Program(<<Process(3, SPORKS(2, 5) \o Repeat(4, JOIN(2..5)))>> \o
    [unit \in 1..4 |-> Process(2, <<WAITDEVICE("term", unit - 1, Ret(TermReady))>>)])

(* Empty messages to some mailboxes: fill all of them, or all the slots. *)
Boxes(n, capacity) == [i \in 1..n |-> CREATE(capacity, 0, Reserved + i)]
Fill(boxCount, capacity, sends, op(_, _, _)) ==
    [k \in 1..(boxCount * sends) |->
       LET box == (k - 1) \div sends
           i   == ((k - 1) % sends) + 1
       IN  op(Box + box, NoMessage,
              IF i <= capacity /\ box * capacity + i <= MAXSLOTS THEN 0 ELSE -2)]
(* With 50 mailboxes of 55 slots for 2500 messages, here 4 of 6 for 20; the *)
(* first message refused ends the program.                                 *)
UntilFull(boxCount, capacity, op(_, _, _)) ==
    Program(<<Process(3, Boxes(boxCount, capacity)
                         \o SubSeq(Fill(boxCount, capacity, capacity, op), 1, MAXSLOTS + 1))>>)
test16 == UntilFull(4, 6, SEND)
test17 == UntilFull(4, 6, CSEND)
test18 == Program(<<Process(3, Boxes(3, 6) \o Fill(3, 6, 7, CSEND))>>)

(* Messages and sizes at the limits. *)
Alone(code) == Program(<<Process(3, code)>>)
test15 == Alone(<<CREATE(10, 5, Box), SEND(Box, Hello, -1)>>)
test35 == Alone(<<CREATE(10, 12, Box), SEND(Box, Hello, 0), RECV(Box, 80, Got({Hello}))>>)
test36 == Alone(<<CREATE(10, 11, Box), SEND(Box, Hello, -1)>>)
test37 == Alone(<<CREATE(10, MAX_MESSAGE + 1, -1), CREATE(10, -1, -1), CREATE(-1, 10, -1),
                  CREATE(2, 0, Box), SEND(Box, Text(0, "hello there", 0), 0),
                  SEND(Box, NoMessage, 0), RECV(Box, 0, Got({Text(0, "hello there", 0)})),
                  RECV(Box, 80, Ret(0))>>)
test41 == Alone(<<CREATE(10, 13, Box), SEND(Box, Hello, 0), RECV(Box, 11, Ret(-1))>>)
test42 == Program(<<
    Process(3, <<CREATE(1, 13, Box), SPORK(2), RECV(Box, 11, Ret(-1)), JOIN({2})>>),
    Process(4, <<SEND(Box, Hello, 0)>>)>>)
test44 == Program(<<
    Process(3, <<CREATE(MAXSLOTS - 1, 50, Box)>> \o SPORKS(2, 3) \o JOINS(<<2, 3>>)
      \o [i \in 1..4 |-> CRECV(Box, 30, Got({Numbered(i)}))]
      \o [i \in 1..10 |-> CSEND(Box, GoodBye(i), IF i <= 7 THEN 0 ELSE -2)]),
    Process(4, [i \in 1..10 |-> CSEND(Box, Numbered(i), 0)]),
    Process(5, [i \in 1..6 |-> CSEND(Box, Numbered(10 + i), 0)])>>)
test45 == Alone(<<CREATE(MAXSLOTS + 1, 50, -1)>>)
test27 == LET n == MAXMBOX - Box IN
    Alone([i \in 1..n |-> CREATE(10, 50, Reserved + i)]
          \o [i \in 1..6 |-> RELEASE(Reserved + i, 0)]
          \o [i \in 1..8 |-> CREATE(10, 50, IF i <= 6 THEN Reserved + i ELSE -1)])

(* System calls nobody handles, and a number past the table. *)
test38 == Halting(<<Process(3, <<SYSCALL(0)>>)>>)
test39 == Halting(<<Process(3, <<SYSCALL(MAX_SYSCALLS - 1)>>)>>)
test40 == Halting(<<Process(3, <<SYSCALL(MAX_SYSCALLS)>>)>>)

(* Rendezvous on a mailbox without slots. *)
Rendezvous(sender, receiver, order) == Program(<<
    Process(3, <<CREATE(0, 50, Box)>> \o SPORKS(2, 3) \o JOINS(order)),
    Process(sender, Repeat(2, SEND(Box, NoMessage, 0))),
    Process(receiver, Repeat(2, RECV(Box, 0, Ret(0))))>>)
test23 == Rendezvous(1, 2, <<3, 2>>)
test24 == Rendezvous(2, 1, <<3, 2>>)

(* A mailbox without slots released under three sleepers, by a process of  *)
(* a worse or a better priority; then used again.                          *)
ReleaseUnder(sleeper, releaser, last) == Program(<<
    Process(3, <<CREATE(0, 50, Box)>> \o SPORKS(2, 5) \o <<JOIN({5}), SPORK(6)>>
               \o Repeat(4, JOIN({2, 3, 4, 6})) \o last),
    sleeper, sleeper, sleeper, Pauser(sleeper.prio), Releaser(releaser)>>)
ReleaseLast(sleeper, last) == Program(<<
    Process(3, <<CREATE(0, 50, Box)>> \o SPORKS(2, 5) \o Repeat(4, JOIN(2..5)) \o last),
    sleeper, sleeper, sleeper, Releaser(5)>>)
test19 == ReleaseUnder(EmptySender(4), 5, <<>>)
test20 == ReleaseUnder(EmptyReceiver(4), 5, <<>>)
test21 == ReleaseUnder(EmptySender(2), 1, <<CSEND(Box, NoMessage, -1)>>)
test22 == ReleaseUnder(EmptyReceiver(2), 1, <<CRECV(Box, 20, Ret(-1))>>)
test30 == ReleaseLast(EmptyReceiver(4), <<CRECV(Box, 20, Ret(-1))>>)
test31 == ReleaseLast(EmptySender(4), <<CSEND(Box, NoMessage, -1)>>)
test46 == Program(<<
    Process(3, <<CREATE(0, 0, Box)>> \o SPORKS(2, 5) \o <<JOIN({5})>> \o Repeat(3, JOIN(2..4))),
    EmptyReceiver(4), EmptyReceiver(4), EmptyReceiver(4), Releaser(2)>>)

(* The same for a mailbox with slots. *)
Greeting == SEND(Box, Hello, -1)
(* The time slice decides which of the two processes of priority 3 takes   *)
(* the only slot.                                                          *)
FirstOrNot == [Greeting EXCEPT !.want = Ret(0) \cup Ret(-1)]
test32 == Program(<<
    Process(3, <<CREATE(1, 13, Box)>> \o SPORKS(2, 5) \o <<FirstOrNot>>
               \o Repeat(4, JOIN(2..5))),
    Process(5, <<Greeting>>), Process(4, <<Greeting>>), Process(3, <<FirstOrNot>>),
    Releaser(5)>>)
Nothing(max) == <<RECV(Box, max, Ret(-1))>>
test33 == Program(<<
    Process(3, <<CREATE(1, 13, Box)>> \o SPORKS(2, 5) \o Nothing(12)
               \o Repeat(4, JOIN(2..5))),
    Process(5, Nothing(12)), Process(4, Nothing(12)), Process(3, Nothing(12)), Releaser(5)>>)
AfterRelease == Repeat(5, RECV(Box, 20, Ret(-1))) \o
                [i \in 1..5 |-> SEND(Box, Numbered(i), -1)]
test28 == Program(<<
    Process(3, <<CREATE(5, 50, Box)>> \o SPORKS(2, 6) \o Repeat(5, JOIN(2..6))),
    Process(2, AfterRelease), Process(3, Nothing(20)), Process(4, Nothing(20)),
    Process(3, Nothing(20)), Releaser(5)>>)
test29 == Program(<<
    Process(3, <<SPORK(2), JOIN({2})>>),
    Process(5, <<CREATE(5, 50, Box)>> \o SPORKS(3, 7) \o <<JOIN({7}), SPORK(8)>>
               \o Repeat(5, JOIN({3, 4, 5, 6, 8}))),
    Process(4, AfterRelease), Process(3, Nothing(20)), Process(2, Nothing(20)),
    Process(1, Nothing(20)), Pauser(4), Releaser(1)>>)

(* Messages are to reach three sleepers in the order in which they fell    *)
(* asleep, whatever their priorities.                                      *)
test25 == Program(<<
    Process(3, <<CREATE(5, MAX_MESSAGE, Box), SPORK(2), JOIN({2})>>),
    Process(5, SPORKS(3, 6) \o JOINS(<<6, 5, 4, 3>>)),
    Process(4, <<RECV(Box, MAX_MESSAGE, Got({Numbered(1)}))>>),
    Process(3, <<RECV(Box, MAX_MESSAGE, Got({Numbered(2)}))>>),
    Process(2, <<RECV(Box, MAX_MESSAGE, Got({Numbered(3)}))>>),
    Process(1, [i \in 1..3 |-> SEND(Box, Numbered(i), 0)])>>)
test26 == Program(<<
    Process(3, <<CREATE(5, MAX_MESSAGE, Box), SPORK(2), JOIN({2})>>),
    Process(4, Send5 \o SPORKS(3, 6) \o Repeat(4, JOIN(3..6))),
    Process(4, <<SEND(Box, Numbered(6), 0)>>), Process(3, <<SEND(Box, Numbered(7), 0)>>),
    Process(2, <<SEND(Box, Numbered(8), 0)>>),
    Process(1, Recv5 \o [i \in 1..3 |-> RECV(Box, MAX_MESSAGE,
                                             Got({Numbered(<<7, 6, 8>>[i])}))])>>)

Phase2Tests == [
    test00 |-> test00, test01 |-> test01, test02 |-> test02, test03 |-> test03,
    test04 |-> test04, test05 |-> test05, test06 |-> test06, test07 |-> test07,
    test08 |-> test08, test09 |-> test09, test10 |-> test10, test11 |-> test11,
    test12 |-> test12, test13 |-> test13, test14 |-> test14, test15 |-> test15,
    test16 |-> test16, test17 |-> test17, test18 |-> test18, test19 |-> test19,
    test20 |-> test20, test21 |-> test21, test22 |-> test22, test23 |-> test23,
    test24 |-> test24, test25 |-> test25, test26 |-> test26, test27 |-> test27,
    test28 |-> test28, test29 |-> test29, test30 |-> test30, test31 |-> test31,
    test32 |-> test32, test33 |-> test33, test34 |-> test34, test35 |-> test35,
    test36 |-> test36, test37 |-> test37, test38 |-> test38, test39 |-> test39,
    test40 |-> test40, test41 |-> test41, test42 |-> test42, test43 |-> test43,
    test44 |-> test44, test45 |-> test45, test46 |-> test46]

(* Programs whose expectations the code does not meet. *)
FailingTests == {"test25", "test26", "test28", "test29", "test33", "test34"}
PassingTests == DOMAIN Phase2Tests \ FailingTests
=============================================================================

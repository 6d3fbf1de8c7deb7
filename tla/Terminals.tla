----------------------------- MODULE Terminals -----------------------------
(***************************************************************************)
(* TermRead, TermWrite and the terminal drivers of phase4a/phase4a.c.  The *)
(* device and the mailbox layer (libphase2.a) are external: an interrupt   *)
(* of a unit leaves one status for whoever comes first to waitDevice of    *)
(* that unit, be it a driver or a writer, and a status nobody has fetched  *)
(* makes the next one disappear.                                           *)
(***************************************************************************)
EXTENDS Integers, Sequences, FiniteSets, SequencesExt

CONSTANTS
    Users,               \* the processes that call TermRead and TermWrite
    MAX_TERMS,           \* 4, the number of terminals and of drivers
    MAXLINE,             \* 80
    MAX_LINES_BUFFERED,  \* 10
    Newlines,            \* the places of the new-line characters in what is typed
    Texts                \* what is written to a terminal

Units   == 0..(MAX_TERMS - 1)
Drivers == {-i : i \in 1..MAX_TERMS}     \* numbers no user process has

VARIABLES
    control,    \* external: the control word each unit was given last
    sending,    \* external: whether a unit is transmitting
    pending,    \* external: a status that waits for waitDevice, per unit
    waiters,    \* external: who is in waitDevice, per unit
    typed,      \* how many characters were typed at each unit, the lost ones left out
    currLine,   \* the line each driver is building, currLen its length
    lineReady,  \* lineReadyMbox: the lines of each unit
    readers,    \* external: who waits in MboxRecv of lineReadyMbox
    writers,    \* mutexMbox: the writers of each unit, those inside first
    text,       \* what each writer has still to write
    phase,      \* where each user is
    lineRead    \* the line each user has read last

deviceVars == <<control, sending>>
termVars == <<deviceVars, pending, waiters, typed, currLine, lineReady, readers,
              writers, text, phase, lineRead>>
queuesVars == <<lineReady, readers, lineRead>>

(* A typed character is known by its place; a written one by the low bits  *)
(* that are a command when it is taken for a control word: send a          *)
(* character (1), interrupt on receipt (2) and on transmission (4).        *)
Char == Units \X (Nat \ {0})
IsNewline(c) == c[2] \in Newlines
NoChar == <<>>
ControlWord == SUBSET {"send", "recv", "xmit"}

ASSUME TermAssumption ==
    /\ MAX_TERMS \in Nat \ {0} /\ MAXLINE \in Nat \ {0} /\ MAX_LINES_BUFFERED \in Nat
    /\ Users \cap Drivers = {} /\ Texts \subseteq Seq(ControlWord)

TermTypeOK ==
    /\ control \in [Units -> ControlWord] /\ sending \in [Units -> BOOLEAN]
    /\ pending \in [Units -> Seq(Char \cup {NoChar})] /\ \A u \in Units : Len(pending[u]) <= 1
    /\ waiters \in [Units -> Seq(Users \cup Drivers)]
    /\ typed \in [Units -> Nat]
    /\ currLine \in [Drivers -> Seq(Char)]
    /\ lineReady \in [Units -> Seq(Seq(Char))]
    /\ readers \in [Units -> Seq(Users)] /\ writers \in [Units -> Seq(Users)]
    /\ text \in [Users -> Seq(ControlWord)]
    /\ phase \in [Users -> {"idle", "read", "lock", "output", "status"}]
    /\ lineRead \in [Users -> Seq(Char)]

(* The unit of every driver: the argument each is given is NULL. *)
unit == 0

(* phase4_init, phase4_start_service_processes, and the drivers as far as  *)
(* their first waitDevice.                                                 *)
TermInit ==
    /\ control = [u \in Units |-> {}] /\ sending = [u \in Units |-> FALSE]
    /\ pending = [u \in Units |-> <<>>]
    /\ waiters = [u \in Units |-> IF u = unit THEN [i \in 1..MAX_TERMS |-> -i] ELSE <<>>]
    /\ typed = [u \in Units |-> 0]
    /\ currLine = [d \in Drivers |-> <<>>]
    /\ lineReady = [u \in Units |-> <<>>]
    /\ readers = [u \in Units |-> <<>>]
    /\ writers = [u \in Units |-> <<>>]
    /\ text = [p \in Users |-> <<>>]
    /\ phase = [p \in Users |-> "idle"]
    /\ lineRead = [p \in Users |-> <<>>]

-----------------------------------------------------------------------------
(* Both calls refuse a unit that does not exist, and a buffer that is NULL *)
(* or has no room.                                                         *)
TermArgsValid(u, buffer, size) == u \in Units /\ buffer /\ size > 0

(* MboxRecv of the line, if there is one. *)
sys_term_read(p, u) ==
    /\ phase[p] = "idle"
    /\ \/ /\ lineReady[u] # <<>>
          /\ lineReady' = [lineReady EXCEPT ![u] = Tail(@)]
          /\ lineRead' = [lineRead EXCEPT ![p] = Head(lineReady[u])]
          /\ UNCHANGED <<readers, phase>>
       \/ /\ lineReady[u] = <<>>
          /\ readers' = [readers EXCEPT ![u] = Append(@, p)]
          /\ phase' = [phase EXCEPT ![p] = "read"]
          /\ UNCHANGED <<lineReady, lineRead>>
    /\ UNCHANGED <<deviceVars, pending, waiters, typed, currLine, writers, text>>

(* What TermRead returns of a line: as much as the buffer takes. *)
ReadLength(line, size) == IF size < Len(line) THEN size ELSE Len(line)

(* Faulty: the mutex mailbox has two slots. *)
TwoSlots == 2
MutexSlots == 1

sys_term_write(p, u, chars) ==
    /\ phase[p] = "idle"
    /\ writers' = [writers EXCEPT ![u] = Append(@, p)]
    /\ text' = [text EXCEPT ![p] = chars]
    /\ phase' = [phase EXCEPT ![p] = IF Len(writers[u]) < MutexSlots THEN "output" ELSE "lock"]
    /\ UNCHANGED <<deviceVars, pending, waiters, typed, currLine, queuesVars>>

Inside(p, u) == phase[p] = "output" /\ Contains(writers[u], p)

(* One time round the loop: the character is the control word, and         *)
(* waitDevice takes a status that is there already or waits for one.       *)
WriteChar(p, u) ==
    /\ Inside(p, u) /\ text[p] # <<>>
    /\ control' = [control EXCEPT ![u] = Head(text[p])]
    /\ sending' = [sending EXCEPT ![u] = @ \/ "send" \in Head(text[p])]
    /\ text' = [text EXCEPT ![p] = Tail(@)]
    /\ \/ /\ pending[u] # <<>>
          /\ pending' = [pending EXCEPT ![u] = <<>>]
          /\ UNCHANGED <<waiters, phase>>
       \/ /\ pending[u] = <<>>
          /\ waiters' = [waiters EXCEPT ![u] = Append(@, p)]
          /\ phase' = [phase EXCEPT ![p] = "status"]
          /\ UNCHANGED pending
    /\ UNCHANGED <<typed, currLine, queuesVars, writers>>

(* Faulty: the mutex is not given back. *)
WriteDoneKeeps(p, u) ==
    /\ Inside(p, u) /\ text[p] = <<>>
    /\ phase' = [phase EXCEPT ![p] = "idle"]
    /\ UNCHANGED <<deviceVars, pending, waiters, typed, currLine, queuesVars, writers, text>>

(* MboxRecv of the mutex: the next writer, if any, has it. *)
HandOn(p, rest) ==
    [q \in Users |-> CASE q = p -> "idle"
                       [] Len(rest) >= MutexSlots /\ q = rest[MutexSlots] /\ phase[q] = "lock" -> "output"
                       [] OTHER -> phase[q]]
WriteDone(p, u) == \E i \in 1..Len(writers[u]) :
    LET rest == RemoveAt(writers[u], i) IN
    /\ writers[u][i] = p /\ phase[p] = "output" /\ text[p] = <<>>
    /\ writers' = [writers EXCEPT ![u] = rest]
    /\ phase' = HandOn(p, rest)
    /\ UNCHANGED <<deviceVars, pending, waiters, typed, currLine, queuesVars, text>>

-----------------------------------------------------------------------------
(* Faulty: the length is not reset when a line is complete; the limit of   *)
(* the buffer is not looked at.                                            *)
TermDriverKeeps(d, c) ==
    LET line == Append(currLine[d], c)
    IN  /\ currLine' = [currLine EXCEPT ![d] = line]
        /\ IF IsNewline(c) /\ Len(lineReady[unit]) < MAX_LINES_BUFFERED
             THEN lineReady' = [lineReady EXCEPT ![unit] = Append(@, line)]
             ELSE UNCHANGED lineReady
        /\ UNCHANGED <<readers, phase, lineRead>>
TermDriverUnbounded(d, c) ==
    /\ currLine' = [currLine EXCEPT ![d] = IF IsNewline(c) THEN <<>> ELSE Append(@, c)]
    /\ UNCHANGED <<lineReady, readers, phase, lineRead>>

(* What a driver does with a character: a complete line goes to the first  *)
(* reader, or into the mailbox, or nowhere when that is full.              *)
TermDriver(d, c) ==
    LET line == Append(currLine[d], c)
        complete == IsNewline(c) \/ Len(line) = MAXLINE
    IN  /\ currLine' = [currLine EXCEPT ![d] = IF complete THEN <<>> ELSE line]
        /\ \/ /\ complete /\ readers[unit] # <<>>
              /\ lineRead' = [lineRead EXCEPT ![Head(readers[unit])] = line]
              /\ phase' = [phase EXCEPT ![Head(readers[unit])] = "idle"]
              /\ readers' = [readers EXCEPT ![unit] = Tail(@)]
              /\ UNCHANGED lineReady
           \/ /\ complete /\ readers[unit] = <<>> /\ Len(lineReady[unit]) < MAX_LINES_BUFFERED
              /\ lineReady' = [lineReady EXCEPT ![unit] = Append(@, line)]
              /\ UNCHANGED <<readers, phase, lineRead>>
           \/ /\ ~complete \/ (readers[unit] = <<>> /\ Len(lineReady[unit]) >= MAX_LINES_BUFFERED)
              /\ UNCHANGED <<lineReady, readers, phase, lineRead>>

(* Faulty: statuses queue up. *)
DeliverQueued(u, c) ==
    /\ pending' = [pending EXCEPT ![u] = Append(@, c)]
    /\ UNCHANGED <<waiters, currLine, queuesVars, phase>>

(* A status of unit u, with a received character or without: it goes to    *)
(* the first in waitDevice.  A driver waits again at once.                 *)
Deliver(u, c) ==
    IF waiters[u] = <<>>
      THEN /\ pending' = [pending EXCEPT ![u] = IF @ = <<>> THEN <<c>> ELSE @]
           /\ UNCHANGED <<waiters, currLine, queuesVars, phase>>
      ELSE LET w == Head(waiters[u]) IN
           /\ IF w \in Drivers
                THEN /\ waiters' = [waiters EXCEPT ![u] = Append(Tail(@), w)]
                     /\ IF c = NoChar THEN UNCHANGED <<currLine, queuesVars, phase>>
                                      ELSE TermDriver(w, c)
                ELSE /\ waiters' = [waiters EXCEPT ![u] = Tail(@)]
                     /\ phase' = [phase EXCEPT ![w] = "output"]
                     /\ UNCHANGED <<currLine, queuesVars>>
           /\ UNCHANGED pending

(* One step of a unit: a character comes in, a transmission ends, or both. *)
(* With an interrupt that is enabled it gives a status; without, what came *)
(* in is lost.  Nothing in phase 4 enables any but the characters written. *)
Transmitted(u)  == sending[u] /\ "xmit" \in control[u]
CanInterrupt(u) == "recv" \in control[u] \/ Transmitted(u)
Interrupt(u) ==
    /\ sending' = [sending EXCEPT ![u] = FALSE]
    /\ \/ /\ CanInterrupt(u)
          /\ typed' = [typed EXCEPT ![u] = @ + 1]
          /\ Deliver(u, <<u, typed'[u]>>)
       \/ /\ Transmitted(u)
          /\ Deliver(u, NoChar) /\ UNCHANGED typed
       \/ /\ sending[u] /\ ~Transmitted(u)
          /\ UNCHANGED <<typed, pending, waiters, currLine, queuesVars, phase>>
    /\ UNCHANGED <<control, writers, text>>

(* Users who read and write as they like. *)
TermNext == \E u \in Units :
    \/ Interrupt(u)
    \/ \E p \in Users : \/ sys_term_read(p, u) \/ WriteChar(p, u) \/ WriteDone(p, u)
                        \/ \E chars \in Texts : sys_term_write(p, u, chars)
TermSpec == TermInit /\ [][TermNext]_termVars

-----------------------------------------------------------------------------
(* Properties. *)

(* At most one process is between taking and giving back the mutex of a    *)
(* unit: the characters of two TermWrites to one terminal do not mix.      *)
Writing(u) == {p \in Users : Contains(writers[u], p) /\ phase[p] \in {"output", "status"}}
OneWriter == \A u \in Units : Cardinality(Writing(u)) <= 1

(* A writer waits for the mutex only while another one holds it: it is     *)
(* handed on when a write is done.                                         *)
MutexHandedOn ==
    \A u \in Units : writers[u] # <<>> => Writing(u) # {}

(* A typed character is in one place at most: a status, the line of one    *)
(* driver, one line that is ready, or the last line that somebody has      *)
(* read.  None is read twice, by one reader or by two.                     *)
CharPlaces ==
    {<<"status", u, 0>> : u \in Units} \cup {<<"building", d, 0>> : d \in Drivers}
    \cup {<<"ready", u, k>> : u \in Units, k \in 1..MAX_LINES_BUFFERED}
    \cup {<<"read", p, 0>> : p \in Users}
Held(place) ==
    LET n == place[2] IN
    CASE place[1] = "status"   -> pending[n]
      [] place[1] = "building" -> currLine[n]
      [] place[1] = "ready"    -> IF place[3] <= Len(lineReady[n]) THEN lineReady[n][place[3]] ELSE <<>>
      [] place[1] = "read"     -> lineRead[n]
CharsOnce ==
    \A v \in CharPlaces : \A i \in 1..Len(Held(v)) :
    \A w \in CharPlaces : \A j \in 1..Len(Held(w)) :
        Held(v)[i] = Held(w)[j] /\ Held(v)[i] # NoChar => v = w /\ i = j

(* The buffer of a driver has room for one character more and the zero     *)
(* byte, no more lines are ready than the mailbox has slots, and nothing   *)
(* in a line comes after its new line.                                     *)
Whole(line) ==
    Len(line) <= MAXLINE /\ \A i \in 1..(Len(line) - 1) : ~IsNewline(line[i])
LineFits ==
    /\ \A d \in Drivers : Len(currLine[d]) < MAXLINE
    /\ \A u \in Units : /\ Len(lineReady[u]) <= MAX_LINES_BUFFERED
                       /\ \A k \in 1..Len(lineReady[u]) : Whole(lineReady[u][k])

-----------------------------------------------------------------------------
(* Refuted: a line that is ready is what was typed, from one new line to   *)
(* the next.  The drivers share unit 0, so each has every fourth           *)
(* character.                                                              *)
LinesWhole ==
    \A u \in Units, k \in 1..MAX_LINES_BUFFERED : k <= Len(lineReady[u]) =>
        LET line == lineReady[u][k] IN
        /\ line[1][2] = 1 \/ line[1][2] - 1 \in Newlines
        /\ \A i \in 2..Len(line) : line[i][2] = line[i - 1][2] + 1

(* Refuted: every terminal has a driver that waits for it. *)
DriverPerTerminal == \A u \in Units : u = unit
=============================================================================

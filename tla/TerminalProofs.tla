--------------------------- MODULE TerminalProofs ---------------------------
(***************************************************************************)
(* Proofs about the terminals, for any number of users and units, any      *)
(* texts, and lines and buffers of any length.  The mutex of a unit is     *)
(* held by the first of writers[u], who alone may be at the device; and    *)
(* whatever a step does to the characters, it moves whole sequences or     *)
(* appends a character that was not there.                                 *)
(***************************************************************************)
EXTENDS Terminals, FiniteSetTheorems, TLAPS

(* Nobody is at two places of the lists f. *)
Apart(f) ==
    \A u, v \in Units : \A i \in 1..Len(f[u]), j \in 1..Len(f[v]) :
        f[v][j] = f[u][i] => v = u /\ j = i

(* The first writer of a unit has the mutex, the others wait for it. *)
MutexQueue ==
    /\ Apart(writers)
    /\ \A u \in Units : \A i \in 1..Len(writers[u]) :
         phase[writers[u][i]] \in (IF i = 1 THEN {"output", "status"} ELSE {"lock"})

ReaderQueue ==
    Apart(readers) /\ \A u \in Units : \A i \in 1..Len(readers[u]) : phase[readers[u][i]] = "read"

(* A user in waitDevice is the one who has the mutex of that unit. *)
DeviceQueue ==
    \A u \in Units : \A i \in 1..Len(waiters[u]) : waiters[u][i] \in Users =>
        /\ writers[u] # <<>> /\ writers[u][1] = waiters[u][i] /\ phase[waiters[u][i]] = "status"
        /\ \A j \in 1..Len(waiters[u]) : waiters[u][j] = waiters[u][i] => j = i

(* The next character is not anywhere yet. *)
Typed(c) == c # NoChar => c[2] <= typed[c[1]]
Fresh == \A v \in CharPlaces : \A i \in 1..Len(Held(v)) : Typed(Held(v)[i])

LineOpen == \A d \in Drivers : \A i \in 1..Len(currLine[d]) : ~IsNewline(currLine[d][i])

TermInv == /\ TermTypeOK /\ MutexQueue /\ ReaderQueue /\ DeviceQueue
           /\ LineFits /\ LineOpen /\ Fresh /\ CharsOnce
-----------------------------------------------------------------------------
(* The constants. *)
LEMMA UnitsType ==
    /\ Units \subseteq Nat /\ unit \in Units /\ Drivers \subseteq Int
    /\ \A d \in Drivers : d \notin Users
    /\ MAXLINE \in Nat /\ MAXLINE > 0 /\ MAX_LINES_BUFFERED \in Nat
  <1>1. MAX_TERMS \in Nat /\ MAX_TERMS > 0 BY TermAssumption
  <1>2. \A d \in Drivers : d \notin Users BY TermAssumption
  <1> QED BY <1>1, <1>2, TermAssumption DEF Units, unit, Drivers

LEMMA NoCharIsNone ==
    /\ \A c \in Char : c # NoChar /\ c[1] \in Units /\ c[2] \in Nat /\ c[2] > 0
    /\ \A u \in Units, n \in Nat \ {0} :
         <<u, n>> \in Char /\ <<u, n>>[1] = u /\ <<u, n>>[2] = n /\ <<u, n>> # NoChar
  <1>1. \A u \in Units, n \in Nat \ {0} : <<u, n>> # <<>>
    <2> TAKE u \in Units, n \in Nat \ {0}
    <2>1. Len(<<u, n>>) = 2 /\ Len(<<>>) = 0 OBVIOUS
    <2> QED BY <2>1
  <1> QED BY <1>1 DEF Char, NoChar

(* The first element of a sequence taken off. *)
LEMMA FirstRemoved ==
    ASSUME NEW S, NEW s \in Seq(S), s # <<>>
    PROVE  RemoveAt(s, 1) = Tail(s)
  <1>1. SubSeq(s, 1, 1 - 1) = <<>> OBVIOUS
  <1>2. SubSeq(s, 1 + 1, Len(s)) = Tail(s) OBVIOUS
  <1>3. Tail(s) \in Seq(S) OBVIOUS
  <1>4. <<>> \o Tail(s) = Tail(s) BY <1>3
  <1> QED BY <1>1, <1>2, <1>4 DEF RemoveAt

LEMMA TailIs ==
    ASSUME NEW S, NEW s \in Seq(S), s # <<>>
    PROVE  /\ Tail(s) \in Seq(S) /\ Head(s) = s[1] /\ Head(s) \in S
           /\ Len(s) \in Nat /\ Len(s) > 0 /\ Len(Tail(s)) = Len(s) - 1
           /\ \A i \in 1..(Len(s) - 1) : i + 1 \in 1..Len(s) /\ Tail(s)[i] = s[i + 1]
  OBVIOUS

LEMMA AppendIs ==
    ASSUME NEW S, NEW s \in Seq(S), NEW x \in S
    PROVE  /\ Append(s, x) \in Seq(S) /\ Len(s) \in Nat /\ Len(Append(s, x)) = Len(s) + 1
           /\ Append(s, x)[Len(s) + 1] = x
           /\ \A i \in 1..Len(s) : Append(s, x)[i] = s[i]
  OBVIOUS

-----------------------------------------------------------------------------
(* What the steps do.  Of the writers of a unit the one inside comes first,*)
(* so WriteDone takes the head off and hands the mutex to the next.        *)
LEMMA InsideIsFirst ==
    ASSUME TermTypeOK, MutexQueue, NEW u \in Units, NEW i \in 1..Len(writers[u]),
           phase[writers[u][i]] = "output"
    PROVE  i = 1 /\ writers[u] # <<>> /\ writers[u] \in Seq(Users)
  BY DEF TermTypeOK, MutexQueue

Rest(u) == Tail(writers[u])
LEMMA WriteDoneIs ==
    ASSUME TermTypeOK, MutexQueue, NEW p \in Users, NEW u \in Units, WriteDone(p, u)
    PROVE  /\ writers[u] # <<>> /\ writers[u][1] = p /\ phase[p] = "output"
           /\ writers' = [writers EXCEPT ![u] = Rest(u)] /\ Rest(u) \in Seq(Users)
           /\ phase' \in [Users -> {"idle", "read", "lock", "output", "status"}]
           /\ \A q \in Users : phase'[q] = IF q = p THEN "idle"
                                 ELSE IF Rest(u) # <<>> /\ q = Rest(u)[1] THEN "output"
                                 ELSE phase[q]
           /\ UNCHANGED <<deviceVars, pending, waiters, typed, currLine, queuesVars, text>>
  <1> PICK i \in 1..Len(writers[u]) :
        /\ writers[u][i] = p /\ phase[p] = "output"
        /\ writers' = [writers EXCEPT ![u] = RemoveAt(writers[u], i)]
        /\ phase' = HandOn(p, RemoveAt(writers[u], i))
        /\ UNCHANGED <<deviceVars, pending, waiters, typed, currLine, queuesVars, text>>
    BY DEF WriteDone
  <1>1. i = 1 /\ writers[u] # <<>> /\ writers[u] \in Seq(Users) BY InsideIsFirst
  <1>2. RemoveAt(writers[u], i) = Rest(u) BY <1>1, FirstRemoved DEF Rest
  <1>3. Rest(u) \in Seq(Users) /\ \A q \in Users : Rest(u) # <<>> /\ q = Rest(u)[1] => phase[q] = "lock"
    <2>1. /\ Rest(u) \in Seq(Users) /\ Len(Rest(u)) = Len(writers[u]) - 1 /\ Len(writers[u]) \in Nat
          /\ \A k \in 1..(Len(writers[u]) - 1) : k + 1 \in 1..Len(writers[u]) /\ Rest(u)[k] = writers[u][k + 1]
      BY <1>1, TailIs DEF Rest
    <2>2. ASSUME Rest(u) # <<>> PROVE phase[Rest(u)[1]] = "lock"
      <3>1. Len(Rest(u)) > 0 BY <2>1, <2>2
      <3>2. 1 \in 1..(Len(writers[u]) - 1) BY <2>1, <3>1
      <3>3. 1 + 1 \in 1..Len(writers[u]) /\ Rest(u)[1] = writers[u][1 + 1] BY <2>1, <3>2
      <3> QED BY <3>3 DEF MutexQueue
    <2> QED BY <2>1, <2>2
  <1>4. ASSUME NEW q \in Users
        PROVE  phase'[q] = IF q = p THEN "idle"
                           ELSE IF Rest(u) # <<>> /\ q = Rest(u)[1] THEN "output" ELSE phase[q]
    <2>1. Len(Rest(u)) >= 1 <=> Rest(u) # <<>> BY <1>3
    <2> QED BY <1>2, <1>3, <2>1 DEF MutexSlots, HandOn
  <1>5. phase' \in [Users -> {"idle", "read", "lock", "output", "status"}]
    BY <1>4 DEF TermTypeOK, HandOn
  <1> QED BY <1>1, <1>2, <1>3, <1>4, <1>5

(* An interrupt that gives a status, with a character or without, is one   *)
(* that nobody waits for, or goes to a writer or to a driver.              *)
Received(u, c) ==
    /\ c # NoChar => c = <<u, typed[u] + 1>>
    /\ typed' = [typed EXCEPT ![u] = IF c = NoChar THEN typed[u] ELSE typed[u] + 1]
Stored(u, c) ==
    /\ pending' = [pending EXCEPT ![u] = IF pending[u] = <<>> THEN <<c>> ELSE pending[u]]
    /\ UNCHANGED <<waiters, currLine, queuesVars, phase>>
ToWriter(u) ==
    /\ waiters[u] # <<>> /\ Head(waiters[u]) \in Users
    /\ waiters' = [waiters EXCEPT ![u] = Tail(waiters[u])]
    /\ phase' = [phase EXCEPT ![Head(waiters[u])] = "output"]
    /\ UNCHANGED <<currLine, queuesVars, pending>>
ToDriver(u, c) ==
    /\ waiters[u] # <<>> /\ Head(waiters[u]) \in Drivers
    /\ waiters' = [waiters EXCEPT ![u] = Append(Tail(waiters[u]), Head(waiters[u]))]
    /\ UNCHANGED pending
    /\ \/ UNCHANGED <<currLine, queuesVars, phase>>
       \/ c # NoChar /\ TermDriver(Head(waiters[u]), c)

LEMMA DeliverIs ==
    ASSUME TermTypeOK, NEW u \in Units, NEW c \in Char \cup {NoChar}, Deliver(u, c)
    PROVE  Stored(u, c) \/ ToWriter(u) \/ ToDriver(u, c)
  <1>1. CASE waiters[u] = <<>> BY <1>1 DEF Deliver, Stored
  <1>2. CASE waiters[u] # <<>>
    <2>1. Head(waiters[u]) \in Users \cup Drivers BY <1>2, TailIs DEF TermTypeOK
    <2>2. CASE Head(waiters[u]) \in Drivers
      BY <1>2, <2>2 DEF Deliver, ToDriver
    <2>3. CASE Head(waiters[u]) \notin Drivers
      BY <1>2, <2>1, <2>3 DEF Deliver, ToWriter
    <2> QED BY <2>2, <2>3
  <1> QED BY <1>1, <1>2

LEMMA InterruptIs ==
    ASSUME TermTypeOK, NEW u \in Units, Interrupt(u)
    PROVE  /\ sending' \in [Units -> BOOLEAN] /\ UNCHANGED <<control, writers, text>>
           /\ \/ UNCHANGED <<typed, pending, waiters, currLine, queuesVars, phase>>
              \/ \E c \in Char \cup {NoChar} :
                    Received(u, c) /\ (Stored(u, c) \/ ToWriter(u) \/ ToDriver(u, c))
  <1>1. sending' \in [Units -> BOOLEAN] /\ UNCHANGED <<control, writers, text>>
    BY DEF Interrupt, TermTypeOK
  <1>2. typed \in [Units -> Nat] BY DEF TermTypeOK
  <1>3. CASE typed' = [typed EXCEPT ![u] = @ + 1] /\ Deliver(u, <<u, typed'[u]>>)
    <2> DEFINE c == <<u, typed[u] + 1>>
    <2>1. typed[u] + 1 \in Nat \ {0} /\ typed'[u] = typed[u] + 1 BY <1>2, <1>3
    <2>2. c \in Char /\ c # NoChar BY <2>1, NoCharIsNone
    <2>3. Deliver(u, c) BY <1>3, <2>1
    <2>4. Received(u, c)
      <3> HIDE DEF c
      <3>1. typed' = [typed EXCEPT ![u] = typed[u] + 1] BY <1>3
      <3>2. typed' = [typed EXCEPT ![u] = IF c = NoChar THEN typed[u] ELSE typed[u] + 1]
        BY <3>1, <2>2
      <3> QED BY <3>2 DEF Received, c
    <2>5. c \in Char \cup {NoChar} BY <2>2
    <2>6. Stored(u, c) \/ ToWriter(u) \/ ToDriver(u, c) BY <2>3, <2>5, DeliverIs
    <2> HIDE DEF c
    <2> QED BY <1>1, <2>4, <2>5, <2>6
  <1>4. CASE Deliver(u, NoChar) /\ UNCHANGED typed
    <2>1. Received(u, NoChar)
      <3>1. typed' = [typed EXCEPT ![u] = typed[u]] BY <1>2, <1>4
      <3> QED BY <3>1 DEF Received
    <2>2. Stored(u, NoChar) \/ ToWriter(u) \/ ToDriver(u, NoChar) BY <1>4, DeliverIs
    <2> QED BY <1>1, <2>1, <2>2
  <1>5. CASE UNCHANGED <<typed, pending, waiters, currLine, queuesVars, phase>>
    BY <1>1, <1>5
  <1> QED BY <1>3, <1>4, <1>5 DEF Interrupt

(* A driver adds the character to its line; a line that is complete goes   *)
(* to the first reader, into the mailbox, or nowhere.                      *)
Line(d, c) == Append(currLine[d], c)
Complete(d, c) == IsNewline(c) \/ Len(Line(d, c)) = MAXLINE
Added(d, c) ==
    /\ currLine' = [currLine EXCEPT ![d] = IF Complete(d, c) THEN <<>> ELSE Line(d, c)]
    /\ UNCHANGED <<lineReady, readers, phase, lineRead>>
ToReader(d, c) ==
    /\ Complete(d, c) /\ readers[unit] # <<>>
    /\ currLine' = [currLine EXCEPT ![d] = <<>>]
    /\ lineRead' = [lineRead EXCEPT ![Head(readers[unit])] = Line(d, c)]
    /\ phase' = [phase EXCEPT ![Head(readers[unit])] = "idle"]
    /\ readers' = [readers EXCEPT ![unit] = Tail(readers[unit])]
    /\ UNCHANGED lineReady
ToMailbox(d, c) ==
    /\ Complete(d, c) /\ Len(lineReady[unit]) < MAX_LINES_BUFFERED
    /\ currLine' = [currLine EXCEPT ![d] = <<>>]
    /\ lineReady' = [lineReady EXCEPT ![unit] = Append(lineReady[unit], Line(d, c))]
    /\ UNCHANGED <<readers, phase, lineRead>>

LEMMA TermDriverIs ==
    ASSUME NEW d, NEW c, TermDriver(d, c)
    PROVE  Added(d, c) \/ ToReader(d, c) \/ ToMailbox(d, c)
  BY DEF TermDriver, Added, ToReader, ToMailbox, Complete, Line

-----------------------------------------------------------------------------
(* Types. *)
LEMMA LineType ==
    ASSUME TermTypeOK, NEW d \in Drivers, NEW c \in Char
    PROVE  Line(d, c) \in Seq(Char) /\ currLine[d] \in Seq(Char)
  BY DEF TermTypeOK, Line

LEMMA ReadType ==
    ASSUME TermTypeOK, NEW p \in Users, NEW u \in Units, sys_term_read(p, u)
    PROVE  TermTypeOK'
  <1>1. UNCHANGED <<control, sending, pending, waiters, typed, currLine, writers, text>>
    BY DEF sys_term_read, deviceVars
  <1>2. lineReady \in [Units -> Seq(Seq(Char))] /\ readers \in [Units -> Seq(Users)]
    BY DEF TermTypeOK
  <1>3. CASE /\ lineReady[u] # <<>>
             /\ lineReady' = [lineReady EXCEPT ![u] = Tail(@)]
             /\ lineRead' = [lineRead EXCEPT ![p] = Head(lineReady[u])]
             /\ UNCHANGED <<readers, phase>>
    <2>1. Tail(lineReady[u]) \in Seq(Seq(Char)) /\ Head(lineReady[u]) \in Seq(Char)
      BY <1>2, <1>3, TailIs
    <2> QED BY <1>1, <1>3, <2>1 DEF TermTypeOK
  <1>4. CASE /\ readers' = [readers EXCEPT ![u] = Append(@, p)]
             /\ phase' = [phase EXCEPT ![p] = "read"]
             /\ UNCHANGED <<lineReady, lineRead>>
    <2>1. Append(readers[u], p) \in Seq(Users) BY <1>2
    <2> QED BY <1>1, <1>4, <2>1 DEF TermTypeOK
  <1> QED BY <1>3, <1>4 DEF sys_term_read

LEMMA WriteType ==
    ASSUME TermTypeOK, NEW p \in Users, NEW u \in Units, NEW chars \in Seq(ControlWord),
           sys_term_write(p, u, chars)
    PROVE  TermTypeOK'
  <1>1. UNCHANGED <<control, sending, pending, waiters, typed, currLine, lineReady, readers, lineRead>>
    BY DEF sys_term_write, deviceVars, queuesVars
  <1>2. chars \in Seq(ControlWord) /\ Append(writers[u], p) \in Seq(Users)
    BY TermAssumption DEF TermTypeOK
  <1>3. /\ writers' = [writers EXCEPT ![u] = Append(writers[u], p)]
        /\ text' = [text EXCEPT ![p] = chars]
        /\ \E next \in {"output", "lock"} : phase' = [phase EXCEPT ![p] = next]
    BY DEF sys_term_write
  <1> QED BY <1>1, <1>2, <1>3 DEF TermTypeOK

LEMMA WriteCharType ==
    ASSUME TermTypeOK, NEW p \in Users, NEW u \in Units, WriteChar(p, u)
    PROVE  TermTypeOK'
  <1>1. UNCHANGED <<typed, currLine, lineReady, readers, lineRead, writers>>
    BY DEF WriteChar, queuesVars
  <1>2. text[p] \in Seq(ControlWord) /\ text[p] # <<>> BY DEF WriteChar, TermTypeOK
  <1>3. Head(text[p]) \in ControlWord /\ Tail(text[p]) \in Seq(ControlWord) BY <1>2, TailIs
  <1>4. /\ control' = [control EXCEPT ![u] = Head(text[p])]
        /\ sending' = [sending EXCEPT ![u] = sending[u] \/ "send" \in Head(text[p])]
        /\ text' = [text EXCEPT ![p] = Tail(text[p])]
    BY DEF WriteChar
  <1>5. /\ control' \in [Units -> ControlWord] /\ text' \in [Users -> Seq(ControlWord)]
        /\ sending' \in [Units -> BOOLEAN]
    BY <1>3, <1>4 DEF TermTypeOK
  <1>6. CASE pending' = [pending EXCEPT ![u] = <<>>] /\ UNCHANGED <<waiters, phase>>
    <2>1. <<>> \in Seq(Char \cup {NoChar}) /\ Len(<<>>) = 0 OBVIOUS
    <2>2. /\ pending \in [Units -> Seq(Char \cup {NoChar})]
          /\ \A v \in Units : Len(pending[v]) <= 1
      BY DEF TermTypeOK
    <2>3. pending' \in [Units -> Seq(Char \cup {NoChar})] BY <1>6, <2>1, <2>2
    <2>4. ASSUME NEW v \in Units PROVE Len(pending'[v]) <= 1
      <3>1. pending'[v] = <<>> \/ pending'[v] = pending[v] BY <1>6, <2>2
      <3> QED BY <2>1, <2>2, <3>1
    <2>5. /\ waiters' \in [Units -> Seq(Users \cup Drivers)] /\ typed' \in [Units -> Nat]
          /\ currLine' \in [Drivers -> Seq(Char)] /\ lineReady' \in [Units -> Seq(Seq(Char))]
          /\ readers' \in [Units -> Seq(Users)] /\ writers' \in [Units -> Seq(Users)]
          /\ phase' \in [Users -> {"idle", "read", "lock", "output", "status"}]
          /\ lineRead' \in [Users -> Seq(Char)]
      BY <1>1, <1>6 DEF TermTypeOK
    <2> QED BY <1>5, <2>3, <2>4, <2>5 DEF TermTypeOK
  <1>7. CASE /\ waiters' = [waiters EXCEPT ![u] = Append(@, p)]
             /\ phase' = [phase EXCEPT ![p] = "status"] /\ UNCHANGED pending
    <2>1. Append(waiters[u], p) \in Seq(Users \cup Drivers) BY DEF TermTypeOK
    <2> QED BY <1>1, <1>5, <1>7, <2>1 DEF TermTypeOK
  <1> QED BY <1>6, <1>7 DEF WriteChar

LEMMA WriteDoneType ==
    ASSUME TermTypeOK, MutexQueue, NEW p \in Users, NEW u \in Units, WriteDone(p, u)
    PROVE  TermTypeOK'
  <1>1. /\ writers' = [writers EXCEPT ![u] = Rest(u)] /\ Rest(u) \in Seq(Users)
        /\ phase' \in [Users -> {"idle", "read", "lock", "output", "status"}]
        /\ UNCHANGED <<deviceVars, pending, waiters, typed, currLine, queuesVars, text>>
    BY WriteDoneIs
  <1> QED BY <1>1 DEF TermTypeOK, deviceVars, queuesVars

LEMMA DriverType ==
    ASSUME TermTypeOK, NEW d \in Drivers, NEW c \in Char, TermDriver(d, c)
    PROVE  /\ currLine' \in [Drivers -> Seq(Char)] /\ lineReady' \in [Units -> Seq(Seq(Char))]
           /\ readers' \in [Units -> Seq(Users)] /\ lineRead' \in [Users -> Seq(Char)]
           /\ phase' \in [Users -> {"idle", "read", "lock", "output", "status"}]
  <1>1. Line(d, c) \in Seq(Char) BY LineType
  <1>2. CASE Added(d, c) BY <1>1, <1>2 DEF Added, TermTypeOK
  <1>3. CASE ToReader(d, c)
    <2>1. Tail(readers[unit]) \in Seq(Users) /\ Head(readers[unit]) \in Users
      BY <1>3, UnitsType, TailIs DEF ToReader, TermTypeOK
    <2>2. /\ currLine \in [Drivers -> Seq(Char)] /\ lineReady \in [Units -> Seq(Seq(Char))]
          /\ readers \in [Units -> Seq(Users)] /\ lineRead \in [Users -> Seq(Char)]
          /\ phase \in [Users -> {"idle", "read", "lock", "output", "status"}]
      BY DEF TermTypeOK
    <2>3. /\ currLine' = [currLine EXCEPT ![d] = <<>>]
          /\ lineRead' = [lineRead EXCEPT ![Head(readers[unit])] = Line(d, c)]
          /\ phase' = [phase EXCEPT ![Head(readers[unit])] = "idle"]
          /\ readers' = [readers EXCEPT ![unit] = Tail(readers[unit])]
          /\ lineReady' = lineReady
      BY <1>3 DEF ToReader
    <2>4. <<>> \in Seq(Char) OBVIOUS
    <2>5. currLine' \in [Drivers -> Seq(Char)] BY <2>2, <2>3, <2>4
    <2>6. lineRead' \in [Users -> Seq(Char)] BY <2>2, <2>3, <1>1
    <2>7. readers' \in [Units -> Seq(Users)] BY <2>1, <2>2, <2>3
    <2>8. phase' \in [Users -> {"idle", "read", "lock", "output", "status"}] BY <2>2, <2>3
    <2> QED BY <2>2, <2>3, <2>5, <2>6, <2>7, <2>8
  <1>4. CASE ToMailbox(d, c)
    <2>1. /\ lineReady \in [Units -> Seq(Seq(Char))] /\ currLine \in [Drivers -> Seq(Char)]
          /\ unit \in Units /\ <<>> \in Seq(Char)
      BY UnitsType DEF TermTypeOK
    <2>2. Append(lineReady[unit], Line(d, c)) \in Seq(Seq(Char)) BY <1>1, <2>1
    <2>3. lineReady' \in [Units -> Seq(Seq(Char))] BY <1>4, <2>1, <2>2 DEF ToMailbox
    <2>4. currLine' \in [Drivers -> Seq(Char)] BY <1>4, <2>1 DEF ToMailbox
    <2> QED BY <1>4, <2>3, <2>4 DEF ToMailbox, TermTypeOK
  <1> QED BY <1>2, <1>3, <1>4, TermDriverIs

LEMMA InterruptType ==
    ASSUME TermTypeOK, NEW u \in Units, Interrupt(u)
    PROVE  TermTypeOK'
  <1>1. sending' \in [Units -> BOOLEAN] /\ UNCHANGED <<control, writers, text>>
    BY InterruptIs
  <1>2. CASE UNCHANGED <<typed, pending, waiters, currLine, queuesVars, phase>>
    BY <1>1, <1>2 DEF TermTypeOK, queuesVars
  <1>3. ASSUME NEW c \in Char \cup {NoChar}, Received(u, c),
               Stored(u, c) \/ ToWriter(u) \/ ToDriver(u, c)
        PROVE  TermTypeOK'
    <2>1. typed' \in [Units -> Nat] BY <1>3 DEF Received, TermTypeOK
    <2>2. CASE Stored(u, c)
      <3>1. /\ <<c>> \in Seq(Char \cup {NoChar}) /\ Len(<<c>>) <= 1
            /\ pending[u] \in Seq(Char \cup {NoChar}) /\ Len(pending[u]) <= 1
        BY DEF TermTypeOK
      <3>2. pending' \in [Units -> Seq(Char \cup {NoChar})] /\ \A v \in Units : Len(pending'[v]) <= 1
        BY <2>2, <3>1 DEF Stored, TermTypeOK
      <3> QED BY <1>1, <2>1, <2>2, <3>2 DEF Stored, TermTypeOK, queuesVars
    <2>3. CASE ToWriter(u)
      <3>1. Tail(waiters[u]) \in Seq(Users \cup Drivers)
        BY <2>3, TailIs DEF ToWriter, TermTypeOK
      <3> QED BY <1>1, <2>1, <2>3, <3>1 DEF ToWriter, TermTypeOK, queuesVars
    <2>4. CASE ToDriver(u, c)
      <3>1. /\ Tail(waiters[u]) \in Seq(Users \cup Drivers)
            /\ Append(Tail(waiters[u]), Head(waiters[u])) \in Seq(Users \cup Drivers)
        BY <2>4, TailIs DEF ToDriver, TermTypeOK
      <3>2. waiters' \in [Units -> Seq(Users \cup Drivers)] /\ UNCHANGED pending
        BY <2>4, <3>1 DEF ToDriver, TermTypeOK
      <3>3. /\ currLine' \in [Drivers -> Seq(Char)] /\ lineReady' \in [Units -> Seq(Seq(Char))]
            /\ readers' \in [Units -> Seq(Users)] /\ lineRead' \in [Users -> Seq(Char)]
            /\ phase' \in [Users -> {"idle", "read", "lock", "output", "status"}]
        BY <2>4, DriverType DEF ToDriver, TermTypeOK, queuesVars
      <3> QED BY <1>1, <2>1, <3>2, <3>3 DEF TermTypeOK
    <2> QED BY <1>3, <2>2, <2>3, <2>4
  <1> QED BY <1>2, <1>3, InterruptIs

-----------------------------------------------------------------------------
(* The queues.  Somebody new is appended to a list, or its head taken off. *)
OnNone(f, p) == \A v \in Units : \A j \in 1..Len(f[v]) : f[v][j] # p
Longer(f, g, u, p) ==
    \A v \in Units : \A j \in 1..Len(g[v]) :
        \/ j \in 1..Len(f[v]) /\ g[v][j] = f[v][j]
        \/ v = u /\ j = Len(f[u]) + 1 /\ g[v][j] = p
Shorter(f, g, u) ==
    \A v \in Units : \A j \in 1..Len(g[v]) :
        /\ g[v][j] # Head(f[u])
        /\ \/ v # u /\ j \in 1..Len(f[v]) /\ g[v][j] = f[v][j]
           \/ v = u /\ j + 1 \in 1..Len(f[u]) /\ g[v][j] = f[u][j + 1]

LEMMA ApartAppend ==
    ASSUME NEW f \in [Units -> Seq(Users)], Apart(f), NEW u \in Units, NEW p \in Users,
           OnNone(f, p), NEW g, g = [f EXCEPT ![u] = Append(f[u], p)]
    PROVE  Apart(g) /\ Longer(f, g, u, p)
  <1>1. \A v \in Units : v # u => g[v] = f[v] OBVIOUS
  <1>2. /\ Len(f[u]) \in Nat /\ Len(g[u]) = Len(f[u]) + 1 /\ g[u][Len(f[u]) + 1] = p
        /\ \A j \in 1..Len(f[u]) : g[u][j] = f[u][j]
    OBVIOUS
  <1>3. ASSUME NEW v \in Units, NEW j \in 1..Len(g[v])
        PROVE  \/ j \in 1..Len(f[v]) /\ g[v][j] = f[v][j]
               \/ v = u /\ j = Len(f[u]) + 1 /\ g[v][j] = p
    BY <1>1, <1>2
  <1>4. ASSUME NEW v \in Units, NEW w \in Units, NEW i \in 1..Len(g[v]), NEW j \in 1..Len(g[w]),
               g[w][j] = g[v][i]
        PROVE  w = v /\ j = i
    BY <1>3, <1>4 DEF Apart, OnNone
  <1> QED BY <1>3, <1>4 DEF Apart, Longer

LEMMA ApartTail ==
    ASSUME NEW f \in [Units -> Seq(Users)], Apart(f), NEW u \in Units, f[u] # <<>>,
           NEW g, g = [f EXCEPT ![u] = Tail(f[u])]
    PROVE  Apart(g) /\ Shorter(f, g, u)
  <1>1. \A v \in Units : v # u => g[v] = f[v] OBVIOUS
  <1>2. /\ Len(f[u]) \in Nat /\ Len(f[u]) > 0 /\ Len(g[u]) = Len(f[u]) - 1 /\ Head(f[u]) = f[u][1]
        /\ \A j \in 1..(Len(f[u]) - 1) : j + 1 \in 1..Len(f[u]) /\ g[u][j] = f[u][j + 1]
    BY TailIs
  <1>3. ASSUME NEW v \in Units, NEW j \in 1..Len(g[v])
        PROVE  \/ v # u /\ j \in 1..Len(f[v]) /\ g[v][j] = f[v][j]
               \/ v = u /\ j + 1 \in 1..Len(f[u]) /\ g[v][j] = f[u][j + 1]
    BY <1>1, <1>2
  <1>4. ASSUME NEW v \in Units, NEW j \in 1..Len(g[v])
        PROVE  g[v][j] # Head(f[u])
    <2>1. 1 \in 1..Len(f[u]) /\ j \in Nat /\ j > 0 BY <1>2
    <2> QED BY <1>2, <1>3, <2>1 DEF Apart
  <1>5. ASSUME NEW v \in Units, NEW w \in Units, NEW i \in 1..Len(g[v]), NEW j \in 1..Len(g[w]),
               g[w][j] = g[v][i]
        PROVE  w = v /\ j = i
    <2>1. i \in Nat /\ j \in Nat OBVIOUS
    <2>2. CASE v = u /\ w = u
      <3>1. i + 1 \in 1..Len(f[u]) /\ j + 1 \in 1..Len(f[u]) /\ f[u][j + 1] = f[u][i + 1]
        BY <1>3, <1>5, <2>2
      <3>2. j + 1 = i + 1 BY <3>1 DEF Apart
      <3> QED BY <2>1, <2>2, <3>2
    <2>3. CASE v = u /\ w # u
      <3>1. i + 1 \in 1..Len(f[u]) /\ j \in 1..Len(f[w]) /\ f[w][j] = f[u][i + 1]
        BY <1>3, <1>5, <2>3
      <3> QED BY <2>3, <3>1 DEF Apart
    <2>4. CASE v # u /\ w = u
      <3>1. i \in 1..Len(f[v]) /\ j + 1 \in 1..Len(f[u]) /\ f[u][j + 1] = f[v][i]
        BY <1>3, <1>5, <2>4
      <3> QED BY <2>4, <3>1 DEF Apart
    <2>5. CASE v # u /\ w # u
      <3>1. i \in 1..Len(f[v]) /\ j \in 1..Len(f[w]) /\ f[w][j] = f[v][i]
        BY <1>3, <1>5, <2>5
      <3> QED BY <3>1 DEF Apart
    <2> QED BY <2>2, <2>3, <2>4, <2>5
  <1> QED BY <1>3, <1>4, <1>5 DEF Apart, Shorter

Queues == MutexQueue /\ ReaderQueue /\ DeviceQueue

(* A step that leaves the lists alone and moves nobody out of a phase that *)
(* they are about.                                                         *)
LEMMA MutexFrame ==
    ASSUME TermTypeOK, MutexQueue, UNCHANGED writers,
           \A q \in Users : /\ phase[q] \in {"output", "status"} => phase'[q] \in {"output", "status"}
                            /\ phase[q] = "lock" => phase'[q] = "lock"
    PROVE  MutexQueue'
  <1>1. \A u \in Units : \A i \in 1..Len(writers[u]) : writers[u][i] \in Users BY DEF TermTypeOK
  <1>2. Apart(writers)' BY DEF MutexQueue, Apart
  <1>3. ASSUME NEW u \in Units, NEW i \in 1..Len(writers[u])
        PROVE  phase'[writers[u][i]] \in (IF i = 1 THEN {"output", "status"} ELSE {"lock"})
    BY <1>1 DEF MutexQueue
  <1> QED BY <1>2, <1>3 DEF MutexQueue

LEMMA ReaderFrame ==
    ASSUME TermTypeOK, ReaderQueue, UNCHANGED readers,
           \A q \in Users : phase[q] = "read" => phase'[q] = "read"
    PROVE  ReaderQueue'
  <1>1. \A u \in Units : \A i \in 1..Len(readers[u]) : readers[u][i] \in Users BY DEF TermTypeOK
  <1>2. Apart(readers)' BY DEF ReaderQueue, Apart
  <1>3. ASSUME NEW u \in Units, NEW i \in 1..Len(readers[u])
        PROVE  phase'[readers[u][i]] = "read"
    BY <1>1 DEF ReaderQueue
  <1> QED BY <1>2, <1>3 DEF ReaderQueue

LEMMA DeviceFrame ==
    ASSUME TermTypeOK, DeviceQueue, UNCHANGED waiters,
           \A u \in Units : writers[u] # <<>> /\ phase[writers[u][1]] = "status" =>
              writers'[u] # <<>> /\ writers'[u][1] = writers[u][1],
           \A q \in Users : phase[q] = "status" => phase'[q] = "status"
    PROVE  DeviceQueue'
  <1>1. ASSUME NEW u \in Units, NEW i \in 1..Len(waiters[u]), waiters[u][i] \in Users
        PROVE  /\ writers'[u] # <<>> /\ writers'[u][1] = waiters[u][i]
               /\ phase'[waiters[u][i]] = "status"
               /\ \A j \in 1..Len(waiters[u]) : waiters[u][j] = waiters[u][i] => j = i
    BY <1>1 DEF DeviceQueue
  <1> QED BY <1>1 DEF DeviceQueue

LEMMA ReadQueues ==
    ASSUME TermTypeOK, Queues, NEW p \in Users, NEW u \in Units, sys_term_read(p, u)
    PROVE  Queues'
  <1>1. /\ phase[p] = "idle" /\ UNCHANGED <<waiters, writers>>
        /\ readers \in [Units -> Seq(Users)] /\ readers[u] \in Seq(Users)
        /\ phase \in [Users -> {"idle", "read", "lock", "output", "status"}]
    BY DEF sys_term_read, TermTypeOK
  <1>2. CASE UNCHANGED <<readers, phase>>
    BY <1>1, <1>2, MutexFrame, ReaderFrame, DeviceFrame DEF Queues
  <1>3. CASE readers' = [readers EXCEPT ![u] = Append(@, p)] /\ phase' = [phase EXCEPT ![p] = "read"]
    <2>1. \A q \in Users : phase'[q] = IF q = p THEN "read" ELSE phase[q] BY <1>1, <1>3
    <2>2. MutexQueue' BY <1>1, <2>1, MutexFrame DEF Queues
    <2>3. DeviceQueue' BY <1>1, <2>1, DeviceFrame DEF Queues
    <2>4. OnNone(readers, p) BY <1>1 DEF Queues, ReaderQueue, OnNone
    <2>5. Apart(readers') /\ Longer(readers, readers', u, p)
      <3>1. Apart(readers) BY DEF Queues, ReaderQueue
      <3>2. readers' = [readers EXCEPT ![u] = Append(readers[u], p)] BY <1>3
      <3> QED BY <1>1, <2>4, <3>1, <3>2, ApartAppend
    <2>6. ASSUME NEW v \in Units, NEW j \in 1..Len(readers'[v]) PROVE phase'[readers'[v][j]] = "read"
      <3>1. \A k \in 1..Len(readers[v]) : readers[v][k] \in Users /\ phase[readers[v][k]] = "read"
        <4>1. readers[v] \in Seq(Users) BY <1>1
        <4> QED BY <4>1 DEF Queues, ReaderQueue
      <3> QED BY <2>1, <2>5, <3>1 DEF Longer
    <2> QED BY <2>2, <2>3, <2>5, <2>6 DEF Queues, ReaderQueue, Apart
  <1> QED BY <1>2, <1>3 DEF sys_term_read

LEMMA WriteQueues ==
    ASSUME TermTypeOK, Queues, NEW p \in Users, NEW u \in Units, NEW chars \in Seq(ControlWord),
           sys_term_write(p, u, chars)
    PROVE  Queues'
  <1>1. /\ phase[p] = "idle" /\ UNCHANGED <<waiters, readers>>
        /\ writers \in [Units -> Seq(Users)] /\ writers[u] \in Seq(Users)
        /\ phase \in [Users -> {"idle", "read", "lock", "output", "status"}]
        /\ writers' = [writers EXCEPT ![u] = Append(writers[u], p)]
        /\ phase' = [phase EXCEPT ![p] = IF Len(writers[u]) < 1 THEN "output" ELSE "lock"]
    BY DEF sys_term_write, TermTypeOK, queuesVars, MutexSlots
  <1>2. \A q \in Users : q # p => phase'[q] = phase[q] BY <1>1
  <1>3. phase'[p] = IF Len(writers[u]) < 1 THEN "output" ELSE "lock" BY <1>1
  <1>4. ReaderQueue' BY <1>1, <1>2, ReaderFrame DEF Queues
  <1>5. DeviceQueue'
    <2>1. ASSUME NEW v \in Units, writers[v] # <<>>
          PROVE  writers'[v] # <<>> /\ writers'[v][1] = writers[v][1]
      <3>1. writers[v] \in Seq(Users) /\ Len(writers[v]) > 0 BY <1>1, <2>1
      <3>2. CASE v # u BY <1>1, <2>1, <3>2
      <3>3. CASE v = u
        <4>1. writers'[v] = Append(writers[v], p) BY <1>1, <3>3
        <4>2. Append(writers[v], p)[1] = writers[v][1] /\ Len(Append(writers[v], p)) > 0
          BY <3>1, AppendIs
        <4> QED BY <4>1, <4>2
      <3> QED BY <3>2, <3>3
    <2> QED BY <1>1, <1>2, <2>1, DeviceFrame DEF Queues
  <1>6. OnNone(writers, p) BY <1>1 DEF Queues, MutexQueue, OnNone
  <1>7. Apart(writers') /\ Longer(writers, writers', u, p)
    <2>1. Apart(writers) BY DEF Queues, MutexQueue
    <2>2. writers' = [writers EXCEPT ![u] = Append(writers[u], p)] BY <1>1
    <2> QED BY <1>1, <1>6, <2>1, <2>2, ApartAppend
  <1>8. ASSUME NEW v \in Units, NEW j \in 1..Len(writers'[v])
        PROVE  phase'[writers'[v][j]] \in (IF j = 1 THEN {"output", "status"} ELSE {"lock"})
    <2>1. CASE j \in 1..Len(writers[v]) /\ writers'[v][j] = writers[v][j]
      <3>1. /\ writers[v][j] \in Users /\ writers[v][j] # p
            /\ phase[writers[v][j]] \in (IF j = 1 THEN {"output", "status"} ELSE {"lock"})
        <4>1. writers[v] \in Seq(Users) BY <1>1
        <4> QED BY <1>6, <2>1, <4>1 DEF Queues, MutexQueue, OnNone
      <3> QED BY <1>2, <2>1, <3>1
    <2>2. CASE j = Len(writers[u]) + 1 /\ writers'[v][j] = p
      <3>1. Len(writers[u]) \in Nat BY <1>1
      <3>2. Len(writers[u]) < 1 <=> j = 1 BY <2>2, <3>1
      <3> QED BY <1>3, <2>2, <3>2
    <2> QED BY <1>7, <2>1, <2>2 DEF Longer
  <1> QED BY <1>4, <1>5, <1>7, <1>8 DEF Queues, MutexQueue, Apart

(* Nobody but the writer inside can be at the device beside the drivers.   *)
LEMMA NobodyElse ==
    ASSUME TermTypeOK, Queues, NEW p \in Users, NEW u \in Units, Inside(p, u)
    PROVE  /\ writers[u] # <<>> /\ writers[u][1] = p
           /\ \A i \in 1..Len(waiters[u]) : waiters[u][i] \notin Users
  <1>1. PICK i \in 1..Len(writers[u]) : writers[u][i] = p BY DEF Inside, Contains
  <1>2. i = 1 /\ writers[u] # <<>> BY <1>1, InsideIsFirst DEF Queues, Inside
  <1>3. phase[p] # "status" BY DEF Inside
  <1> QED BY <1>1, <1>2, <1>3 DEF Queues, DeviceQueue

LEMMA WriteCharQueues ==
    ASSUME TermTypeOK, Queues, NEW p \in Users, NEW u \in Units, WriteChar(p, u)
    PROVE  Queues'
  <1>1. /\ UNCHANGED <<readers, writers>> /\ Inside(p, u) /\ phase[p] = "output"
        /\ phase \in [Users -> {"idle", "read", "lock", "output", "status"}]
        /\ waiters \in [Units -> Seq(Users \cup Drivers)]
    BY DEF WriteChar, TermTypeOK, queuesVars, Inside
  <1>2. CASE UNCHANGED <<waiters, phase>>
    BY <1>1, <1>2, MutexFrame, ReaderFrame, DeviceFrame DEF Queues
  <1>3. CASE waiters' = [waiters EXCEPT ![u] = Append(@, p)] /\ phase' = [phase EXCEPT ![p] = "status"]
    <2>1. \A q \in Users : phase'[q] = IF q = p THEN "status" ELSE phase[q] BY <1>1, <1>3
    <2>2. MutexQueue' BY <1>1, <2>1, MutexFrame DEF Queues
    <2>3. ReaderQueue' BY <1>1, <2>1, ReaderFrame DEF Queues
    <2>4. /\ writers[u] # <<>> /\ writers[u][1] = p
          /\ \A i \in 1..Len(waiters[u]) : waiters[u][i] \notin Users
      BY <1>1, NobodyElse
    <2>5. ASSUME NEW v \in Units, NEW i \in 1..Len(waiters'[v]), waiters'[v][i] \in Users
          PROVE  /\ writers[v] # <<>> /\ writers[v][1] = waiters'[v][i]
                 /\ phase'[waiters'[v][i]] = "status"
                 /\ \A j \in 1..Len(waiters'[v]) : waiters'[v][j] = waiters'[v][i] => j = i
      <3>1. CASE v # u
        <4>1. waiters'[v] = waiters[v] BY <1>1, <1>3, <3>1
        <4> QED BY <2>1, <2>5, <4>1 DEF Queues, DeviceQueue
      <3>2. CASE v = u
        <4>1. waiters'[v] = Append(waiters[u], p) /\ waiters[u] \in Seq(Users \cup Drivers)
          BY <1>1, <1>3, <3>2
        <4>2. /\ Len(waiters'[v]) = Len(waiters[u]) + 1 /\ Len(waiters[u]) \in Nat
              /\ waiters'[v][Len(waiters[u]) + 1] = p
              /\ \A j \in 1..Len(waiters[u]) : waiters'[v][j] = waiters[u][j]
          BY <4>1, AppendIs
        <4>3. \A j \in 1..Len(waiters'[v]) : j \in 1..Len(waiters[u]) \/ j = Len(waiters[u]) + 1
          BY <4>2
        <4>4. i = Len(waiters[u]) + 1 /\ waiters'[v][i] = p BY <2>4, <2>5, <4>2, <4>3
        <4>5. \A j \in 1..Len(waiters'[v]) : waiters'[v][j] = p => j = i
          BY <2>4, <4>2, <4>3, <4>4
        <4> QED BY <2>1, <2>4, <3>2, <4>4, <4>5
      <3> QED BY <3>1, <3>2
    <2>6. DeviceQueue' BY <1>1, <2>5 DEF DeviceQueue
    <2> QED BY <2>2, <2>3, <2>6 DEF Queues
  <1> QED BY <1>2, <1>3 DEF WriteChar

LEMMA WriteDoneQueues ==
    ASSUME TermTypeOK, Queues, NEW p \in Users, NEW u \in Units, WriteDone(p, u)
    PROVE  Queues'
  <1>1. /\ writers[u] # <<>> /\ writers[u][1] = p /\ phase[p] = "output"
        /\ writers' = [writers EXCEPT ![u] = Rest(u)] /\ Rest(u) \in Seq(Users)
        /\ \A q \in Users : phase'[q] = IF q = p THEN "idle"
                              ELSE IF Rest(u) # <<>> /\ q = Rest(u)[1] THEN "output" ELSE phase[q]
        /\ UNCHANGED <<waiters, readers>>
    BY WriteDoneIs DEF Queues, queuesVars
  <1>2. /\ writers \in [Units -> Seq(Users)] /\ writers[u] \in Seq(Users) /\ Head(writers[u]) = p
        /\ Len(Rest(u)) = Len(writers[u]) - 1 /\ Len(writers[u]) \in Nat
        /\ \A i \in 1..Len(Rest(u)) : i + 1 \in 1..Len(writers[u]) /\ Rest(u)[i] = writers[u][i + 1]
    BY <1>1, TailIs DEF Rest, TermTypeOK
  <1>3. /\ Apart(writers')
        /\ \A v \in Units : \A j \in 1..Len(writers'[v]) :
             /\ writers'[v][j] # p
             /\ \/ v # u /\ j \in 1..Len(writers[v]) /\ writers'[v][j] = writers[v][j]
                \/ v = u /\ j + 1 \in 1..Len(writers[u]) /\ writers'[v][j] = writers[u][j + 1]
    <2>1. Apart(writers) BY DEF Queues, MutexQueue
    <2>2. writers' = [writers EXCEPT ![u] = Tail(writers[u])] BY <1>1 DEF Rest
    <2>3. Apart(writers') /\ Shorter(writers, writers', u) BY <1>1, <1>2, <2>1, <2>2, ApartTail
    <2> QED BY <1>2, <2>3 DEF Shorter
  <1>4. Rest(u) # <<>> => phase[Rest(u)[1]] = "lock" /\ 2 \in 1..Len(writers[u]) /\ Rest(u)[1] = writers[u][2]
    <2> SUFFICES ASSUME Rest(u) # <<>>
                 PROVE  phase[Rest(u)[1]] = "lock" /\ 2 \in 1..Len(writers[u]) /\ Rest(u)[1] = writers[u][2]
      OBVIOUS
    <2>1. 1 \in 1..Len(Rest(u)) BY <1>1
    <2>2. 1 + 1 \in 1..Len(writers[u]) /\ Rest(u)[1] = writers[u][1 + 1] BY <1>2, <2>1
    <2> QED BY <2>2 DEF Queues, MutexQueue
  <1>5. ReaderQueue'
    <2>1. \A q \in Users : phase[q] = "read" => phase'[q] = "read" BY <1>1, <1>4
    <2> QED BY <1>1, <2>1, ReaderFrame DEF Queues
  <1>6. DeviceQueue'
    <2>1. \A q \in Users : phase[q] = "status" => phase'[q] = "status" BY <1>1, <1>4
    <2>2. \A v \in Units : writers[v] # <<>> /\ phase[writers[v][1]] = "status" =>
             writers'[v] # <<>> /\ writers'[v][1] = writers[v][1]
      BY <1>1, <1>2
    <2> QED BY <1>1, <2>1, <2>2, DeviceFrame DEF Queues
  <1>7. ASSUME NEW v \in Units, NEW j \in 1..Len(writers'[v])
        PROVE  phase'[writers'[v][j]] \in (IF j = 1 THEN {"output", "status"} ELSE {"lock"})
    <2>1. CASE v # u
      <3>1. /\ writers'[v][j] \in Users /\ writers'[v][j] # p
            /\ j \in 1..Len(writers[v]) /\ writers'[v][j] = writers[v][j]
            /\ phase[writers[v][j]] \in (IF j = 1 THEN {"output", "status"} ELSE {"lock"})
        <4>1. writers[v] \in Seq(Users) BY <1>2
        <4> QED BY <1>3, <2>1, <4>1 DEF Queues, MutexQueue
      <3>2. Rest(u) # <<>> => writers'[v][j] # Rest(u)[1]
        BY <1>4, <2>1, <3>1 DEF Queues, MutexQueue, Apart
      <3> QED BY <1>1, <3>1, <3>2
    <2>2. CASE v = u
      <3>1. /\ j \in 1..Len(Rest(u)) /\ writers'[v][j] = Rest(u)[j] /\ Rest(u)[j] \in Users
            /\ Rest(u) # <<>> /\ Rest(u)[j] # p
        BY <1>1, <1>2, <1>3, <2>2
      <3>2. CASE j = 1 BY <1>1, <3>1, <3>2
      <3>3. CASE j # 1
        <4>1. /\ j + 1 \in 1..Len(writers[u]) /\ j + 1 # 1 /\ j + 1 # 2 /\ Rest(u)[j] = writers[u][j + 1]
          BY <1>2, <3>1, <3>3
        <4>2. phase[Rest(u)[j]] = "lock" BY <4>1 DEF Queues, MutexQueue
        <4>3. Rest(u)[j] # Rest(u)[1] BY <1>4, <3>1, <4>1 DEF Queues, MutexQueue, Apart
        <4> QED BY <1>1, <3>1, <3>3, <4>2, <4>3
      <3> QED BY <3>2, <3>3
    <2> QED BY <2>1, <2>2
  <1> QED BY <1>3, <1>5, <1>6, <1>7 DEF Queues, MutexQueue, Apart

LEMMA ToWriterQueues ==
    ASSUME TermTypeOK, Queues, NEW u \in Units, ToWriter(u), UNCHANGED writers
    PROVE  Queues'
  <1> DEFINE h == Head(waiters[u])
  <1>1. /\ waiters[u] # <<>> /\ h \in Users /\ UNCHANGED readers
        /\ waiters' = [waiters EXCEPT ![u] = Tail(waiters[u])]
        /\ phase' = [phase EXCEPT ![h] = "output"]
        /\ phase \in [Users -> {"idle", "read", "lock", "output", "status"}]
        /\ waiters \in [Units -> Seq(Users \cup Drivers)]
    BY DEF ToWriter, TermTypeOK, queuesVars
  <1> HIDE DEF h
  <1>2. \A q \in Users : phase'[q] = IF q = h THEN "output" ELSE phase[q] BY <1>1
  <1>3. /\ h = waiters[u][1] /\ 1 \in 1..Len(waiters[u])
        /\ Len(waiters'[u]) = Len(waiters[u]) - 1 /\ Len(waiters[u]) \in Nat
        /\ \A i \in 1..Len(waiters'[u]) : i + 1 \in 1..Len(waiters[u]) /\ waiters'[u][i] = waiters[u][i + 1]
        /\ \A v \in Units : v # u => waiters'[v] = waiters[v]
    BY <1>1, TailIs DEF h
  <1>4. /\ phase[h] = "status" /\ writers[u] # <<>> /\ writers[u][1] = h
        /\ \A j \in 1..Len(waiters[u]) : waiters[u][j] = h => j = 1
    BY <1>1, <1>3 DEF Queues, DeviceQueue
  <1>5. MutexQueue'
    <2>1. \A q \in Users : /\ phase[q] \in {"output", "status"} => phase'[q] \in {"output", "status"}
                           /\ phase[q] = "lock" => phase'[q] = "lock"
      BY <1>2, <1>4
    <2> QED BY <2>1, MutexFrame DEF Queues
  <1>6. ReaderQueue'
    <2>1. \A q \in Users : phase[q] = "read" => phase'[q] = "read" BY <1>2, <1>4
    <2> QED BY <1>1, <2>1, ReaderFrame DEF Queues
  <1>7. ASSUME NEW v \in Units, NEW i \in 1..Len(waiters'[v]), waiters'[v][i] \in Users
        PROVE  /\ writers[v] # <<>> /\ writers[v][1] = waiters'[v][i]
               /\ phase'[waiters'[v][i]] = "status"
               /\ \A j \in 1..Len(waiters'[v]) : waiters'[v][j] = waiters'[v][i] => j = i
    <2>1. CASE v # u
      <3>1. waiters'[v] = waiters[v] BY <1>3, <2>1
      <3>2. /\ writers[v] # <<>> /\ writers[v][1] = waiters'[v][i] /\ phase[waiters'[v][i]] = "status"
            /\ \A j \in 1..Len(waiters'[v]) : waiters'[v][j] = waiters'[v][i] => j = i
        BY <1>7, <3>1 DEF Queues, DeviceQueue
      <3>3. 1 \in 1..Len(writers[v]) /\ 1 \in 1..Len(writers[u])
        <4>1. writers[v] \in Seq(Users) /\ writers[u] \in Seq(Users) BY DEF TermTypeOK
        <4> QED BY <1>4, <3>2, <4>1
      <3>4. waiters'[v][i] # h BY <1>4, <2>1, <3>2, <3>3 DEF Queues, MutexQueue, Apart
      <3> QED BY <1>2, <1>7, <3>2, <3>4
    <2>2. CASE v = u
      <3>1. i + 1 \in 1..Len(waiters[u]) /\ i + 1 # 1 /\ waiters'[v][i] = waiters[u][i + 1]
        BY <1>3, <2>2
      <3>2. /\ writers[v] # <<>> /\ writers[v][1] = waiters'[v][i] /\ phase[waiters'[v][i]] = "status"
            /\ \A j \in 1..Len(waiters[u]) : waiters[u][j] = waiters'[v][i] => j = i + 1
        BY <1>7, <2>2, <3>1 DEF Queues, DeviceQueue
      <3>3. waiters'[v][i] # h BY <1>4, <3>1
      <3>4. \A j \in 1..Len(waiters'[v]) : waiters'[v][j] = waiters'[v][i] => j = i
        <4> TAKE j \in 1..Len(waiters'[v])
        <4> HAVE waiters'[v][j] = waiters'[v][i]
        <4>1. j + 1 \in 1..Len(waiters[u]) /\ waiters[u][j + 1] = waiters'[v][i] BY <1>3, <2>2
        <4>2. j + 1 = i + 1 /\ i \in Nat /\ j \in Nat BY <3>2, <4>1
        <4> QED BY <4>2
      <3> QED BY <1>2, <1>7, <3>2, <3>3, <3>4
    <2> QED BY <2>1, <2>2
  <1>8. DeviceQueue' BY <1>7 DEF DeviceQueue
  <1> QED BY <1>5, <1>6, <1>8 DEF Queues

(* A driver waits again behind the others. *)
LEMMA DriverRotates ==
    ASSUME TermTypeOK, Queues, NEW u \in Units, ToDriver(u, NoChar) \/ \E c \in Char : ToDriver(u, c),
           UNCHANGED writers, \A q \in Users : phase[q] = "status" => phase'[q] = "status"
    PROVE  DeviceQueue'
  <1> DEFINE h == Head(waiters[u])
             r == Tail(waiters[u])
  <1>1. /\ waiters[u] # <<>> /\ h \in Drivers
        /\ waiters' = [waiters EXCEPT ![u] = Append(r, h)]
        /\ waiters \in [Units -> Seq(Users \cup Drivers)]
    BY DEF ToDriver, TermTypeOK
  <1>2. /\ h = waiters[u][1] /\ r \in Seq(Users \cup Drivers) /\ Len(r) = Len(waiters[u]) - 1
        /\ Len(waiters[u]) \in Nat /\ Len(waiters[u]) > 0
        /\ \A i \in 1..(Len(waiters[u]) - 1) : i + 1 \in 1..Len(waiters[u]) /\ r[i] = waiters[u][i + 1]
    BY <1>1, TailIs
  <1>3. h \notin Users /\ h \in Users \cup Drivers BY <1>1, UnitsType
  <1> HIDE DEF h, r
  <1>4. waiters'[u] = Append(r, h) /\ \A v \in Units : v # u => waiters'[v] = waiters[v] BY <1>1
  <1>5. /\ Len(waiters'[u]) = Len(waiters[u])
        /\ waiters'[u][Len(waiters[u])] = h
        /\ \A i \in 1..(Len(waiters[u]) - 1) : waiters'[u][i] = waiters[u][i + 1]
    <2>1. /\ Len(Append(r, h)) = Len(r) + 1 /\ Append(r, h)[Len(r) + 1] = h
          /\ \A i \in 1..Len(r) : Append(r, h)[i] = r[i]
      BY <1>2, <1>3, AppendIs
    <2> QED BY <1>2, <1>4, <2>1
  <1>6. ASSUME NEW v \in Units, NEW i \in 1..Len(waiters'[v]), waiters'[v][i] \in Users
        PROVE  /\ writers[v] # <<>> /\ writers[v][1] = waiters'[v][i]
               /\ phase'[waiters'[v][i]] = "status"
               /\ \A j \in 1..Len(waiters'[v]) : waiters'[v][j] = waiters'[v][i] => j = i
    <2>1. CASE v # u
      <3>1. waiters'[v] = waiters[v] BY <1>4, <2>1
      <3> QED BY <1>6, <3>1 DEF Queues, DeviceQueue
    <2>2. CASE v = u
      <3>1. \A j \in 1..Len(waiters'[u]) : waiters'[u][j] \in Users =>
              /\ j \in 1..(Len(waiters[u]) - 1) /\ j + 1 \in 1..Len(waiters[u])
              /\ waiters'[u][j] = waiters[u][j + 1]
        BY <1>2, <1>3, <1>5
      <3>2. i + 1 \in 1..Len(waiters[u]) /\ waiters'[v][i] = waiters[u][i + 1] BY <1>6, <2>2, <3>1
      <3>3. /\ writers[v] # <<>> /\ writers[v][1] = waiters'[v][i] /\ phase[waiters'[v][i]] = "status"
            /\ \A j \in 1..Len(waiters[u]) : waiters[u][j] = waiters'[v][i] => j = i + 1
        BY <1>6, <2>2, <3>2 DEF Queues, DeviceQueue
      <3>4. \A j \in 1..Len(waiters'[v]) : waiters'[v][j] = waiters'[v][i] => j = i
        <4> TAKE j \in 1..Len(waiters'[v])
        <4> HAVE waiters'[v][j] = waiters'[v][i]
        <4>1. j + 1 \in 1..Len(waiters[u]) /\ waiters[u][j + 1] = waiters'[v][i]
          BY <1>6, <2>2, <3>1
        <4>2. j + 1 = i + 1 /\ i \in Nat /\ j \in Nat BY <1>2, <1>5, <2>2, <3>3, <4>1
        <4> QED BY <4>2
      <3> QED BY <1>6, <3>3, <3>4
    <2> QED BY <2>1, <2>2
  <1> QED BY <1>6 DEF DeviceQueue

LEMMA ToDriverQueues ==
    ASSUME TermTypeOK, Queues, NEW u \in Units, NEW c \in Char \cup {NoChar}, ToDriver(u, c),
           UNCHANGED writers
    PROVE  Queues'
  <1>1. /\ phase \in [Users -> {"idle", "read", "lock", "output", "status"}]
        /\ readers \in [Units -> Seq(Users)] /\ unit \in Units
    BY UnitsType DEF TermTypeOK
  <1>2. ToDriver(u, NoChar) \/ \E x \in Char : ToDriver(u, x) OBVIOUS
  <1>3. CASE UNCHANGED <<readers, phase>>
    <2>1. DeviceQueue' BY <1>2, <1>3, DriverRotates
    <2> QED BY <1>3, <2>1, MutexFrame, ReaderFrame DEF Queues
  <1>4. ASSUME NEW d, ToReader(d, c) PROVE Queues'
    <2> DEFINE h == Head(readers[unit])
    <2>1. /\ readers[unit] # <<>> /\ readers' = [readers EXCEPT ![unit] = Tail(readers[unit])]
          /\ phase' = [phase EXCEPT ![h] = "idle"]
      BY <1>4 DEF ToReader
    <2>2. /\ h = readers[unit][1] /\ h \in Users /\ 1 \in 1..Len(readers[unit])
      BY <1>1, <2>1, TailIs
    <2>3. phase[h] = "read" BY <1>1, <2>2 DEF Queues, ReaderQueue
    <2>4. Apart(readers') /\ Shorter(readers, readers', unit)
      <3>1. Apart(readers) BY DEF Queues, ReaderQueue
      <3> QED BY <1>1, <2>1, <3>1, ApartTail
    <2>5. \A v \in Units : \A j \in 1..Len(readers'[v]) :
            readers'[v][j] # h /\ \E k \in 1..Len(readers[v]) : readers'[v][j] = readers[v][k]
      BY <2>4 DEF Shorter
    <2> HIDE DEF h
    <2>6. \A q \in Users : phase'[q] = IF q = h THEN "idle" ELSE phase[q] BY <1>1, <2>1
    <2>7. \A v \in Units : \A j \in 1..Len(readers'[v]) : phase'[readers'[v][j]] = "read"
      <3> TAKE v \in Units
      <3> TAKE j \in 1..Len(readers'[v])
      <3>1. readers[v] \in Seq(Users) BY <1>1
      <3>2. readers'[v][j] \in Users /\ readers'[v][j] # h /\ phase[readers'[v][j]] = "read"
        BY <2>5, <3>1 DEF Queues, ReaderQueue
      <3> QED BY <2>6, <3>2
    <2>8. ReaderQueue' BY <2>4, <2>7 DEF ReaderQueue, Apart
    <2>9. MutexQueue'
      <3>1. \A q \in Users : /\ phase[q] \in {"output", "status"} => phase'[q] \in {"output", "status"}
                             /\ phase[q] = "lock" => phase'[q] = "lock"
        BY <2>3, <2>6
      <3> QED BY <3>1, MutexFrame DEF Queues
    <2>10. DeviceQueue'
      <3>1. \A q \in Users : phase[q] = "status" => phase'[q] = "status" BY <2>3, <2>6
      <3> QED BY <1>2, <3>1, DriverRotates
    <2> QED BY <2>8, <2>9, <2>10 DEF Queues
  <1>5. UNCHANGED <<readers, phase>> \/ ToReader(Head(waiters[u]), c)
    BY TermDriverIs DEF ToDriver, queuesVars, Added, ToMailbox
  <1> QED BY <1>3, <1>4, <1>5

LEMMA InterruptQueues ==
    ASSUME TermTypeOK, Queues, NEW u \in Units, Interrupt(u)
    PROVE  Queues'
  <1>1. UNCHANGED writers BY InterruptIs
  <1>2. CASE UNCHANGED <<waiters, readers, phase>>
    BY <1>1, <1>2, MutexFrame, ReaderFrame, DeviceFrame DEF Queues
  <1>3. ASSUME NEW c \in Char \cup {NoChar}, Stored(u, c) PROVE UNCHANGED <<waiters, readers, phase>>
    BY <1>3 DEF Stored, queuesVars
  <1>4. CASE ToWriter(u) BY <1>1, <1>4, ToWriterQueues
  <1>5. ASSUME NEW c \in Char \cup {NoChar}, ToDriver(u, c) PROVE Queues'
    BY <1>1, <1>5, ToDriverQueues
  <1>6. \/ UNCHANGED <<waiters, readers, phase>> \/ ToWriter(u)
        \/ \E c \in Char \cup {NoChar} : Stored(u, c) \/ ToDriver(u, c)
    BY InterruptIs DEF queuesVars
  <1> QED BY <1>2, <1>3, <1>4, <1>5, <1>6

-----------------------------------------------------------------------------
(* The lines. *)
Lines == LineFits /\ LineOpen

LEMMA LinesFrame ==
    ASSUME Lines, UNCHANGED <<currLine, lineReady>> PROVE Lines'
  BY DEF Lines, LineFits, LineOpen, Whole, IsNewline

LEMMA InitLines == TermInit => Lines
  <1> SUFFICES ASSUME TermInit PROVE Lines OBVIOUS
  <1>1. \A d \in Drivers : currLine[d] = <<>> BY DEF TermInit
  <1>2. \A u \in Units : lineReady[u] = <<>> BY DEF TermInit
  <1> QED BY <1>1, <1>2, UnitsType DEF Lines, LineFits, LineOpen

LEMMA ReadLines ==
    ASSUME TermTypeOK, Lines, NEW p \in Users, NEW u \in Units, sys_term_read(p, u)
    PROVE  Lines'
  <1>1. UNCHANGED currLine BY DEF sys_term_read
  <1>2. CASE UNCHANGED lineReady BY <1>1, <1>2, LinesFrame
  <1>3. CASE lineReady[u] # <<>> /\ lineReady' = [lineReady EXCEPT ![u] = Tail(@)]
    <2>1. lineReady \in [Units -> Seq(Seq(Char))] BY DEF TermTypeOK
    <2>2. lineReady'[u] = Tail(lineReady[u]) /\ \A v \in Units : v # u => lineReady'[v] = lineReady[v]
      BY <1>3, <2>1
    <2>3. /\ Len(lineReady'[u]) = Len(lineReady[u]) - 1 /\ Len(lineReady[u]) \in Nat
          /\ \A k \in 1..Len(lineReady'[u]) : k + 1 \in 1..Len(lineReady[u])
                                              /\ lineReady'[u][k] = lineReady[u][k + 1]
      BY <1>3, <2>1, <2>2, TailIs
    <2>4. ASSUME NEW v \in Units
          PROVE  /\ Len(lineReady'[v]) <= MAX_LINES_BUFFERED
                 /\ \A k \in 1..Len(lineReady'[v]) : Whole(lineReady'[v][k])
      <3>1. CASE v = u
        <4>1. /\ Len(lineReady[u]) <= MAX_LINES_BUFFERED
              /\ \A k \in 1..Len(lineReady[u]) : Whole(lineReady[u][k])
          BY DEF Lines, LineFits
        <4>2. Len(lineReady'[u]) <= MAX_LINES_BUFFERED BY <2>3, <4>1, UnitsType
        <4>3. \A k \in 1..Len(lineReady'[u]) : Whole(lineReady'[u][k]) BY <2>3, <4>1
        <4> QED BY <3>1, <4>2, <4>3
      <3>2. CASE v # u BY <2>2, <3>2 DEF Lines, LineFits
      <3> QED BY <3>1, <3>2
    <2>5. LineFits' BY <1>1, <2>4 DEF Lines, LineFits, Whole, IsNewline
    <2> QED BY <1>1, <2>5 DEF Lines, LineOpen, IsNewline
  <1> QED BY <1>2, <1>3 DEF sys_term_read

LEMMA LineWhole ==
    ASSUME TermTypeOK, Lines, NEW d \in Drivers, NEW c \in Char
    PROVE  /\ Whole(Line(d, c))
           /\ ~Complete(d, c) => /\ Len(Line(d, c)) < MAXLINE
                                 /\ \A i \in 1..Len(Line(d, c)) : ~IsNewline(Line(d, c)[i])
  <1> DEFINE n == Len(currLine[d])
  <1>1. /\ currLine[d] \in Seq(Char) /\ n \in Nat /\ n < MAXLINE
        /\ \A i \in 1..n : ~IsNewline(currLine[d][i])
    BY DEF TermTypeOK, Lines, LineFits, LineOpen
  <1>2. /\ Len(Line(d, c)) = n + 1 /\ Line(d, c)[n + 1] = c
        /\ \A i \in 1..n : Line(d, c)[i] = currLine[d][i]
    BY <1>1, AppendIs DEF Line
  <1>3. Whole(Line(d, c))
    <2>1. \A i \in 1..(Len(Line(d, c)) - 1) : ~IsNewline(Line(d, c)[i]) BY <1>1, <1>2
    <2> QED BY <1>1, <1>2, <2>1, UnitsType DEF Whole
  <1>4. ASSUME ~Complete(d, c)
        PROVE  /\ Len(Line(d, c)) < MAXLINE
               /\ \A i \in 1..Len(Line(d, c)) : ~IsNewline(Line(d, c)[i])
    <2>1. ~IsNewline(c) /\ Len(Line(d, c)) # MAXLINE BY <1>4 DEF Complete
    <2>2. \A i \in 1..(n + 1) : i \in 1..n \/ i = n + 1 BY <1>1
    <2> QED BY <1>1, <1>2, <2>1, <2>2, UnitsType
  <1> QED BY <1>3, <1>4

LEMMA DriverLines ==
    ASSUME TermTypeOK, Lines, NEW d \in Drivers, NEW c \in Char, TermDriver(d, c)
    PROVE  Lines'
  <1>1. /\ currLine \in [Drivers -> Seq(Char)] /\ lineReady \in [Units -> Seq(Seq(Char))]
        /\ unit \in Units /\ MAXLINE > 0
    BY UnitsType DEF TermTypeOK
  <1>2. currLine' = [currLine EXCEPT ![d] = IF Complete(d, c) THEN <<>> ELSE Line(d, c)]
    BY TermDriverIs DEF Added, ToReader, ToMailbox
  <1>3. ASSUME NEW e \in Drivers
        PROVE  Len(currLine'[e]) < MAXLINE /\ \A i \in 1..Len(currLine'[e]) : ~IsNewline(currLine'[e][i])
    <2>1. CASE e # d
      <3>1. currLine'[e] = currLine[e] BY <1>1, <1>2, <2>1
      <3> QED BY <3>1 DEF Lines, LineFits, LineOpen
    <2>2. CASE e = d /\ Complete(d, c)
      <3>1. currLine'[e] = <<>> BY <1>1, <1>2, <2>2
      <3> QED BY <1>1, <3>1
    <2>3. CASE e = d /\ ~Complete(d, c)
      <3>1. currLine'[e] = Line(d, c) BY <1>1, <1>2, <2>3
      <3> QED BY <2>3, <3>1, LineWhole
    <2> QED BY <2>1, <2>2, <2>3
  <1>4. ASSUME NEW v \in Units
        PROVE  /\ Len(lineReady'[v]) <= MAX_LINES_BUFFERED
               /\ \A k \in 1..Len(lineReady'[v]) : Whole(lineReady'[v][k])
    <2>1. CASE lineReady'[v] = lineReady[v] BY <2>1 DEF Lines, LineFits
    <2>2. CASE ToMailbox(d, c) /\ v = unit
      <3>1. lineReady'[v] = Append(lineReady[v], Line(d, c)) BY <1>1, <2>2 DEF ToMailbox
      <3>2. /\ lineReady[v] \in Seq(Seq(Char)) /\ Line(d, c) \in Seq(Char)
            /\ Len(lineReady[v]) < MAX_LINES_BUFFERED
        BY <1>1, <2>2, LineType DEF ToMailbox
      <3>3. /\ Len(lineReady'[v]) = Len(lineReady[v]) + 1 /\ Len(lineReady[v]) \in Nat
            /\ lineReady'[v][Len(lineReady[v]) + 1] = Line(d, c)
            /\ \A k \in 1..Len(lineReady[v]) : lineReady'[v][k] = lineReady[v][k]
        BY <3>1, <3>2, AppendIs
      <3>4. \A k \in 1..Len(lineReady'[v]) : Whole(lineReady'[v][k])
        BY <3>3, LineWhole DEF Lines, LineFits
      <3> QED BY <3>2, <3>3, <3>4, UnitsType
    <2>3. lineReady'[v] = lineReady[v] \/ (ToMailbox(d, c) /\ v = unit)
      BY <1>1, TermDriverIs DEF Added, ToReader, ToMailbox
    <2> QED BY <2>1, <2>2, <2>3
  <1>5. LineFits' BY <1>3, <1>4 DEF LineFits, Whole, IsNewline
  <1>6. LineOpen' BY <1>3 DEF LineOpen, IsNewline
  <1> QED BY <1>5, <1>6 DEF Lines

LEMMA InterruptLines ==
    ASSUME TermTypeOK, Lines, NEW u \in Units, Interrupt(u)
    PROVE  Lines'
  <1>1. ASSUME NEW c \in Char \cup {NoChar}, ToDriver(u, c)
        PROVE  Lines'
    <2>1. CASE c # NoChar /\ TermDriver(Head(waiters[u]), c)
      BY <1>1, <2>1, DriverLines DEF ToDriver
    <2>2. CASE UNCHANGED <<currLine, lineReady>> BY <2>2, LinesFrame
    <2> QED BY <1>1, <2>1, <2>2 DEF ToDriver, queuesVars
  <1>2. \/ UNCHANGED <<currLine, lineReady>>
        \/ \E c \in Char \cup {NoChar} : ToDriver(u, c)
    BY InterruptIs DEF Stored, ToWriter, queuesVars
  <1> QED BY <1>1, <1>2, LinesFrame

-----------------------------------------------------------------------------
(* The characters. *)
Status(u)   == <<"status", u, 0>>
Building(d) == <<"building", d, 0>>
LineAt(u, k) == <<"ready", u, k>>
Read(p)     == <<"read", p, 0>>
Marks == {"status", "building", "ready", "read"}

LEMMA PlacesAre ==
    /\ \A u \in Units : Status(u) \in CharPlaces
    /\ \A d \in Drivers : Building(d) \in CharPlaces
    /\ \A u \in Units, k \in 1..MAX_LINES_BUFFERED : LineAt(u, k) \in CharPlaces
    /\ \A p \in Users : Read(p) \in CharPlaces
    /\ \A v \in CharPlaces :
         \/ \E u \in Units : v = Status(u)
         \/ \E d \in Drivers : v = Building(d)
         \/ \E u \in Units, k \in 1..MAX_LINES_BUFFERED : v = LineAt(u, k)
         \/ \E p \in Users : v = Read(p)
  BY DEF CharPlaces, Status, Building, LineAt, Read

LEMMA PlacesDiffer ==
    ASSUME NEW a, NEW b, NEW k, NEW l
    PROVE  /\ Status(a) # Building(b) /\ Status(a) # LineAt(b, k) /\ Status(a) # Read(b)
           /\ Building(a) # LineAt(b, k) /\ Building(a) # Read(b) /\ LineAt(a, k) # Read(b)
           /\ Status(a) = Status(b) => a = b
           /\ Building(a) = Building(b) => a = b
           /\ LineAt(a, k) = LineAt(b, l) => a = b /\ k = l
           /\ Read(a) = Read(b) => a = b
  BY DEF Status, Building, LineAt, Read

ReadyLine(u, k) == IF k <= Len(lineReady[u]) THEN lineReady[u][k] ELSE <<>>

LEMMA HeldIs ==
    ASSUME NEW a, NEW k
    PROVE  /\ Held(Status(a)) = pending[a] /\ Held(Status(a))' = pending'[a]
           /\ Held(Building(a)) = currLine[a] /\ Held(Building(a))' = currLine'[a]
           /\ Held(LineAt(a, k)) = ReadyLine(a, k) /\ Held(LineAt(a, k))' = ReadyLine(a, k)'
           /\ Held(Read(a)) = lineRead[a] /\ Held(Read(a))' = lineRead'[a]
  <1>1. /\ Status(a)[1] = "status" /\ Status(a)[2] = a
        /\ Building(a)[1] = "building" /\ Building(a)[2] = a
        /\ LineAt(a, k)[1] = "ready" /\ LineAt(a, k)[2] = a /\ LineAt(a, k)[3] = k
        /\ Read(a)[1] = "read" /\ Read(a)[2] = a
    BY DEF Status, Building, LineAt, Read
  <1>2. Held(Status(a)) = pending[a] /\ Held(Status(a))' = pending'[a] BY <1>1 DEF Held
  <1>3. Held(Building(a)) = currLine[a] /\ Held(Building(a))' = currLine'[a] BY <1>1 DEF Held
  <1>4. Held(LineAt(a, k)) = ReadyLine(a, k) /\ Held(LineAt(a, k))' = ReadyLine(a, k)'
    BY <1>1 DEF Held, ReadyLine
  <1>5. Held(Read(a)) = lineRead[a] /\ Held(Read(a))' = lineRead'[a] BY <1>1 DEF Held
  <1> QED BY <1>2, <1>3, <1>4, <1>5

LEMMA HeldType ==
    ASSUME TermTypeOK
    PROVE  \A v \in CharPlaces : Held(v) \in Seq(Char \cup {NoChar})
  <1>1. /\ \A u \in Units : pending[u] \in Seq(Char \cup {NoChar})
        /\ \A d \in Drivers : currLine[d] \in Seq(Char)
        /\ \A u \in Units : lineReady[u] \in Seq(Seq(Char))
        /\ \A p \in Users : lineRead[p] \in Seq(Char)
    BY DEF TermTypeOK
  <1>2. \A s \in Seq(Char) : s \in Seq(Char \cup {NoChar}) OBVIOUS
  <1>3. \A u \in Units, k \in 1..MAX_LINES_BUFFERED : ReadyLine(u, k) \in Seq(Char)
    BY <1>1 DEF ReadyLine
  <1>4. ASSUME NEW v \in CharPlaces PROVE Held(v) \in Seq(Char \cup {NoChar})
    <2>1. CASE \E u \in Units : v = Status(u) BY <1>1, <2>1, HeldIs
    <2>2. CASE \E d \in Drivers : v = Building(d) BY <1>1, <1>2, <2>2, HeldIs
    <2>3. CASE \E u \in Units, k \in 1..MAX_LINES_BUFFERED : v = LineAt(u, k)
      BY <1>2, <1>3, <2>3, HeldIs
    <2>4. CASE \E p \in Users : v = Read(p) BY <1>1, <1>2, <2>4, HeldIs
    <2> QED BY <2>1, <2>2, <2>3, <2>4, PlacesAre
  <1> QED BY <1>4

(* Whole sequences are moved, and at one place the character c is added:   *)
(* what v holds is what g[v] held.                                         *)
Moves(c, x, g) ==
    /\ \A v \in CharPlaces : \/ Held(v)' = <<>> \/ Held(v)' = Held(g[v])
                             \/ v = x /\ Held(v)' = Append(Held(g[v]), c)
    /\ \A v, w \in CharPlaces : v # w /\ g[v] = g[w] => Held(v)' = <<>> \/ Held(w)' = <<>>
IsNew(c) == c = NoChar \/ \A v \in CharPlaces : \A i \in 1..Len(Held(v)) : Held(v)[i] # c
HeldBefore(c, g) ==
    \A v \in CharPlaces : \A i \in 1..Len(Held(v)') :
        \/ Held(v)'[i] = c
        \/ i \in 1..Len(Held(g[v])) /\ Held(v)'[i] = Held(g[v])[i]

LEMMA CharsMoved ==
    ASSUME TermTypeOK, CharsOnce, NEW c \in Char \cup {NoChar}, IsNew(c),
           NEW x, NEW g \in [CharPlaces -> CharPlaces], Moves(c, x, g)
    PROVE  CharsOnce' /\ HeldBefore(c, g)
  <1>1. ASSUME NEW v \in CharPlaces, NEW i \in 1..Len(Held(v)')
        PROVE  \/ i \in 1..Len(Held(g[v])) /\ Held(v)'[i] = Held(g[v])[i]
               \/ v = x /\ i = Len(Held(g[x])) + 1 /\ Held(v)'[i] = c
    <2>1. g[v] \in CharPlaces /\ Held(g[v]) \in Seq(Char \cup {NoChar}) BY HeldType
    <2>2. CASE Held(v)' = <<>> BY <2>2
    <2>3. CASE Held(v)' = Held(g[v]) BY <2>3
    <2>4. CASE v = x /\ Held(v)' = Append(Held(g[v]), c)
      <3>1. /\ Len(Held(v)') = Len(Held(g[v])) + 1 /\ Len(Held(g[v])) \in Nat
            /\ Held(v)'[Len(Held(g[v])) + 1] = c
            /\ \A k \in 1..Len(Held(g[v])) : Held(v)'[k] = Held(g[v])[k]
        BY <2>1, <2>4, AppendIs
      <3> QED BY <2>4, <3>1
    <2> QED BY <2>2, <2>3, <2>4 DEF Moves
  <1>2. ASSUME NEW v \in CharPlaces, NEW i \in 1..Len(Held(v)'),
               NEW w \in CharPlaces, NEW j \in 1..Len(Held(w)'),
               Held(v)'[i] = Held(w)'[j], Held(v)'[i] # NoChar
        PROVE  v = w /\ i = j
    <2>1. g[v] \in CharPlaces /\ g[w] \in CharPlaces OBVIOUS
    <2>2. Held(v)' # <<>> /\ Held(w)' # <<>> BY <1>2
    <2>3. CASE /\ i \in 1..Len(Held(g[v])) /\ Held(v)'[i] = Held(g[v])[i]
               /\ j \in 1..Len(Held(g[w])) /\ Held(w)'[j] = Held(g[w])[j]
      <3>1. Held(g[v])[i] = Held(g[w])[j] /\ Held(g[v])[i] # NoChar BY <1>2, <2>3
      <3>2. \A a, b \in CharPlaces : \A m \in 1..Len(Held(a)), n \in 1..Len(Held(b)) :
              Held(a)[m] = Held(b)[n] /\ Held(a)[m] # NoChar => a = b /\ m = n
        BY DEF CharsOnce
      <3>3. g[v] = g[w] /\ i = j BY <2>1, <2>3, <3>1, <3>2
      <3> QED BY <2>2, <3>3 DEF Moves
    <2>4. CASE Held(v)'[i] = c /\ Held(w)'[j] = Held(g[w])[j] /\ j \in 1..Len(Held(g[w]))
      BY <1>2, <2>1, <2>4 DEF IsNew
    <2>5. CASE Held(w)'[j] = c /\ Held(v)'[i] = Held(g[v])[i] /\ i \in 1..Len(Held(g[v]))
      BY <1>2, <2>1, <2>5 DEF IsNew
    <2>6. CASE v = x /\ i = Len(Held(g[x])) + 1 /\ w = x /\ j = Len(Held(g[x])) + 1
      BY <2>6
    <2> QED BY <1>1, <2>3, <2>4, <2>5, <2>6
  <1>3. CharsOnce' BY <1>2 DEF CharsOnce
  <1> QED BY <1>1, <1>3 DEF HeldBefore

Chars == Fresh /\ CharsOnce

(* c is no character, or the one that is typed in this step. *)
JustTyped(c) ==
    /\ \A u \in Units : typed'[u] \in Nat /\ typed'[u] >= typed[u]
    /\ c # NoChar => \E u \in Units : c = <<u, typed[u] + 1>> /\ typed'[u] = typed[u] + 1

LEMMA CharsShifted ==
    ASSUME TermTypeOK, Chars, NEW c \in Char \cup {NoChar}, JustTyped(c),
           NEW x, NEW g \in [CharPlaces -> CharPlaces], Moves(c, x, g)
    PROVE  Chars'
  <1>1. typed \in [Units -> Nat] BY DEF TermTypeOK
  <1>2. c # NoChar => c[1] \in Units /\ c[2] = typed[c[1]] + 1 /\ typed'[c[1]] = typed[c[1]] + 1
    BY <1>1, NoCharIsNone DEF JustTyped
  <1>3. IsNew(c)
    <2>1. ASSUME c # NoChar, NEW v \in CharPlaces, NEW i \in 1..Len(Held(v)), Held(v)[i] = c
          PROVE  FALSE
      <3>1. c[2] <= typed[c[1]] BY <2>1 DEF Chars, Fresh, Typed
      <3> QED BY <1>1, <1>2, <2>1, <3>1
    <2> QED BY <2>1 DEF IsNew
  <1>4. CharsOnce' /\ HeldBefore(c, g)
    <2>1. CharsOnce BY DEF Chars
    <2> QED BY <1>3, <2>1, CharsMoved
  <1>5. ASSUME NEW v \in CharPlaces, NEW i \in 1..Len(Held(v)'), Held(v)'[i] # NoChar
        PROVE  Held(v)'[i][2] <= typed'[Held(v)'[i][1]]
    <2>1. CASE Held(v)'[i] = c
      <3>1. c # NoChar BY <1>5, <2>1
      <3>2. c[2] <= typed'[c[1]] BY <1>1, <1>2, <3>1
      <3> QED BY <2>1, <3>2
    <2>2. ASSUME NEW e, e = Held(v)'[i], i \in 1..Len(Held(g[v])), e = Held(g[v])[i]
          PROVE  e[2] <= typed'[e[1]]
      <3>1. g[v] \in CharPlaces /\ Held(g[v]) \in Seq(Char \cup {NoChar}) BY HeldType
      <3>2. e \in Char \cup {NoChar} /\ e # NoChar BY <1>5, <2>2, <3>1
      <3>3. e[1] \in Units /\ e[2] \in Nat BY <3>2, NoCharIsNone
      <3>4. e[2] <= typed[e[1]] BY <2>2, <3>1, <3>2 DEF Chars, Fresh, Typed
      <3> QED BY <1>1, <3>3, <3>4 DEF JustTyped
    <2> QED BY <1>4, <2>1, <2>2 DEF HeldBefore
  <1>6. Fresh' BY <1>5 DEF Fresh, Typed
  <1> QED BY <1>4, <1>6 DEF Chars

(* The sequence at y goes to x, which may be the same place. *)
LEMMA CharsStep ==
    ASSUME TermTypeOK, Chars, NEW c \in Char \cup {NoChar}, JustTyped(c),
           NEW x \in CharPlaces, NEW y \in CharPlaces,
           Held(x)' \in {<<>>, Held(y), Append(Held(y), c)}, x # y => Held(y)' = <<>>,
           \A v \in CharPlaces : v # x => Held(v)' = <<>> \/ Held(v)' = Held(v)
    PROVE  Chars'
  <1> DEFINE g == [v \in CharPlaces |-> IF v = x THEN y ELSE v]
  <1>1. g \in [CharPlaces -> CharPlaces] OBVIOUS
  <1>2. /\ g[x] = y
        /\ \A v \in CharPlaces : v # x => g[v] = v
    OBVIOUS
  <1> HIDE DEF g
  <1>3. ASSUME NEW v \in CharPlaces
        PROVE  \/ Held(v)' = <<>> \/ Held(v)' = Held(g[v])
               \/ v = x /\ Held(v)' = Append(Held(g[v]), c)
    <2>1. CASE v = x BY <1>2, <2>1
    <2>2. CASE v # x BY <1>2, <2>2
    <2> QED BY <2>1, <2>2
  <1>4. ASSUME NEW v \in CharPlaces, NEW w \in CharPlaces, v # w, g[v] = g[w]
        PROVE  Held(v)' = <<>> \/ Held(w)' = <<>>
    <2>1. CASE v = x
      <3>1. w = y /\ x # y BY <1>2, <1>4, <2>1
      <3> QED BY <3>1
    <2>2. CASE w = x
      <3>1. v = y /\ x # y BY <1>2, <1>4, <2>2
      <3> QED BY <3>1
    <2> QED BY <1>2, <1>4, <2>1, <2>2
  <1>5. Moves(c, x, g) BY <1>3, <1>4 DEF Moves
  <1> QED BY <1>1, <1>5, CharsShifted

LEMMA NothingTyped ==
    ASSUME TermTypeOK, UNCHANGED typed PROVE JustTyped(NoChar)
  BY DEF JustTyped, TermTypeOK

(* What an interrupt types, whether it is stored or not. *)
LEMMA ReceivedIsTyped ==
    ASSUME TermTypeOK, NEW u \in Units, NEW c \in Char \cup {NoChar}, Received(u, c)
    PROVE  JustTyped(c) /\ JustTyped(NoChar)
  <1>1. typed \in [Units -> Nat] BY DEF TermTypeOK
  <1>2. \A v \in Units : typed'[v] \in Nat /\ typed'[v] >= typed[v] BY <1>1 DEF Received
  <1>3. c # NoChar => c = <<u, typed[u] + 1>> /\ typed'[u] = typed[u] + 1
    BY <1>1 DEF Received
  <1> QED BY <1>2, <1>3 DEF JustTyped

LEMMA CharsFrame ==
    ASSUME TermTypeOK, Chars, JustTyped(NoChar),
           UNCHANGED <<pending, currLine, lineReady, lineRead>>
    PROVE  Chars'
  <1>1. \A v \in CharPlaces : Held(v)' = Held(v) BY DEF Held
  <1>2. unit \in Units BY UnitsType
  <1>3. Status(unit) \in CharPlaces /\ NoChar \in Char \cup {NoChar} BY <1>2, PlacesAre
  <1> QED BY <1>1, <1>3, CharsStep

(* The lines that are ready move up by one, the first to its reader. *)
LEMMA ReadChars ==
    ASSUME TermTypeOK, Lines, Chars, NEW p \in Users, NEW u \in Units, sys_term_read(p, u)
    PROVE  Chars'
  <1>1. UNCHANGED <<pending, currLine, typed>> BY DEF sys_term_read
  <1>2. JustTyped(NoChar) BY <1>1, NothingTyped
  <1>3. CASE UNCHANGED <<lineReady, lineRead>> BY <1>1, <1>2, <1>3, CharsFrame
  <1>4. CASE /\ lineReady[u] # <<>>
             /\ lineReady' = [lineReady EXCEPT ![u] = Tail(@)]
             /\ lineRead' = [lineRead EXCEPT ![p] = Head(lineReady[u])]
    <2> DEFINE g == [v \in CharPlaces |->
                       IF v = Read(p) THEN LineAt(u, 1)
                       ELSE IF v[1] = "ready" /\ v[2] = u /\ v[3] < MAX_LINES_BUFFERED
                         THEN LineAt(u, v[3] + 1) ELSE v]
               n == Len(lineReady[u])
    <2>1. /\ lineReady \in [Units -> Seq(Seq(Char))] /\ lineRead \in [Users -> Seq(Char)]
          /\ MAX_LINES_BUFFERED \in Nat /\ n <= MAX_LINES_BUFFERED
      BY UnitsType DEF TermTypeOK, Lines, LineFits
    <2>2. /\ n \in Nat /\ n > 0 /\ Len(lineReady'[u]) = n - 1 /\ Head(lineReady[u]) = lineReady[u][1]
          /\ \A k \in 1..(n - 1) : lineReady'[u][k] = lineReady[u][k + 1]
          /\ \A v \in Units : v # u => lineReady'[v] = lineReady[v]
      <3>1. lineReady'[u] = Tail(lineReady[u]) BY <1>4, <2>1
      <3>2. \A v \in Units : v # u => lineReady'[v] = lineReady[v] BY <1>4, <2>1
      <3> QED BY <1>4, <2>1, <3>1, <3>2, TailIs
    <2> HIDE DEF n
    <2>3. 1 \in 1..MAX_LINES_BUFFERED /\ LineAt(u, 1) \in CharPlaces /\ Read(p) \in CharPlaces
      BY <2>1, <2>2, PlacesAre
    <2>4. /\ g[Read(p)] = LineAt(u, 1)
          /\ \A k \in 1..MAX_LINES_BUFFERED :
               g[LineAt(u, k)] = IF k < MAX_LINES_BUFFERED THEN LineAt(u, k + 1) ELSE LineAt(u, k)
          /\ \A v \in CharPlaces : (v # Read(p) /\ \A k \in 1..MAX_LINES_BUFFERED : v # LineAt(u, k)) => g[v] = v
      <3>1. \A k \in 1..MAX_LINES_BUFFERED :
              /\ LineAt(u, k) \in CharPlaces /\ LineAt(u, k) # Read(p)
              /\ LineAt(u, k)[1] = "ready" /\ LineAt(u, k)[2] = u /\ LineAt(u, k)[3] = k
        BY PlacesAre, PlacesDiffer DEF LineAt
      <3>2. ASSUME NEW v \in CharPlaces, v[1] = "ready", v[2] = u
            PROVE  \E k \in 1..MAX_LINES_BUFFERED : v = LineAt(u, k)
        BY <3>2, PlacesAre DEF LineAt, Status, Building, Read
      <3> QED BY <2>3, <3>1, <3>2
    <2>5. g \in [CharPlaces -> CharPlaces]
      <3>1. \A k \in 1..MAX_LINES_BUFFERED : k < MAX_LINES_BUFFERED => LineAt(u, k + 1) \in CharPlaces
        BY <2>1, PlacesAre
      <3>2. ASSUME NEW v \in CharPlaces PROVE g[v] \in CharPlaces
        <4> HIDE DEF g
        <4>1. CASE v = Read(p) BY <2>3, <2>4, <4>1
        <4>2. CASE \E k \in 1..MAX_LINES_BUFFERED : v = LineAt(u, k)
          BY <2>4, <3>1, <4>2
        <4> QED BY <2>4, <4>1, <4>2
      <3> QED BY <3>2
    <2> HIDE DEF g
    <2>6. ASSUME NEW k \in 1..MAX_LINES_BUFFERED
          PROVE  /\ Held(LineAt(u, k))' = (IF k <= n - 1 THEN Held(LineAt(u, k + 1)) ELSE <<>>)
                 /\ k <= n - 1 => k < MAX_LINES_BUFFERED
      <3>1. ReadyLine(u, k)' = IF k <= n - 1 THEN lineReady[u][k + 1] ELSE <<>>
        BY <2>2 DEF ReadyLine
      <3>2. k <= n - 1 => ReadyLine(u, k + 1) = lineReady[u][k + 1]
        BY <2>2 DEF ReadyLine, n
      <3> QED BY <2>1, <2>2, <3>1, <3>2, HeldIs
    <2>7. Held(Read(p))' = Held(LineAt(u, 1))
      <3>1. lineRead'[p] = lineReady[u][1] BY <1>4, <2>1, <2>2
      <3>2. ReadyLine(u, 1) = lineReady[u][1] BY <2>2 DEF ReadyLine, n
      <3> QED BY <3>1, <3>2, HeldIs
    <2>8. ASSUME NEW v \in CharPlaces, v # Read(p), \A k \in 1..MAX_LINES_BUFFERED : v # LineAt(u, k)
          PROVE  Held(v)' = Held(v)
      <3>1. CASE \E a \in Units : v = Status(a) BY <1>1, <3>1, HeldIs
      <3>2. CASE \E d \in Drivers : v = Building(d) BY <1>1, <3>2, HeldIs
      <3>3. ASSUME NEW a \in Units, NEW k \in 1..MAX_LINES_BUFFERED, v = LineAt(a, k)
            PROVE  Held(v)' = Held(v)
        <4>1. a # u BY <2>8, <3>3
        <4>2. ReadyLine(a, k)' = ReadyLine(a, k) BY <2>2, <4>1 DEF ReadyLine
        <4> QED BY <3>3, <4>2, HeldIs
      <3>4. ASSUME NEW q \in Users, v = Read(q) PROVE Held(v)' = Held(v)
        <4>1. q # p BY <2>8, <3>4
        <4>2. lineRead'[q] = lineRead[q] BY <1>4, <2>1, <4>1
        <4> QED BY <3>4, <4>2, HeldIs
      <3> QED BY <3>1, <3>2, <3>3, <3>4, PlacesAre
    <2>9. ASSUME NEW v \in CharPlaces PROVE Held(v)' = <<>> \/ Held(v)' = Held(g[v])
      <3>1. CASE v = Read(p) BY <2>4, <2>7, <3>1
      <3>2. ASSUME NEW k \in 1..MAX_LINES_BUFFERED, v = LineAt(u, k)
            PROVE  Held(v)' = <<>> \/ Held(v)' = Held(g[v])
        BY <2>4, <2>6, <3>2
      <3> QED BY <2>4, <2>8, <3>1, <3>2
    <2>10. ASSUME NEW v \in CharPlaces, NEW w \in CharPlaces, v # w, g[v] = g[w],
                  Held(v)' # <<>>, Held(w)' # <<>>
           PROVE  FALSE
      <3>1. ASSUME NEW z \in CharPlaces, Held(z)' # <<>>
            PROVE  \/ z = Read(p) /\ g[z] = LineAt(u, 1)
                   \/ \E k \in 1..MAX_LINES_BUFFERED : z = LineAt(u, k) /\ g[z] = LineAt(u, k + 1)
                   \/ /\ z # Read(p) /\ \A k \in 1..MAX_LINES_BUFFERED : z # LineAt(u, k)
                      /\ g[z] = z
        BY <2>4, <2>6, <3>1
      <3>2. \A k, l \in 1..MAX_LINES_BUFFERED :
              /\ LineAt(u, k + 1) = LineAt(u, l + 1) => k = l
              /\ LineAt(u, k + 1) # LineAt(u, 1)
        BY <2>1, PlacesDiffer
      <3>3. ASSUME NEW y \in CharPlaces, NEW z \in CharPlaces, Held(y)' # <<>>, Held(z)' # <<>>,
                   g[y] = g[z], z # Read(p), \A k \in 1..MAX_LINES_BUFFERED : z # LineAt(u, k)
            PROVE  y = z
        <4>1. g[z] = z BY <3>1, <3>3
        <4>2. \A k \in 1..MAX_LINES_BUFFERED : k + 1 \in 1..MAX_LINES_BUFFERED \/ LineAt(u, k + 1) \notin CharPlaces
          <5> TAKE k \in 1..MAX_LINES_BUFFERED
          <5>1. ASSUME LineAt(u, k + 1) \in CharPlaces PROVE k + 1 \in 1..MAX_LINES_BUFFERED
            <6>1. PICK a \in Units, l \in 1..MAX_LINES_BUFFERED : LineAt(u, k + 1) = LineAt(a, l)
              <7> DEFINE z0 == LineAt(u, k + 1)
              <7>1. \A a : z0 # Status(a) /\ z0 # Building(a) /\ z0 # Read(a) BY PlacesDiffer
              <7> HIDE DEF z0
              <7>2. z0 \in CharPlaces => \E a \in Units, l \in 1..MAX_LINES_BUFFERED : z0 = LineAt(a, l)
                BY <7>1, PlacesAre
              <7> QED BY <5>1, <7>2 DEF z0
            <6> QED BY <6>1, PlacesDiffer
          <5> QED BY <5>1
        <4> QED BY <2>3, <3>1, <3>3, <4>1, <4>2
      <3>4. v = Read(p) \/ \E k \in 1..MAX_LINES_BUFFERED : v = LineAt(u, k) BY <2>10, <3>3
      <3>5. w = Read(p) \/ \E k \in 1..MAX_LINES_BUFFERED : w = LineAt(u, k) BY <2>10, <3>3
      <3> QED BY <2>10, <3>1, <3>2, <3>4, <3>5
    <2>11. Moves(NoChar, Read(p), g) BY <2>9, <2>10 DEF Moves
    <2> QED BY <1>2, <2>5, <2>11, CharsShifted
  <1> QED BY <1>3, <1>4 DEF sys_term_read

LEMMA WriteCharChars ==
    ASSUME TermTypeOK, Chars, NEW p \in Users, NEW u \in Units, WriteChar(p, u)
    PROVE  Chars'
  <1>1. UNCHANGED <<typed, currLine, lineReady, lineRead>> BY DEF WriteChar, queuesVars
  <1>2. JustTyped(NoChar) BY <1>1, NothingTyped
  <1>3. CASE UNCHANGED pending BY <1>1, <1>2, <1>3, CharsFrame
  <1>4. CASE pending' = [pending EXCEPT ![u] = <<>>]
    <2>1. pending \in [Units -> Seq(Char \cup {NoChar})] BY DEF TermTypeOK
    <2>2. \A v \in Units : pending'[v] = <<>> \/ pending'[v] = pending[v] BY <1>4, <2>1
    <2>3. \A v \in CharPlaces : Held(v)' = <<>> \/ Held(v)' = Held(v)
      <3>1. \A a, k : ReadyLine(a, k)' = ReadyLine(a, k) BY <1>1 DEF ReadyLine
      <3>2. ASSUME NEW v \in CharPlaces PROVE Held(v)' = <<>> \/ Held(v)' = Held(v)
        <4>1. CASE \E a \in Units : v = Status(a) BY <2>2, <4>1, HeldIs
        <4>2. CASE \E d \in Drivers : v = Building(d) BY <1>1, <4>2, HeldIs
        <4>3. CASE \E a \in Units, k \in 1..MAX_LINES_BUFFERED : v = LineAt(a, k)
          BY <3>1, <4>3, HeldIs
        <4>4. CASE \E q \in Users : v = Read(q) BY <1>1, <4>4, HeldIs
        <4> QED BY <4>1, <4>2, <4>3, <4>4, PlacesAre
      <3> QED BY <3>2
    <2>4. Status(u) \in CharPlaces /\ NoChar \in Char \cup {NoChar} BY PlacesAre
    <2>5. Held(Status(u))' = <<>> \/ Held(Status(u))' = Held(Status(u)) BY <2>3, <2>4
    <2> QED BY <1>2, <2>3, <2>4, <2>5, CharsStep
  <1> QED BY <1>3, <1>4 DEF WriteChar

LEMMA StoredChars ==
    ASSUME TermTypeOK, Chars, NEW u \in Units, NEW c \in Char \cup {NoChar},
           Received(u, c), Stored(u, c)
    PROVE  Chars'
  <1>1. UNCHANGED <<currLine, lineReady, lineRead>> BY DEF Stored, queuesVars
  <1>2. JustTyped(c) BY ReceivedIsTyped
  <1>3. pending \in [Units -> Seq(Char \cup {NoChar})] BY DEF TermTypeOK
  <1>4. /\ \A v \in Units : v # u => pending'[v] = pending[v]
        /\ pending'[u] = IF pending[u] = <<>> THEN <<c>> ELSE pending[u]
    BY <1>3 DEF Stored
  <1>5. pending'[u] \in {<<>>, pending[u], Append(pending[u], c)} BY <1>4
  <1>6. ASSUME NEW v \in CharPlaces, v # Status(u) PROVE Held(v)' = Held(v)
    <2>1. ASSUME NEW a \in Units, v = Status(a) PROVE Held(v)' = Held(v)
      <3>1. a # u BY <1>6, <2>1
      <3> QED BY <1>4, <2>1, <3>1, HeldIs
    <2>2. CASE \E d \in Drivers : v = Building(d) BY <1>1, <2>2, HeldIs
    <2>3. \A a, k : ReadyLine(a, k)' = ReadyLine(a, k) BY <1>1 DEF ReadyLine
    <2>4. CASE \E a \in Units, k \in 1..MAX_LINES_BUFFERED : v = LineAt(a, k) BY <2>3, <2>4, HeldIs
    <2>5. CASE \E q \in Users : v = Read(q) BY <1>1, <2>5, HeldIs
    <2> QED BY <2>1, <2>2, <2>4, <2>5, PlacesAre
  <1>7. Held(Status(u))' \in {<<>>, Held(Status(u)), Append(Held(Status(u)), c)}
    BY <1>5, HeldIs
  <1>8. Status(u) \in CharPlaces BY PlacesAre
  <1> QED BY <1>2, <1>6, <1>7, <1>8, CharsStep

(* A line that is complete goes from its driver to where it is read. *)
LEMMA DriverChars ==
    ASSUME TermTypeOK, Lines, Chars, NEW d \in Drivers, NEW c \in Char, JustTyped(c),
           UNCHANGED pending, TermDriver(d, c)
    PROVE  Chars'
  <1>1. /\ currLine \in [Drivers -> Seq(Char)] /\ lineReady \in [Units -> Seq(Seq(Char))]
        /\ readers \in [Units -> Seq(Users)] /\ lineRead \in [Users -> Seq(Char)]
        /\ unit \in Units /\ MAX_LINES_BUFFERED \in Nat
    BY UnitsType DEF TermTypeOK
  <1>2. /\ \A e \in Drivers : e # d => currLine'[e] = currLine[e]
        /\ currLine'[d] = IF Complete(d, c) THEN <<>> ELSE Append(currLine[d], c)
    BY <1>1, TermDriverIs DEF Added, ToReader, ToMailbox, Line
  <1>3. Building(d) \in CharPlaces /\ c \in Char \cup {NoChar} BY PlacesAre
  <1>4. \A e \in Drivers : e # d => Held(Building(e))' = Held(Building(e)) BY <1>2, HeldIs
  <1>5. \A a \in Units : Held(Status(a))' = Held(Status(a)) BY HeldIs
  <1>6. CASE Added(d, c)
    <2>1. UNCHANGED <<lineReady, lineRead>> BY <1>6 DEF Added
    <2>2. Held(Building(d))' \in {<<>>, Held(Building(d)), Append(Held(Building(d)), c)}
      BY <1>2, HeldIs
    <2>3. ASSUME NEW v \in CharPlaces, v # Building(d) PROVE Held(v)' = Held(v)
      <3>1. \A a, k : ReadyLine(a, k)' = ReadyLine(a, k) BY <2>1 DEF ReadyLine
      <3>2. CASE \E a \in Units, k \in 1..MAX_LINES_BUFFERED : v = LineAt(a, k) BY <3>1, <3>2, HeldIs
      <3>3. CASE \E q \in Users : v = Read(q) BY <2>1, <3>3, HeldIs
      <3>4. CASE \E e \in Drivers : v = Building(e) BY <1>4, <2>3, <3>4
      <3> QED BY <1>5, <3>2, <3>3, <3>4, PlacesAre
    <2> QED BY <1>3, <2>2, <2>3, CharsStep
  <1>7. CASE ToReader(d, c)
    <2>1. PICK h \in Users : /\ Complete(d, c) /\ UNCHANGED lineReady
                            /\ lineRead' = [lineRead EXCEPT ![h] = Append(currLine[d], c)]
      BY <1>1, <1>7, TailIs DEF ToReader, Line
    <2>2. /\ lineRead'[h] = Append(currLine[d], c)
          /\ \A q \in Users : q # h => lineRead'[q] = lineRead[q]
      BY <1>1, <2>1
    <2>3. Held(Read(h))' \in {<<>>, Held(Building(d)), Append(Held(Building(d)), c)}
      <3>1. Held(Read(h))' = lineRead'[h] BY <2>1, HeldIs
      <3>2. Held(Building(d)) = currLine[d] BY HeldIs
      <3> QED BY <2>2, <3>1, <3>2
    <2>4. Held(Building(d))' = <<>> BY <1>2, <2>1, HeldIs
    <2>5. ASSUME NEW v \in CharPlaces, v # Read(h) PROVE Held(v)' = <<>> \/ Held(v)' = Held(v)
      <3>1. \A a, k : ReadyLine(a, k)' = ReadyLine(a, k) BY <2>1 DEF ReadyLine
      <3>2. CASE \E a \in Units, k \in 1..MAX_LINES_BUFFERED : v = LineAt(a, k) BY <3>1, <3>2, HeldIs
      <3>3. ASSUME NEW q \in Users, v = Read(q) PROVE Held(v)' = Held(v)
        <4>1. q # h BY <2>5, <3>3
        <4> QED BY <2>2, <3>3, <4>1, HeldIs
      <3>4. CASE \E e \in Drivers : v = Building(e) BY <1>4, <2>4, <3>4
      <3> QED BY <1>5, <3>2, <3>3, <3>4, PlacesAre
    <2>6. Read(h) \in CharPlaces BY <2>1, PlacesAre
    <2>7. \A v \in CharPlaces : v # Read(h) => Held(v)' = <<>> \/ Held(v)' = Held(v)
      BY <2>5
    <2>8. Read(h) # Building(d) => Held(Building(d))' = <<>> BY <2>4
    <2> QED BY <1>3, <2>3, <2>6, <2>7, <2>8, CharsStep
  <1>8. CASE ToMailbox(d, c)
    <2>0. PICK n \in Nat : n = Len(lineReady[unit]) BY <1>1
    <2>1. /\ n < MAX_LINES_BUFFERED /\ Complete(d, c) /\ UNCHANGED lineRead
          /\ lineReady'[unit] = Append(lineReady[unit], Append(currLine[d], c))
          /\ \A v \in Units : v # unit => lineReady'[v] = lineReady[v]
      BY <1>1, <1>8, <2>0 DEF ToMailbox, Line
    <2>2. /\ lineReady[unit] \in Seq(Seq(Char)) /\ Append(currLine[d], c) \in Seq(Char)
      BY <1>1
    <2>3. /\ Len(lineReady'[unit]) = n + 1 /\ lineReady'[unit][n + 1] = Append(currLine[d], c)
          /\ \A k \in 1..n : lineReady'[unit][k] = lineReady[unit][k]
      BY <2>0, <2>1, <2>2, AppendIs
    <2>4. ASSUME NEW a \in Units, NEW k \in 1..MAX_LINES_BUFFERED, a # unit \/ k # n + 1
          PROVE  Held(LineAt(a, k))' = Held(LineAt(a, k))
      <3>1. CASE a # unit
        <4>1. ReadyLine(a, k)' = ReadyLine(a, k) BY <2>1, <3>1 DEF ReadyLine
        <4> QED BY <4>1, HeldIs
      <3>2. CASE a = unit /\ k # n + 1
        <4>1. k \in Nat /\ k > 0 /\ (k <= n + 1 <=> k <= n) BY <2>1, <3>2
        <4>2. k <= n => k \in 1..n BY <2>1, <4>1
        <4>3. ReadyLine(a, k)' = ReadyLine(a, k) BY <2>0, <2>3, <3>2, <4>1, <4>2 DEF ReadyLine
        <4> QED BY <4>3, HeldIs
      <3> QED BY <2>4, <3>1, <3>2
    <2>5. n + 1 \in 1..MAX_LINES_BUFFERED BY <1>1, <2>1
    <2>6. Held(LineAt(unit, n + 1))' = Append(Held(Building(d)), c)
      <3>1. ReadyLine(unit, n + 1)' = lineReady'[unit][n + 1]
        <4>1. n + 1 <= Len(lineReady'[unit]) BY <2>1, <2>3
        <4> QED BY <4>1 DEF ReadyLine
      <3>2. Held(Building(d)) = currLine[d] BY HeldIs
      <3>3. Held(LineAt(unit, n + 1))' = ReadyLine(unit, n + 1)' BY <1>1, <2>5, HeldIs
      <3> QED BY <2>3, <3>1, <3>2, <3>3
    <2>7. LineAt(unit, n + 1) \in CharPlaces BY <1>1, <2>5, PlacesAre
    <2>8. Held(Building(d))' = <<>> BY <1>2, <2>1, HeldIs
    <2>9. ASSUME NEW v \in CharPlaces, v # LineAt(unit, n + 1) PROVE Held(v)' = <<>> \/ Held(v)' = Held(v)
      <3>1. CASE \E a \in Units, k \in 1..MAX_LINES_BUFFERED : v = LineAt(a, k) BY <2>4, <2>9, <3>1
      <3>2. CASE \E q \in Users : v = Read(q) BY <2>1, <3>2, HeldIs
      <3>3. CASE \E e \in Drivers : v = Building(e) BY <1>4, <2>8, <3>3
      <3> QED BY <1>5, <3>1, <3>2, <3>3, PlacesAre
    <2>10. Held(LineAt(unit, n + 1))' \in {<<>>, Held(Building(d)), Append(Held(Building(d)), c)}
      BY <2>6
    <2>11. \A v \in CharPlaces : v # LineAt(unit, n + 1) => Held(v)' = <<>> \/ Held(v)' = Held(v)
      BY <2>9
    <2>12. LineAt(unit, n + 1) # Building(d) => Held(Building(d))' = <<>> BY <2>8
    <2> QED BY <1>3, <2>7, <2>10, <2>11, <2>12, CharsStep
  <1> QED BY <1>6, <1>7, <1>8, TermDriverIs

LEMMA InterruptChars ==
    ASSUME TermTypeOK, Lines, Chars, NEW u \in Units, Interrupt(u)
    PROVE  Chars'
  <1>1. CASE UNCHANGED <<typed, pending, waiters, currLine, queuesVars, phase>>
    BY <1>1, NothingTyped, CharsFrame DEF queuesVars
  <1>2. ASSUME NEW c \in Char \cup {NoChar}, Received(u, c),
               Stored(u, c) \/ ToWriter(u) \/ ToDriver(u, c)
        PROVE  Chars'
    <2>1. JustTyped(c) /\ JustTyped(NoChar) BY <1>2, ReceivedIsTyped
    <2>2. CASE Stored(u, c) BY <1>2, <2>2, StoredChars
    <2>3. CASE UNCHANGED <<pending, currLine, queuesVars>>
      BY <2>1, <2>3, CharsFrame DEF queuesVars
    <2>4. CASE c # NoChar /\ TermDriver(Head(waiters[u]), c) /\ Head(waiters[u]) \in Drivers
               /\ UNCHANGED pending
      BY <2>1, <2>4, DriverChars
    <2> QED BY <1>2, <2>2, <2>3, <2>4 DEF ToWriter, ToDriver
  <1> QED BY <1>1, <1>2, InterruptIs

LEMMA InitChars == TermInit => Chars
  <1> SUFFICES ASSUME TermInit PROVE Chars OBVIOUS
  <1>1. /\ \A u \in Units : pending[u] = <<>> /\ lineReady[u] = <<>>
        /\ \A d \in Drivers : currLine[d] = <<>>
        /\ \A p \in Users : lineRead[p] = <<>>
    BY DEF TermInit
  <1>2. \A u \in Units, k \in 1..MAX_LINES_BUFFERED : ReadyLine(u, k) = <<>>
    BY <1>1 DEF ReadyLine
  <1>3. ASSUME NEW v \in CharPlaces PROVE Held(v) = <<>>
    <2>1. CASE \E a \in Units : v = Status(a) BY <1>1, <2>1, HeldIs
    <2>2. CASE \E d \in Drivers : v = Building(d) BY <1>1, <2>2, HeldIs
    <2>3. CASE \E a \in Units, k \in 1..MAX_LINES_BUFFERED : v = LineAt(a, k) BY <1>2, <2>3, HeldIs
    <2>4. CASE \E q \in Users : v = Read(q) BY <1>1, <2>4, HeldIs
    <2> QED BY <2>1, <2>2, <2>3, <2>4, PlacesAre
  <1> QED BY <1>3 DEF Chars, Fresh, CharsOnce

-----------------------------------------------------------------------------
(* The invariant. *)
LEMMA InvParts == TermInv <=> TermTypeOK /\ Queues /\ Lines /\ Chars
  BY DEF TermInv, Queues, Lines, Chars

LEMMA InitType == TermInit => TermTypeOK
  <1> SUFFICES ASSUME TermInit PROVE TermTypeOK OBVIOUS
  <1>1. [i \in 1..MAX_TERMS |-> -i] \in Seq(Users \cup Drivers)
    <2>1. \A i \in 1..MAX_TERMS : -i \in Users \cup Drivers BY DEF Drivers
    <2>2. MAX_TERMS \in Nat BY TermAssumption
    <2>3. ASSUME NEW S, \A i \in 1..MAX_TERMS : -i \in S
          PROVE  [i \in 1..MAX_TERMS |-> -i] \in Seq(S)
      <3>1. [i \in 1..MAX_TERMS |-> -i] \in [1..MAX_TERMS -> S] BY <2>3
      <3> QED BY <2>2, <3>1
    <2> QED BY <2>1, <2>3
  <1>2. /\ <<>> \in Seq(Users \cup Drivers) /\ <<>> \in Seq(Char \cup {NoChar}) /\ Len(<<>>) <= 1
        /\ <<>> \in Seq(Char) /\ <<>> \in Seq(Seq(Char)) /\ <<>> \in Seq(Users)
        /\ <<>> \in Seq(ControlWord) /\ {} \in ControlWord
    BY DEF ControlWord
  <1>3. waiters \in [Units -> Seq(Users \cup Drivers)] BY <1>1, <1>2 DEF TermInit
  <1>4. pending \in [Units -> Seq(Char \cup {NoChar})] /\ \A u \in Units : Len(pending[u]) <= 1
    BY <1>2 DEF TermInit
  <1>5. /\ control \in [Units -> ControlWord] /\ sending \in [Units -> BOOLEAN]
        /\ typed \in [Units -> Nat]
        /\ currLine \in [Drivers -> Seq(Char)] /\ lineReady \in [Units -> Seq(Seq(Char))]
    BY <1>2 DEF TermInit
  <1>6. /\ readers \in [Units -> Seq(Users)] /\ writers \in [Units -> Seq(Users)]
        /\ text \in [Users -> Seq(ControlWord)] /\ lineRead \in [Users -> Seq(Char)]
        /\ phase \in [Users -> {"idle", "read", "lock", "output", "status"}]
    BY <1>2 DEF TermInit
  <1> QED BY <1>3, <1>4, <1>5, <1>6 DEF TermTypeOK

LEMMA InitQueues == TermInit => Queues
  <1> SUFFICES ASSUME TermInit PROVE Queues OBVIOUS
  <1>1. \A u \in Units : writers[u] = <<>> /\ readers[u] = <<>> BY DEF TermInit
  <1>2. MutexQueue /\ ReaderQueue BY <1>1 DEF MutexQueue, ReaderQueue, Apart
  <1>3. ASSUME NEW u \in Units, NEW i \in 1..Len(waiters[u]) PROVE waiters[u][i] \notin Users
    <2>1. CASE u = unit
      <3>1. waiters[u] = [k \in 1..MAX_TERMS |-> -k] BY <2>1 DEF TermInit
      <3>2. Len(waiters[u]) = MAX_TERMS BY <3>1, TermAssumption
      <3>3. i \in 1..MAX_TERMS /\ waiters[u][i] = -i BY <3>1, <3>2
      <3>4. waiters[u][i] \in Drivers BY <3>3 DEF Drivers
      <3> QED BY <3>4, UnitsType
    <2>2. CASE u # unit
      <3>1. waiters[u] = <<>> BY <2>2 DEF TermInit
      <3> QED BY <3>1
    <2> QED BY <2>1, <2>2
  <1>4. DeviceQueue BY <1>3 DEF DeviceQueue
  <1> QED BY <1>2, <1>4 DEF Queues

LEMMA WriteLeaves ==
    ASSUME TermTypeOK, Lines, Chars, NEW p \in Users, NEW u \in Units,
           WriteDone(p, u) \/ \E chars \in Seq(ControlWord) : sys_term_write(p, u, chars)
    PROVE  Lines' /\ Chars'
  <1>1. UNCHANGED <<pending, typed, currLine, lineReady, lineRead>>
    BY DEF WriteDone, sys_term_write, queuesVars
  <1> QED BY <1>1, NothingTyped, LinesFrame, CharsFrame

(* Users who write what they like, be it in Texts or not. *)
TermAnyNext == \E u \in Units :
    \/ Interrupt(u)
    \/ \E p \in Users : \/ sys_term_read(p, u) \/ WriteChar(p, u) \/ WriteDone(p, u)
                        \/ \E chars \in Seq(ControlWord) : sys_term_write(p, u, chars)

LEMMA TermAnyKept == TermInv /\ [TermAnyNext]_termVars => TermInv'
  <1> SUFFICES ASSUME TermTypeOK, Queues, Lines, Chars, [TermAnyNext]_termVars
               PROVE  TermTypeOK' /\ Queues' /\ Lines' /\ Chars'
    BY InvParts DEF TermInv, Queues, Lines, Chars
  <1>1. ASSUME NEW u \in Units, Interrupt(u)
        PROVE  TermTypeOK' /\ Queues' /\ Lines' /\ Chars'
    BY <1>1, InterruptType, InterruptQueues, InterruptLines, InterruptChars
  <1>2. ASSUME NEW u \in Units, NEW p \in Users, sys_term_read(p, u)
        PROVE  TermTypeOK' /\ Queues' /\ Lines' /\ Chars'
    BY <1>2, ReadType, ReadQueues, ReadLines, ReadChars
  <1>3. ASSUME NEW u \in Units, NEW p \in Users, NEW chars \in Seq(ControlWord), sys_term_write(p, u, chars)
        PROVE  TermTypeOK' /\ Queues' /\ Lines' /\ Chars'
    BY <1>3, WriteType, WriteQueues, WriteLeaves
  <1>4. ASSUME NEW u \in Units, NEW p \in Users, WriteChar(p, u)
        PROVE  TermTypeOK' /\ Queues' /\ Lines' /\ Chars'
    <2>1. UNCHANGED <<currLine, lineReady>> BY <1>4 DEF WriteChar, queuesVars
    <2> QED BY <1>4, <2>1, WriteCharType, WriteCharQueues, LinesFrame, WriteCharChars
  <1>5. ASSUME NEW u \in Units, NEW p \in Users, WriteDone(p, u)
        PROVE  TermTypeOK' /\ Queues' /\ Lines' /\ Chars'
    <2>1. MutexQueue BY DEF Queues
    <2> QED BY <1>5, <2>1, WriteDoneType, WriteDoneQueues, WriteLeaves
  <1>6. CASE UNCHANGED termVars
    <2>1. UNCHANGED <<control, sending, pending, waiters, typed, currLine, lineReady, readers,
                      writers, text, phase, lineRead>>
      BY <1>6 DEF termVars, deviceVars
    <2>2. UNCHANGED <<pending, typed, currLine, lineReady, lineRead>> BY <2>1
    <2>3. Lines' /\ Chars' BY <2>2, NothingTyped, LinesFrame, CharsFrame
    <2>4. Queues'
      <3>1. UNCHANGED <<waiters, readers, writers, phase>> BY <2>1
      <3> QED BY <3>1, MutexFrame, ReaderFrame, DeviceFrame DEF Queues
    <2>5. TermTypeOK' BY <2>1 DEF TermTypeOK
    <2> QED BY <2>3, <2>4, <2>5
  <1> QED BY <1>1, <1>2, <1>3, <1>4, <1>5, <1>6 DEF TermAnyNext

LEMMA TermInvKept == TermInv /\ [TermNext]_termVars => TermInv'
  <1>1. TermNext => TermAnyNext BY TermAssumption DEF TermNext, TermAnyNext
  <1> QED BY <1>1, TermAnyKept

LEMMA TermInitInv == TermInit => TermInv
  BY InitType, InitQueues, InitLines, InitChars, InvParts

LEMMA TermInvAlways == TermSpec => []TermInv
  <1> QED BY TermInitInv, TermInvKept, PTL DEF TermSpec

(* At the device is the first writer of the unit only. *)
LEMMA FirstIsWriting ==
    ASSUME TermTypeOK, MutexQueue, NEW u \in Units
    PROVE  /\ Writing(u) \subseteq {writers[u][1]}
           /\ writers[u] # <<>> => Writing(u) # {}
  <1>1. writers[u] \in Seq(Users) BY DEF TermTypeOK
  <1>2. Writing(u) \subseteq {writers[u][1]} BY DEF Writing, Contains, MutexQueue
  <1>3. ASSUME writers[u] # <<>> PROVE Writing(u) # {}
    <2>1. 1 \in 1..Len(writers[u]) /\ writers[u][1] \in Users BY <1>1, <1>3
    <2>2. phase[writers[u][1]] \in {"output", "status"} BY <2>1 DEF MutexQueue
    <2> QED BY <2>1, <2>2 DEF Writing, Contains
  <1> QED BY <1>2, <1>3

LEMMA TermInvShows == TermInv => OneWriter /\ MutexHandedOn /\ CharsOnce /\ LineFits
  <1>1. TermInv => OneWriter
    <2> SUFFICES ASSUME TermTypeOK, MutexQueue, NEW u \in Units PROVE Cardinality(Writing(u)) <= 1
      BY DEF TermInv, OneWriter
    <2>1. IsFiniteSet({writers[u][1]}) /\ Cardinality({writers[u][1]}) = 1 BY FS_Singleton
    <2>2. Writing(u) \in SUBSET {writers[u][1]} BY FirstIsWriting
    <2> QED BY <2>1, <2>2, FS_Subset
  <1>2. TermInv => MutexHandedOn BY FirstIsWriting DEF TermInv, MutexHandedOn
  <1> QED BY <1>1, <1>2 DEF TermInv

-----------------------------------------------------------------------------
(* Every state of the terminals is well formed, whatever is typed and      *)
(* whoever reads and writes: a unit never has two statuses to fetch.       *)
THEOREM TermTypeCorrect == TermSpec => []TermTypeOK
  <1>1. TermInv => TermTypeOK BY DEF TermInv
  <1> QED BY <1>1, TermInvAlways, PTL

(* sys_term_write: between MboxSend and MboxRecv of the mutex of a unit    *)
(* there is one process at most, so the characters of two writes do not    *)
(* mix.                                                                    *)
THEOREM OneWriterAtATime == TermSpec => []OneWriter
  <1> QED BY TermInvShows, TermInvAlways, PTL

(* sys_term_write: while writers wait for the mutex of a unit one of them  *)
(* has it; a write that is done hands it on.                               *)
THEOREM MutexIsHandedOn == TermSpec => []MutexHandedOn
  <1> QED BY TermInvShows, TermInvAlways, PTL

(* TermDriver and sys_term_read: a typed character is in one status, one   *)
(* line that is being built, one line that is ready or one line that was   *)
(* read, never in two and never twice.                                     *)
THEOREM CharsNeverTwice == TermSpec => []CharsOnce
  <1>1. TermInv => CharsOnce BY DEF TermInv
  <1> QED BY <1>1, TermInvAlways, PTL

(* TermDriver: the line of a driver leaves room for one character more,    *)
(* lineReadyMbox has no more lines than slots, and a line ends with its    *)
(* new line.                                                               *)
THEOREM LinesFit == TermSpec => []LineFits
  <1>1. TermInv => LineFits BY DEF TermInv
  <1> QED BY <1>1, TermInvAlways, PTL
=============================================================================

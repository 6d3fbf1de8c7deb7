------------------------------ MODULE Channels ------------------------------
(***************************************************************************)
(* What the mailbox layer promises about messages: every open mailbox is a *)
(* bounded first-in first-out channel.  A message enters a channel in the  *)
(* step that returns success to its sender and leaves it in the step that  *)
(* returns it, once, to a receiver; it is lost only to a receiver that     *)
(* gets an error for it or to the closing of the channel.  Slots, waiting  *)
(* lists and wake-ups do not exist here.                                   *)
(***************************************************************************)
EXTENDS Integers, Sequences

CONSTANTS Procs, Boxes, Messages, NoMessage

VARIABLES open,   \* open[b]
          cap,    \* cap[b], how many messages channel b holds
          chan,   \* chan[b], the messages in it, oldest first
          result  \* result[p], what p's last operation returned

vars == <<open, cap, chan, result>>

TypeOK ==
    /\ open \in [Boxes -> BOOLEAN]
    /\ cap \in [Boxes -> Nat]
    /\ chan \in [Boxes -> Seq(Messages)]
    /\ result \in [Procs -> [rc : Int, msg : Messages]]

Init ==
    /\ open \in [Boxes -> BOOLEAN]
    /\ cap \in [Boxes -> 0..1]
    /\ chan = [b \in Boxes |-> <<>>]
    /\ result = [p \in Procs |-> [rc |-> 0, msg |-> NoMessage]]

Answer(p, rc, m) == result' = [result EXCEPT ![p] = [rc |-> rc, msg |-> m]]

Put(p, b, m) ==
    /\ open[b] /\ Len(chan[b]) < cap[b]
    /\ chan' = [chan EXCEPT ![b] = Append(@, m)]
    /\ Answer(p, 0, NoMessage)
    /\ UNCHANGED <<open, cap>>

Take(p, b) ==
    /\ open[b] /\ chan[b] # <<>>
    /\ chan' = [chan EXCEPT ![b] = Tail(@)]
    /\ Answer(p, Head(chan[b]).len, Head(chan[b]))
    /\ UNCHANGED <<open, cap>>

(* The buffer is smaller than the oldest message. *)
Lose(p, b) ==
    /\ open[b] /\ chan[b] # <<>>
    /\ chan' = [chan EXCEPT ![b] = Tail(@)]
    /\ Answer(p, -1, NoMessage)
    /\ UNCHANGED <<open, cap>>

(* A rendezvous on a channel of capacity zero, which carries nothing. *)
Meet(p) ==
    /\ \E b \in Boxes : open[b] /\ cap[b] = 0
    /\ Answer(p, 0, NoMessage)
    /\ UNCHANGED <<open, cap, chan>>

Refuse(p) ==
    /\ \E rc \in {-1, -2} : Answer(p, rc, NoMessage)
    /\ UNCHANGED <<open, cap, chan>>

Open(p, b) ==
    /\ ~open[b]
    /\ open' = [open EXCEPT ![b] = TRUE]
    /\ cap'[b] \in Nat /\ cap' = [cap EXCEPT ![b] = cap'[b]]
    /\ chan' = [chan EXCEPT ![b] = <<>>]
    /\ Answer(p, b, NoMessage)

Close(b) ==
    /\ open[b]
    /\ open' = [open EXCEPT ![b] = FALSE]
    /\ chan' = [chan EXCEPT ![b] = <<>>]
    /\ UNCHANGED <<cap, result>>

Closed(p) ==
    /\ \E b \in Boxes : ~open[b]
    /\ Answer(p, 0, NoMessage)
    /\ UNCHANGED <<open, cap, chan>>

Next ==
    \/ \E p \in Procs, b \in Boxes :
         \/ \E m \in Messages : Put(p, b, m)
         \/ Take(p, b) \/ Lose(p, b) \/ Open(p, b)
    \/ \E p \in Procs : Meet(p) \/ Refuse(p) \/ Closed(p)
    \/ \E b \in Boxes : Close(b)

Spec == Init /\ [][Next]_vars
=============================================================================

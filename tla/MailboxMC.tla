----------------------------- MODULE MailboxMC -----------------------------
(* Values of the constants of Mailbox for model checking. *)
EXTENDS Mailbox, TLC

CONSTANTS p1, p2, p3, p4, x, y, tick

Short == [len |-> 1, ptr |-> x]
Long  == [len |-> 2, ptr |-> y]

TwoMessages  == {Short, Long}
OneMessage   == {Short}
(* A length beyond every slot, a NULL pointer with a length, an empty message. *)
OddMessages == TwoMessages \cup {[len |-> 5, ptr |-> x], [len |-> 1, ptr |-> NULL],
                                 [len |-> -1, ptr |-> x], NoMessage}

(* A negative size, one that is too small for Long, one that fits. *)
OddSizes == {-1, 1, 4}

SendOps == {"send", "condSend"}
RecvOps == {"recv", "condRecv"}

EqualPriority == [p \in Procs |-> 3]

(* p1 receives, the others send; only p2 creates and only it sends without *)
(* waiting.                                                                *)
OneReceiver == [p \in Procs |-> CASE p = p1 -> RecvOps
                                  [] p = p2 -> SendOps \cup {"create"}
                                  [] OTHER  -> {"send"}]
TwoReceivers == [p \in Procs |-> CASE p = p1 -> {"recv"}
                                   [] p = p2 -> {"recv", "create"}
                                   [] OTHER  -> {"send"}]
(* p1 owns the mailboxes, p2 sends, p3 receives. *)
OwnerSenderReceiver ==
    (p1 :> {"create", "release"}) @@ (p2 :> SendOps) @@ (p3 :> RecvOps)
OwnerTwoReceivers ==
    (p1 :> {"create", "release"}) @@ (p2 :> {"recv"}) @@ (p3 :> {"recv"})
(* Two processes create and release behind each other's back. *)
TwoOwners == (p1 :> {"create", "release"}) @@ (p2 :> {"send", "condSend", "release"})
             @@ (p3 :> {"create", "recv", "condRecv"})
(* p1 waits for the clock, p3 sends to p2, and the clock interrupts each   *)
(* of them, the driver p1 too.                                             *)
DriverAndReader == (p1 :> {"waitDevice", "tick"}) @@ (p2 :> {"recv", "tick"}) @@
                   (p3 :> {"create", "send", "tick"})
============================================================================
